----------------------------- MODULE InitConfig -----------------------------
(***************************************************************************)
(* A configuration is written by hand, by the prompts of init or by init   *)
(* --no-input, and then read by build or validate.  ConfigParse reads it,  *)
(* InitPrompt asks; the file between them is what renderInitConfig gives.  *)
(***************************************************************************)
EXTENDS ConfigParseProperties

CONSTANT MaxLines

VARIABLES scanner, read, errs, ctxDone, asking, parked, taken, answers, err, result

VARIABLE author   \* who writes the file: "hand", "init" or, with --no-input, "example"

P == INSTANCE InitPromptProperties

promptVars == <<scanner, read, errs, ctxDone, asking, parked, taken, answers, err, result>>
allVars == <<vars, promptVars, author>>

InitBoth == Init /\ P!newInitLinePrompt /\ author \in {"hand", "init", "example"}

Written == P!renderInitConfig(answers)

\* The process of init is over when another one reads the file.
Prompts(A) ==
    /\ author = "init" /\ pc = "read" /\ A
    /\ UNCHANGED <<vars, author>>

promptSend == Prompts(P!Send)
promptClose == Prompts(P!CloseLines)
promptLine == Prompts(P!line)
promptEnd == Prompts(P!wrapInitFormError)

AskSteps ==
    promptSend \/ promptClose \/ promptLine \/ promptEnd
    \/ Prompts(P!Scan) \/ Prompts(P!ScanEnd) \/ Prompts(P!Cancel)

\* The file of init is not encrypted and is decoded to what was written; YAML may
\* complain of a wild channel only.
FileOfInit ==
    /\ ~sops'
    /\ pc' = "version" => raw' = Written
    /\ failure'.at \in {"sops", "decode"} => answers.channel = "wild"

\* Bound: nothing happens in the process of init once it has the answers; the file
\* would be the same.
Answered ==
    \/ author = "example"
    \/ author = "init" /\ result = "answers" /\ scanner = "scan" /\ read = taken

Parses == readConfig \/ hasTopLevelSOPS \/ Decrypt \/ Decode \/ checkVersion
          \/ applyDefaults \/ validate \/ Render

Reads ==
    /\ \/ author = "hand" /\ Parses
       \/ Answered /\ Parses /\ FileOfInit
    /\ UNCHANGED <<promptVars, author>>

Over ==
    /\ pc \in {"done", "failed"} \/ result # "none"
    /\ UNCHANGED allVars

NextBoth == AskSteps \/ Reads \/ Over

SpecBoth ==
    /\ InitBoth /\ [][NextBoth]_allVars
    /\ WF_allVars(promptSend) /\ WF_allVars(promptClose)
    /\ WF_allVars(promptLine) /\ WF_allVars(promptEnd)

-----------------------------------------------------------------------------
(* The prompts, see InitPromptProperties.                                   *)

\* Every line becomes one answer, in order (scanInitLines, line, runAccessibleInitForm).
LinesBecomeAnswers == P!LinesBecomeAnswers

\* A signal and the end of the input end the form (line, scanInitLines).
Ends == P!Ends

-----------------------------------------------------------------------------
(* What the two promise together.                                           *)

\* What init writes, build and validate take, but for a channel that is no plain
\* text in YAML; and the image is the one that was asked for, line for line: its type,
\* channel and application are those of the answers, an offline one holds the
\* application and never updates (renderInitConfig, Parse, Render).
InitConfigIsAccepted ==
    author # "hand" /\ answers.channel # "wild" =>
        /\ pc = "failed" => failure.at \in {"read", "render"}
        /\ pc = "done" =>
              /\ doc.type = (IF answers.type = "2" THEN "raw" ELSE "iso")
              /\ doc.arch = (IF answers.arch = "2" THEN "aarch64" ELSE "x86_64")
              /\ doc.channel = answers.channel
              /\ {e.name : e \in {archive[i] : i \in DOMAIN archive}} =
                     IF answers.offline = "y" THEN {"applications", "update"} ELSE {}
              /\ answers.offline = "y" => \E i \in Entry("applications") :
                     archive[i].content.body = answers.application

-----------------------------------------------------------------------------
(* Behind the properties.                                                   *)

\* What is read is what init wrote.
FileIsWritten ==
    author # "hand" =>
        /\ ~sops /\ pc # "decrypt"
        /\ pc \in {"version", "defaults", "validate", "render", "done"} => raw = Written
        /\ pc = "failed" =>
              \/ failure.at \in {"read", "render"}
              \/ failure.at \in {"sops", "decode"} /\ answers.channel = "wild"

InitConfigInv == P!PromptInv /\ ConfigInv /\ FileIsWritten
=============================================================================
