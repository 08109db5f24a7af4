----------------------------- MODULE MCCommand -----------------------------
(* Command lines for CommandProperties. *)
EXTENDS CommandProperties

\* Refused before the command runs; nothing else on the line is looked at.
Rejected ==
    {l \in [cmd : {"build", "versions"}, bad : {"none", "first", "last"},
            operand : BOOLEAN, invalid : BOOLEAN, dash : {FALSE},
            json : {"absent", "true", "false"}, env : BOOLEAN,
            closed : SUBSET {"stdout", "stderr"}, quiet : {FALSE},
            noInput : {FALSE}, ci : {FALSE}, tty : {{}},
            force : {FALSE}, resources : {"absent"}] :
        l.bad # "none" \/ l.operand \/ l.invalid}

\* Lines that reach their command: -o - at build and init only, --force and
\* --resources-output at build, nobody to ask for one reason at a time.
Accepted ==
    {l \in [cmd : {"build", "validate", "versions", "init"}, bad : {"none"},
            operand : {FALSE}, invalid : {FALSE}, dash : BOOLEAN,
            json : {"absent", "true"}, env : {FALSE},
            closed : SUBSET {"stdout", "stderr"}, quiet : BOOLEAN,
            noInput : BOOLEAN, ci : BOOLEAN, tty : {{"stdin"}, {"stdin", "stdout"}},
            force : BOOLEAN, resources : {"absent", "dash", "image", "other"}] :
        /\ l.dash => l.cmd \in {"build", "init"}
        /\ l.force \/ l.resources # "absent" => l.cmd = "build"
        /\ l.noInput \/ l.ci => ~(l.noInput /\ l.ci) /\ l.tty = {"stdin", "stdout"}
        /\ l.cmd \in {"validate", "versions"} => l.tty = {"stdin"}
        /\ l.quiet => ~l.force /\ l.resources = "absent"}

Lines == Rejected \cup Accepted
=============================================================================
