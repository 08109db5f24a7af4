--------------------------- MODULE MCAcquisition ---------------------------
(* Small instances of AcquisitionProperties. *)
EXTENDS AcquisitionProperties

CONSTANTS p1, p2, p3, image, app, odd

\* An offline build as runBuild and writeRescue ask for it, the same blob under
\* two names, and an asset with metadata that is not well-formed.
OfflinePlans ==
    {<<"index.json", image, app, "update.sjson">>, <<image, image>>, <<app, odd>>}

OneAsset == {<<image>>}
=============================================================================
