-------------------------- MODULE MCApplyManifests --------------------------
\* A definition and a resource that it defines; and a checkout with a manifest
\* whose kind the script does not know.
EXTENDS ApplyManifests

MCObjects == {"crd", "network", "odd"}
MCUnhandled == {"odd"}
MCNeeds == [o \in MCObjects |-> IF o = "network" THEN {"crd"} ELSE {}]
MCInputs == {<<"crd", "network">>, <<"crd", "odd">>}
=============================================================================
