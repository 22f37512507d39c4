--------------------------- MODULE MCModuleLoader ---------------------------
(* A program, a blended module a and a script module b, for TLC. *)
EXTENDS ModuleLoader, TLC

CONSTANTS main, worker, p, a, b, missing

MCThreads == {main, worker}
OneThread == {main}

\* Two modules besides the program, and a name without a file.
MCNames == {p, a, b, missing}
MCParts == (p :> {"script"}) @@ (a :> {"native", "script"}) @@ (b :> {"script"})
           @@ (missing :> {})
MCCalls == {<<p, "path">>, <<a, "path">>, <<a, "absolute">>, <<b, "path">>, <<missing, "path">>}

\* One module besides the program.
FewNames == {p, a}
FewParts == (p :> {"script"}) @@ (a :> {"native", "script"})
FewCalls == {<<a, "path">>}
=============================================================================
