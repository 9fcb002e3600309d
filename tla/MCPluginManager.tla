-------------------------- MODULE MCPluginManager --------------------------
(* The plugin manager with two plugin files and one caller.                   *)
EXTENDS PluginManager

CONSTANTS a, b, server

MCSorted ==
  [present \in SUBSET {a, b} |-> SelectSeq(<<a, b>>, LAMBDA p: p \in present)]
MCOwners == {a, b, server}

Library(fails, tools_, stops) ==
  [fails |-> fails, tools |-> tools_, stops |-> stops]

\* One that works, one with no shutdown function and no state to speak of, one
\* that wants a name of the server, and one for every way to fail.
MCLibraries ==
  {Library("never", <<"shell">>, TRUE), Library("never", <<"demo">>, FALSE),
   Library("never", <<"read_file">>, TRUE), Library("open", <<>>, TRUE),
   Library("init", <<"shell">>, TRUE), Library("register", <<>>, TRUE)}
=============================================================================
