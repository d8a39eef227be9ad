--------------------------- MODULE MCOpfsBackend ---------------------------
EXTENDS OpfsBackend, TLC

CONSTANTS a, b

Call(op, p, q) ==
    [op |-> op, path |-> p, to |-> q, create |-> FALSE, exclusive |-> FALSE, truncate |-> FALSE]

Opens(p) == [Call("open", p, p) EXCEPT !.create = TRUE, !.truncate = TRUE]
OpensNew(p) == [Call("open", p, p) EXCEPT !.create = TRUE, !.exclusive = TRUE]

Calls ==
    { Opens(<<a>>), OpensNew(<<b>>), Call("open", <<a, b>>, <<a, b>>), Call("opendir", <<a>>, <<a>>),
      Call("mkdir", <<a>>, <<a>>), Call("rmdir", <<b>>, <<b>>), Call("unlink", <<a>>, <<a>>),
      Call("rename", <<a>>, <<a>>), Call("rename", <<a>>, <<b>>), Call("rename", <<b>>, <<a, b>>) }

\* A new OPFS would need more calls before anything can be lost.
Left ==
    { [dirs |-> {<<b>>}, files |-> <<a>> :> TRUE],
      [dirs |-> {<<a>>}, files |-> <<a, b>> :> TRUE] }
=============================================================================
