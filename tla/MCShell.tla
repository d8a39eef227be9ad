------------------------------ MODULE MCShell ------------------------------
EXTENDS Shell

S(p)        == [prog |-> p, in |-> "inherit", out |-> "inherit"]
From(p)     == [prog |-> p, in |-> "file", out |-> "inherit"]
FromNone(p) == [prog |-> p, in |-> "missing", out |-> "inherit"]
To(p)       == [prog |-> p, in |-> "inherit", out |-> "file"]

\* Lines whose programs read to the end, and everything that the parser accepts and
\* these programs can do wrong.
AllLines ==
    { <<S("echo"), S("cat"), S("cat")>>,
      <<S("absent"), S("cat"), To("cat")>>,
      <<From("cat"), S("cat")>>,
      <<S("absent")>>,
      <<S("echo"), S("head")>>,
      <<To("echo"), S("cat")>>,
      <<S("echo"), From("cat")>>,
      <<S("echo"), FromNone("cat")>>,
      <<S("echo"), S("absent")>> }

HeadLines == { <<S("echo"), S("head")>> }
=============================================================================
