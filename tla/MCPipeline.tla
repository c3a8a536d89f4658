----------------------------- MODULE MCPipeline -----------------------------
EXTENDS Pipeline
UpTo(n) == UNION {[1..m -> Kinds] : m \in 1..n}
Long == {<<"yes", "cat", "cat", "head">>, <<"echo", "cat", "cat", "cat">>}
MCChains == UpTo(3) \cup Long
=============================================================================
