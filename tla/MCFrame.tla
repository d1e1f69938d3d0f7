---- MODULE MCFrame ----
EXTENDS Frame
Handlers == {<<"rpc", 1>>, <<"rpc", 2>>, <<"snapshot", 1>>}
====
