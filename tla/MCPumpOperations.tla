-------------------------- MODULE MCPumpOperations --------------------------
(* Two calls: one by a handler of the actor, one by a goroutine of its own. *)
EXTENDS PumpOperations

CONSTANTS handler, stray

MCCalls == {handler, stray}
MCStrays == {stray}
Pair(h, s) == [c \in MCCalls |-> IF c = handler THEN h ELSE s]

\* Two calls in one table, and every other kind beside another.
MCKinds == {Pair("SQLiteQuery", "SQLiteCommit"), Pair("QueueNext", "SendWebSocket"),
            Pair("Sleep", "WriteHTTPResponseChunk"), Pair("EndManagedWork", "KVPut")}
MCReadOnly == {handler}
\* Ids are interchangeable: the first one given in a table is 1.
FirstId ==
  \A c \in MCCalls : id[c] > 1 =>
    \E d \in MCCalls \ {c} : TableOf(d) = TableOf(c) /\ id[d] # 0
\* A read whose answer has more chunks than its channel holds.
MCReadKinds == {Pair("SQLiteQuery", "KVGet")}
=============================================================================
