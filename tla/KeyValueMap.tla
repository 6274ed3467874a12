---------------------------- MODULE KeyValueMap ----------------------------
(***************************************************************************)
(* What the hash maps of src/Lib promise to their caller: a bounded map    *)
(* from keys to values.  The caller asks for one operation at a time; the  *)
(* operation takes effect and is answered in one step, some time after it  *)
(* was asked for.                                                          *)
(***************************************************************************)
EXTENDS FiniteSets, Naturals

CONSTANTS
  Keys,
  Values,
  MaxCount,    \* a map of this many keys accepts no Add
  Absent,      \* what Get answers instead of a value: nullptr
  Pending      \* the operation has not been answered yet

VARIABLES
  content,     \* content[k]: the value of k, or Absent
  request,     \* the operation asked for last
  answer       \* its answer, or Pending

mapVars == <<content, request, answer>>

Requests ==
  [op : {"Add", "Replace"}, key : Keys, value : Values]
    \union [op : {"Get", "Remove"}, key : Keys]
    \union [op : {"Clear"}]

NoContent == [k \in Keys |-> Absent]

KeysOf(map) == {k \in Keys : map[k] # Absent}

Init ==
  /\ content = NoContent
  /\ request = [op |-> "Clear"]
  /\ answer = "Cleared"

Ask ==
  /\ answer # Pending
  /\ request' \in Requests
  /\ answer' = Pending
  /\ UNCHANGED content

Respond(newContent, result) ==
  /\ answer = Pending
  /\ content' = newContent
  /\ answer' = result
  /\ UNCHANGED request

\* A map that is full refuses even the keys that it holds.
RefuseWhenFull ==
  /\ request.op \in {"Add", "Replace"}
  /\ Cardinality(KeysOf(content)) = MaxCount
  /\ Respond(content, "IsMapFull")

AddNew ==
  /\ request.op \in {"Add", "Replace"}
  /\ Cardinality(KeysOf(content)) < MaxCount
  /\ content[request.key] = Absent
  /\ Respond([content EXCEPT ![request.key] = request.value], "Inserted")

FindExisting ==
  /\ request.op \in {"Add", "Replace"}
  /\ Cardinality(KeysOf(content)) < MaxCount
  /\ content[request.key] # Absent
  /\ IF request.op = "Replace"
       THEN Respond([content EXCEPT ![request.key] = request.value], "DoesExist")
       ELSE Respond(content, "DoesExist")

Get ==
  /\ request.op = "Get"
  /\ Respond(content, content[request.key])

Remove ==
  /\ request.op = "Remove"
  /\ Respond([content EXCEPT ![request.key] = Absent],
             IF content[request.key] = Absent THEN "NotFound" ELSE "Removed")

Clear ==
  /\ request.op = "Clear"
  /\ Respond(NoContent, "Cleared")

Next ==
  Ask \/ RefuseWhenFull \/ AddNew \/ FindExisting \/ Get \/ Remove \/ Clear

Spec == Init /\ [][Next]_mapVars

=============================================================================
