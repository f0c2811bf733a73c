------------------------------- MODULE Calls -------------------------------
(***************************************************************************)
(* The calls the four skiplists take and what they hand back.  A call is a *)
(* record of its name and arguments; an insert also carries the level its  *)
(* key is promoted to, which is drawn when it starts.                      *)
(***************************************************************************)
EXTENDS Integers

CONSTANTS
  MaxHeight,   \* MAX_HEIGHT, the number of levels
  Key,         \* the keys, a set of integers
  Value,       \* the values
  Length,      \* the lengths a caller may pass to range
  NoKey,       \* key == nullptr
  NoValue      \* val == nullptr, std::nullopt

ASSUME CallAssumption ==
  /\ MaxHeight \in Nat /\ MaxHeight > 1
  /\ Key \subseteq Int
  /\ NoKey \notin Int
  /\ NoValue \notin Value
  /\ Length \subseteq Nat

Level == 0 .. MaxHeight - 1

IdleOp == [name |-> "idle", key |-> NoKey, val |-> NoValue, level |-> 0, len |-> 0]

\* The calls a client can make when the generator draws from levels.
Ops(levels) ==
  [name : {"get", "remove"}, key : Key, val : {NoValue}, level : {0}, len : {0}]
    \cup [name : {"insert"}, key : Key, val : Value, level : levels, len : {0}]
    \cup [name : {"range"}, key : Key, val : {NoValue}, level : {0}, len : Length]

OpType == [name : {"idle", "get", "insert", "remove", "range"},
           key : Key \cup {NoKey}, val : Value \cup {NoValue},
           level : Level, len : Nat]

NoReply == <<"none", NoKey, NoValue>>

ReplyType == {"none", "get", "absent", "removed", "pair"}
               \X (Key \cup {NoKey}) \X (Value \cup {NoValue})

\* The call o as OrderedMap knows it, once it has taken effect and before.
Request(o, effective) ==
  [name |-> IF effective THEN "return" ELSE o.name,
   key  |-> IF effective THEN NoKey ELSE o.key,
   val  |-> IF effective THEN NoValue ELSE o.val,
   len  |-> IF effective THEN 0 ELSE o.len]
=============================================================================
