----------------------------- MODULE MCSkipLists -----------------------------
(* The skip lists of datastruct.h for TLC, one of them per behaviour: a     *)
(* SkipList, two that are copied to each other, a Set, a SkipListBK and two *)
(* of these in a program that clears a list before it destroys it. The key  *)
(* objects 11, 12, 21 of a SkipListBK have their first digit as rank.       *)
EXTENDS Integers, TLC

CONSTANTS one, two, v1, v2, None
VARIABLES mem, list, ret, lost, keys, held, part

Same(k) == k
FirstDigit(k) == k \div 10

One == {one}
Both == {one, two}
OneValue == {v1}
TwoValues == {v1, v2}
SmallKeys == {1, 2}
OneKey == {1}
SetKeys == {1, 4, 5}
BigKeys == {11, 12, 21}
EqualKeys == {11, 12}
Five == 1 .. 5
Six == 1 .. 6
Seven == 1 .. 7

Table == INSTANCE SkipList WITH
  Lists <- One, Keys <- SmallKeys, Values <- TwoValues, Rank <- Same, Addresses <- Five, MaxHeight <- 2
Pair == INSTANCE SkipList WITH
  Lists <- Both, Keys <- OneKey, Values <- OneValue, Rank <- Same, Addresses <- Six, MaxHeight <- 2
IntSet == INSTANCE Set WITH
  Lists <- One, Keys <- SetKeys, Values <- OneValue, Addresses <- Seven, MaxHeight <- 2,
  ByteBits <- 2, Bytes <- 2
BK == INSTANCE SkipListBK WITH
  Lists <- One, Keys <- BigKeys, Values <- OneValue, Rank <- FirstDigit, Addresses <- Five, MaxHeight <- 2
Clearing == INSTANCE SkipListBK WITH
  Lists <- Both, Keys <- EqualKeys, Values <- OneValue, Rank <- FirstDigit, Addresses <- Six, MaxHeight <- 1

ASSUME ConstantsAssumption ==
  /\ Table!ConstantsRight /\ Pair!ConstantsRight /\ IntSet!ConstantsRight
  /\ BK!ConstantsRight /\ Clearing!ConstantsRight

all == <<mem, list, ret, lost, keys, held, part>>

InitLists ==
  /\ keys = {} /\ held = {}
  /\ \/ part = "table" /\ Table!Init
     \/ part = "pair" /\ Pair!Init
     \/ part = "set" /\ IntSet!Init
     \/ part = "big keys" /\ BK!Init
     \/ part = "clearing" /\ Clearing!Init

NoKeys == UNCHANGED <<part, keys, held>>
TableStep == part = "table" /\ Table!Next /\ NoKeys
PairStep == part = "pair" /\ Pair!Next /\ NoKeys
SetStep == part = "set" /\ IntSet!SetNext /\ NoKeys
BigKeysStep == part = "big keys" /\ BK!NextBK /\ UNCHANGED part
ClearingStep == part = "clearing" /\ Clearing!ClearingNext /\ UNCHANGED part

NextLists == TableStep \/ PairStep \/ SetStep \/ BigKeysStep \/ ClearingStep
SpecLists == InitLists /\ [][NextLists]_all
\* The lists, and the values, differ in name only.
Symmetric == Permutations(Both) \cup Permutations(TwoValues)
\* ret says nothing about what comes next.
StructureLists == <<mem, list, lost, keys, held, part>>

-----------------------------------------------------------------------------
(* SkipList: at every level a list passes through exactly those of its     *)
(* nodes whose tower reaches it, in the order of level 0.                  *)
Towers ==
  CASE part = "table" -> Table!TowersConsistent
    [] part = "pair" -> Pair!TowersConsistent
    [] part = "set" -> IntSet!TowersConsistent
    [] part = "big keys" -> BK!TowersConsistent
    [] part = "clearing" -> Clearing!TowersConsistent

(* SkipList: no node is in two lists, freed in a list, or leaked, unless   *)
(* by a copy into a list that exists.                                      *)
NoNodeLost ==
  /\ part = "pair" => Pair!NodesAccounted
  /\ part = "clearing" => Clearing!NodesAccounted

(* SkipList: lookup, belongs and keyInInterval against the items.          *)
Queries == part = "table" => Table!QueriesRight

(* SkipList and SkipListBK: every call is the call of an ordered multimap, *)
(* in what it changes and in what it returns.                              *)
Multimap ==
  /\ part = "table" => Table!Ordered!Init
  /\ part = "pair" => Pair!Ordered!Init
  /\ part = "big keys" => BK!Ordered!Init
  /\ [][/\ part = "table" => [Table!Ordered!Next]_(Table!Ordered!vars)
        /\ part = "pair" => [Pair!Ordered!Next]_(Pair!Ordered!vars)
        /\ part = "big keys" => [BK!Ordered!Next]_(BK!Ordered!vars)]_all

(* Set: every call is the call of a mathematical set.                      *)
ActsAsSet == [][part = "set" => IntSet!SetStepRight]_all

(* SkipListBK: each key of a node is allocated, in one node only, and not  *)
(* the program's any more.                                                 *)
KeysOnce ==
  /\ part = "big keys" => BK!KeysOwnedOnce
  /\ part = "clearing" => Clearing!KeysOwnedOnce

(* SkipListBK: every key allocated is in a list or with the program.       *)
NoKeyLeaks == part = "clearing" => Clearing!NoKeyLost
=============================================================================
