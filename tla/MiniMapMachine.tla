--------------------------- MODULE MiniMapMachine ---------------------------
(***************************************************************************)
(* One map and every call of its interface, in any order.                  *)
(***************************************************************************)
EXTENDS MiniMap

CONSTANTS Key, Value,
          MapCounts  \* the arguments given to make

ASSUME MapAssumption == MapCounts \subseteq Nat /\ Garbage \notin Key \cup Value

VARIABLES map,
          map_result  \* the Boolean the last call returned, and the value of a get

mapVars == <<map, map_result>>

MapInit == map = Map_destroyed /\ map_result = <<>>

Made == IsMade(map.keys)

MapMakeCall(n) == ~Made /\ map' = Map_make(n) /\ map_result' = <<>>

MapDestroyCall == Made /\ map' = Map_destroyed /\ map_result' = <<>>

MapReplaceCall(k, v) == /\ Made
                        /\ map' = Map_replace(map, k, v)
                        /\ map_result' = <<Present(map, k)>>

MapGetCall(k) ==
  /\ Made
  /\ map_result' = IF Present(map, k) THEN <<TRUE, Map_get(map, k)>> ELSE <<FALSE>>
  /\ UNCHANGED map

MapSetCall(k, v) == Made /\ map' = Map_set(map, k, v) /\ map_result' = <<>>

MapRemoveCall(k) == /\ Made
                    /\ map' = Map_remove(map, k)
                    /\ map_result' = <<Present(map, k)>>

MapNext == \/ \E n \in MapCounts : MapMakeCall(n)
           \/ MapDestroyCall
           \/ \E k \in Key : MapGetCall(k) \/ MapRemoveCall(k)
           \/ \E k \in Key, v \in Value : MapReplaceCall(k, v) \/ MapSetCall(k, v)

MapSpec == MapInit /\ [][MapNext]_mapVars

-----------------------------------------------------------------------------
\* Type invariant: the two vectors stay parallel, and no key is stored twice although
\* nothing in the vectors prevents it.
MapTypeOK == /\ map = Map_destroyed \/ MapShape(map, Key, Value)
             /\ map_result \in {<<>>} \cup {<<b>> : b \in BOOLEAN}
                               \cup {<<TRUE, v>> : v \in Value}

\* Through any calls, growing and removing in the middle, each key has the value that
\* was set last, and the calls return what was there.
AbstractMap == INSTANCE Dictionary WITH dict <- AsFunction(map), out <- map_result

IsDictionary == AbstractMap!Spec
=============================================================================
