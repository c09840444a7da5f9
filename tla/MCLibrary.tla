------------------------------ MODULE MCLibrary ------------------------------
(* The components that keep a state of their own and call no other: one of  *)
(* them is used, alone, in each behaviour.                                  *)
EXTENDS RingBufferMachine, MiniVectorMachine, MiniMapMachine, OutboundMessage, Utilities, TLC

VARIABLE used

libraryVars == <<vars, vecVars, mapVars, responseVars, utilityVars, used>>

LibraryInit ==
  /\ used \in {"ring buffer", "vector", "map", "response", "num_to_string", "compress_gz"}
  /\ Init /\ VectorInit /\ MapInit /\ ResponseInit /\ UtilitiesInit

RingBufferUsed == /\ used = "ring buffer" /\ Next
                  /\ UNCHANGED <<vecVars, mapVars, responseVars, utilityVars, used>>

VectorUsed == /\ used = "vector" /\ VectorNext
              /\ UNCHANGED <<vars, mapVars, responseVars, utilityVars, used>>

MapUsed == /\ used = "map" /\ MapNext
           /\ UNCHANGED <<vars, vecVars, responseVars, utilityVars, used>>

ResponseUsed == /\ used = "response" /\ ResponseNext
                /\ UNCHANGED <<vars, vecVars, mapVars, utilityVars, used>>

NumToStringUsed == /\ used = "num_to_string" /\ \E n \in Numbers : num_to_string(n)
                   /\ UNCHANGED <<vars, vecVars, mapVars, responseVars, used>>

CompressGzUsed == /\ used = "compress_gz" /\ CompressNext
                  /\ UNCHANGED <<vars, vecVars, mapVars, responseVars, used>>

LibraryNext == \/ RingBufferUsed \/ VectorUsed \/ MapUsed \/ ResponseUsed
               \/ NumToStringUsed \/ CompressGzUsed

\* The caller of compress_gz is scheduled.
LibrarySpec ==
  LibraryInit /\ [][LibraryNext]_libraryVars /\ WF_libraryVars(CompressGzUsed /\ Deflate)

\* Type invariant of the containers: well shaped arrays, in which every stored cell was
\* written.
LibraryTypeOK == TypeOK /\ VectorTypeOK /\ MapTypeOK

\* make(0) allocates the default of 10 cells, more than the bounds let grow; 1 and 3 grow.
MCInitialCounts == {0, 1, 3}

\* The map grows within the number of keys when it is made with one cell.
MCMapCounts == {0, 1}

CONSTANTS date, server

\* Names of different lengths tell the options apart.
MCOption == {date, server}

MCNameLen == [option \in MCOption |-> IF option = date THEN 1 ELSE 2]

\* A code with a phrase, and 0, which resolve_request leaves in the response.
MCPhraseLen == 200 :> 2

MCStatusCodes == {0, 200}

\* On both sides of every threshold of get_num_digits, and the longest with 20 digits, what
\* a size_t has at most.
MCNumbers == {0, 1, 2, 3, 4, 15, 16, 255, 256, 65535, 65536, 2^20 - 1}
=============================================================================
