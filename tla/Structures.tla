------------------------------ MODULE Structures ------------------------------
(***************************************************************************)
(* The data structures the library and the shell stand on: the receive     *)
(* ring, the glue list, the serialisation buffer and the strings.  They    *)
(* share nothing: a step is one of a structure and leaves the others alone.*)
(***************************************************************************)
EXTENDS ByteCircularBuffer, Integers, FiniteSets

CONSTANTS
  Node, Key,                                                       \* GlueThread
  Value, ScalarSize, RealSize, StringSize, InitSize, Unwritten, MaxPiece, Limit,  \* SerBuffer
  Char, Blank, Tab, NL, Digit, LineText, Subject, Page, Report, Sub, New, Pattern,
  MAX_CMD_TREE_DEPTH, LEAF_VALUE_HOLDER_SIZE, MaxCalls             \* StringUtil

\* There is an end to the nodes, which are neither the head nor a null pointer.
ASSUME NodeAssumption == /\ IsFiniteSet(Node) /\ {"head", "NULL"} \cap Node = {}
                         /\ Key \in [Node -> Int]

\* No buffer is created without memory.
ASSUME PieceAssumption == /\ MaxPiece \in Nat /\ Limit \in Nat
                          /\ ScalarSize \cup RealSize \cup StringSize \subseteq 0..MaxPiece
                          /\ InitSize \subseteq Nat \ {0}

\* What the string functions work on is text, and something is looked for.
ASSUME TextAssumption == /\ LineText \cup Page \cup Report \cup Subject \cup New \subseteq Seq(Char)
                         /\ Sub \subseteq Seq(Char) \ {<<>>}
                         /\ NL \in Char
                         /\ {MAX_CMD_TREE_DEPTH, LEAF_VALUE_HOLDER_SIZE} \subseteq Nat

VARIABLES
  left, right, visited,                                            \* GlueThread
  b, size, next, checkpoint, state, got,                           \* SerBuffer
  tokens, call, result, broken, calls                              \* StringUtil

glue == <<left, right, visited>>
ser == <<b, size, next, checkpoint, state, got>>
str == <<tokens, call, result, broken, calls>>

Glue == INSTANCE GlueThread WITH got <- visited
Ser == INSTANCE SerBuffer WITH Blank <- Unwritten
Str == INSTANCE StringUtil

RingStep == Next /\ UNCHANGED <<glue, ser, str>>
ListStep == Glue!Next /\ UNCHANGED <<vars, ser, str>>
BufferStep == Ser!Next /\ UNCHANGED <<vars, glue, str>>
StringStep == Str!Next /\ UNCHANGED <<vars, glue, ser>>

StructuresInit == Init /\ Glue!Init /\ Ser!Init /\ Str!Init

StructuresNext == RingStep \/ ListStep \/ BufferStep \/ StringStep

StructuresSpec == StructuresInit /\ [][StructuresNext]_<<vars, glue, ser, str>>

-----------------------------------------------------------------------------
\* The links of the glue list are a list (GlueThread!ListSpec).
ListSpec == Glue!ListSpec

\* The serialisation buffer is one tape (SerBuffer!BufferSpec).
BufferSpec == Ser!BufferSpec

\* The tokens of a line are its words (StringUtil!TokensAreWords).
TokensAreWords == Str!TokensAreWords

\* The other string functions do what they are for (StringUtil!TextAgrees).
TextAgrees == Str!TextAgrees
=============================================================================
