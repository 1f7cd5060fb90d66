----------------------------- MODULE MCRoundTrip -----------------------------
(***************************************************************************)
(* Files with numbers that need one byte or several, of both signs; units, *)
(* sizes and floats of the code's proportions; durations of all units.     *)
(***************************************************************************)
EXTENDS RoundTrip

File(id, start, end, size, num_rows) ==
    [id |-> id, max_sequence |-> id, start |-> start, end |-> end, size |-> size,
     num_rows |-> num_rows]

MCFiles == { File(1, -86400001, -1, 255, 1), File(256, -1, 0, 256, 255),
             File(65535, 0, 65536, 65537, 256), File(16777217, 2147483646, 2147483647, 0, 3) }

Part(halves, unit) == [halves |-> halves, unit |-> unit]

MCParts == {Part(n, unit) : n \in {-1, 0, 1, 2, 47, 118, 120}, unit \in {HOUR, MINUTE, SECOND, MS}}
             \cup {Part(n, unit) : n \in {1997, 1998, 2000}, unit \in {MINUTE, SECOND, MS}}
             \cup {Part(n, DAY) : n \in {1, 2}}

MCTexts == UNION {[1..k -> MCParts] : k \in 0..2}
             \cup {<<Part(2, DAY), Part(46, HOUR), Part(118, MINUTE), p, Part(1998, MS)>> :
                      p \in MCParts}
=============================================================================
