------------------------- MODULE MCSettingsLoader -------------------------
(***************************************************************************)
(* SettingsLoader on the shipped files, and on what is left of the last of *)
(* them when it is cut, ends with a newline or has a line that is no       *)
(* number.                                                                 *)
(***************************************************************************)
EXTENDS SettingsLoader

Numbers(s) == [i \in DOMAIN s |-> [number |-> TRUE, value |-> s[i]]]
TextOf(s, newline) == [lines |-> Numbers(s), newline |-> newline]

CPU_BRUTE_FORCE ==
  <<2048000, 50000, 20000, 7500, 2800, 3200, 3500, 22400,
    400, 960, 400, 1000, 50000>>
CPU_OCTREE ==
  <<8192000, 50000, 20000, 10000, 2800, 3200, 3500, 22400,
    480, 960, 500, 1000, 50000>>
GPU_BRUTE_FORCE ==
  <<32768000, 50000, 15000, 7500, 2800, 3200, 3500, 22400,
    400, 800, 500, 1000, 35000>>
GPU_GRID ==
  <<1048576000, 50000, 7500, 7500, 1000, 1360, 1550, 22800,
    400, 600, 300, 1000, 10000>>

Presets ==
  [c \in {"CPU_BRUTE_FORCE", "CPU_OCTREE", "GPU_BRUTE_FORCE", "GPU_GRID"} |->
     TextOf(CASE c = "CPU_BRUTE_FORCE" -> CPU_BRUTE_FORCE
            [] c = "CPU_OCTREE" -> CPU_OCTREE
            [] c = "GPU_BRUTE_FORCE" -> GPU_BRUTE_FORCE
            [] c = "GPU_GRID" -> GPU_GRID, FALSE)]

Cut == {TextOf(SubSeq(GPU_GRID, 1, n), newline) : n \in 0 .. 13, newline \in BOOLEAN}
Spoilt == {[t EXCEPT !.lines[3] = Nothing] : t \in {u \in Cut : Len(u.lines) > 2}}
CutOrSpoilt == Cut \cup Spoilt
AllChoices == DOMAIN Presets
=============================================================================
