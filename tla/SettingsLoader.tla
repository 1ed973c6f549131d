--------------------------- MODULE SettingsLoader ---------------------------
(***************************************************************************)
(* What main does between the menu and the simulation: the file of the     *)
(* chosen simulation is read line by line (LoadSettingsFromFile), and the  *)
(* constructors make work-groups and a grid of the settings.               *)
(*                                                                         *)
(* A text is the sequence of its lines, and whether the last one ends with *)
(* a newline.  A line is a number, in thousandths, or none.                *)
(***************************************************************************)
EXTENDS Integers, Sequences

CONSTANTS
  MenuChoices,  \* the simulations of the menu
  Shipped,      \* Shipped[c]: the text of the file of choice c in Assets/Data
  Edited,       \* other texts a user may have made of it
  Invocations   \* SimulationGPU::invocations, 1024

Text == [lines : Seq([number : BOOLEAN, value : Int]), newline : BOOLEAN]

ASSUME SettingsAssumption ==
  /\ Shipped \in [MenuChoices -> Text] /\ Edited \subseteq Text
  /\ MenuChoices \subseteq {"CPU_BRUTE_FORCE", "CPU_OCTREE", "GPU_BRUTE_FORCE", "GPU_GRID"}

\* Faulty variant: the first two lines are read in the other order.
SettingSwapped ==
  <<"maxBound", "numAgents", "maxVelocity", "maxSteeringAngle", "alignmentRadius",
    "separationRadius", "cohesionRadius", "avoidanceRadius", "alignmentWeight",
    "separationWeight", "cohesionWeight", "avoidanceWeight", "modelScale">>

\* The settings in the order of their lines.
Setting ==
  <<"numAgents", "maxBound", "maxVelocity", "maxSteeringAngle", "alignmentRadius",
    "separationRadius", "cohesionRadius", "avoidanceRadius", "alignmentWeight",
    "separationWeight", "cohesionWeight", "avoidanceWeight", "modelScale">>

Default ==
  [s \in {Setting[i] : i \in DOMAIN Setting} |->
     CASE s = "numAgents" -> 2560
       [] s \in {"maxBound", "modelScale"} -> 50000
       [] s = "maxVelocity" -> 20000
       [] s = "maxSteeringAngle" -> 10000
       [] s = "alignmentRadius" -> 2800
       [] s = "separationRadius" -> 3200
       [] s = "cohesionRadius" -> 3500
       [] s = "avoidanceRadius" -> 22400
       [] s = "alignmentWeight" -> 270
       [] s = "separationWeight" -> 960
       [] s = "cohesionWeight" -> 250
       [] s = "avoidanceWeight" -> 1000]

Nothing == [number |-> FALSE, value |-> 0]  \* an empty line

VARIABLES
  choice,    \* selectedSimulation
  opens,     \* its file can be opened
  text,      \* what is in its file
  rest,      \* the lines the stream has not handed out
  eof,       \* eofbit of the stream
  data,      \* the local variable "data"
  settings,
  done,      \* how many settings have been read
  status     \* "opening", "reading", "loaded" or "terminated"

file == <<choice, opens, text>>
loaderVars == <<file, rest, eof, data, settings, done, status>>

LoaderInit ==
  /\ choice \in MenuChoices
  /\ opens \in BOOLEAN
  /\ text \in {Shipped[choice]} \cup Edited
  /\ rest = <<>> /\ eof = FALSE /\ data = Nothing
  /\ settings = Default
  /\ done = 0 /\ status = "opening"

\* Assets::ReadTextFile, and the stream over its result.
Open ==
  /\ status = "opening"
  /\ IF opens THEN status' = "reading" /\ rest' = text.lines
     ELSE status' = "loaded" /\ UNCHANGED rest
  /\ UNCHANGED <<file, eof, data, settings, done>>

\* Faulty variant: a stream at its end makes the string empty.
GetLineClears ==
  IF rest = <<>>
  THEN data' = Nothing /\ eof' = TRUE /\ UNCHANGED rest
  ELSE data' = Head(rest) /\ rest' = Tail(rest) /\ eof' = (Len(rest) = 1 /\ ~text.newline)

\* std::getline: at the end of the stream it fails and leaves the string alone;
\* only the attempt that finds the end itself makes it empty.
GetLine ==
  IF eof
  THEN UNCHANGED <<data, rest, eof>>
  ELSE IF rest = <<>>
  THEN data' = Nothing /\ eof' = TRUE /\ UNCHANGED rest
  ELSE data' = Head(rest) /\ rest' = Tail(rest) /\ eof' = (Len(rest) = 1 /\ ~text.newline)

\* stoi takes the whole part of the number of agents, stof the number.
Parsed(s, value) == IF s = "numAgents" THEN value \div 1000 ELSE value

\* One getline with its stoi or stof, whose exception nobody catches.
ReadSetting ==
  /\ status = "reading"
  /\ GetLine
  /\ IF data'.number
     THEN LET s == Setting[done + 1]
          IN  /\ settings' = [settings EXCEPT ![s] = Parsed(s, data'.value)]
              /\ done' = done + 1
              /\ status' = IF done' = Len(Setting) THEN "loaded" ELSE "reading"
     ELSE status' = "terminated" /\ UNCHANGED <<settings, done>>
  /\ UNCHANGED file

\* The simulation is constructed, or the program is gone.
Stop == status \in {"loaded", "terminated"} /\ UNCHANGED loaderVars

LoaderNext == Open \/ ReadSetting \/ Stop

LoaderSpec == LoaderInit /\ [][LoaderNext]_loaderVars

-----------------------------------------------------------------------------
(* What the constructors make of the settings.                              *)

\* Flock::maxRadius: the radius of avoidance is not among them.
MaxRadius ==
  LET larger(a, b) == IF a > b THEN a ELSE b
  IN  larger(settings.alignmentRadius, larger(settings.separationRadius, settings.cohesionRadius))

Grid(bound, radius) ==
  INSTANCE GridCells WITH MaxBound <- bound, MaxRadius <- radius, Unit <- 1000

WorkGroups == settings.numAgents \div Invocations

UsesGPU == choice \in {"GPU_BRUTE_FORCE", "GPU_GRID"}

-----------------------------------------------------------------------------
(* Properties.                                                              *)

\* The line that setting i gets to see: those missing at the end of the file are
\* its last line again, or empty ones if that ended with a newline.
LineFor(i) ==
  IF i <= Len(text.lines) THEN text.lines[i]
  ELSE IF text.newline \/ text.lines = <<>> THEN Nothing ELSE text.lines[Len(text.lines)]

\* The loop-free reading of SettingsLoader.cpp:24-67: either the file is missing and
\* all settings are the defaults, or each is the number of its line (of the last
\* line, when there are fewer), or the program ends at the first that is none.  No
\* simulation begins with a part of the defaults.
SettingsAsWritten ==
  /\ status = "loaded" /\ ~opens => settings = Default
  /\ status = "loaded" /\ opens =>
       \A i \in DOMAIN Setting :
         LineFor(i).number /\ settings[Setting[i]] = Parsed(Setting[i], LineFor(i).value)
  /\ status = "terminated" => ~LineFor(done + 1).number

\* The shipped files give what the models of the other components assume: full
\* work-groups, a power of two of them (SortAssumption, FrameAssumption), a whole
\* bound with three cells per axis and more (GridAssumption), and weights within
\* the limits that the keys keep (Simulation.cpp:59-84).
PresetsMeetAssumptions ==
  status = "loaded" /\ opens /\ text = Shipped[choice] =>
    /\ UsesGPU => /\ settings.numAgents % Invocations = 0
                  /\ \E k \in 0 .. 20 : WorkGroups = 2^k
    /\ settings.maxBound % 1000 = 0
    /\ Grid(settings.maxBound, MaxRadius)!CellsPerAxis >= 3
    /\ \A s \in {"alignmentWeight", "separationWeight", "cohesionWeight"} :
         settings[s] \in 0 .. 1000
=============================================================================
