# Verification of the flocking simulations

TLA+ models of *FlockingTechniques-CPU-GPU-Implementations*: a Windows program
that flies a flock of agents, each by separation, alignment and cohesion, in
four ways: on the CPU by brute force or with an octree, and on the GPU by brute
force or with a uniform grid kept by a bitonic sort in compute shaders. TLC
checks the models on small instances (`*.cfg`), TLAPS proves the most important
properties for all instances (`*Proofs.tla`). `PROJECT.json` holds the same in
a form for tools: components, runs, what each definition translates, hazards.

- [1. The system](#1-the-system)
- [2. Modules and how they correspond to the code](#2-modules-and-how-they-correspond-to-the-code)
- [3. What the runs check](#3-what-the-runs-check)
- [4. What is proved](#4-what-is-proved)
- [5. Where the code and its docs disagree](#5-where-the-code-and-its-docs-disagree)
- [6. What is not modelled](#6-what-is-not-modelled)
- [7. Plan](#7-plan)

## 1. The system

First-party code is in `src/Flocking` (the program), `src/Assets/Shaders` (the
kernels) and `src/Common` (window, input, timer, camera, maths and files; a
university framework). `src/Plugins/FreeImage` and `src/Common/stb` are vendored.
The OpenGL plug-in that the code includes (`OGLRenderer`, `OGLComputeShader`) is
not in the repository. There are no tests and no README.

| Component | State | Operations | Talks to |
|---|---|---|---|
| `Main.cpp` | the chosen simulation | menu loop, main loop | window; creates one simulation |
| `Window`, `Win32Window` | active, mouseLeftWindow, forceQuit, size, maximised, lockMouse, showMouse | `UpdateWindow`, message pump | wakes and puts to sleep mouse and keyboard; tells the renderer its size; confines the pointer |
| `Keyboard`, `Mouse` | states and hold states, double clicks, movement, isAwake | `UpdateRAW`, `UpdateFrameState`, `Sleep`, `Wake` | called by the window, read by everybody |
| `SimulationGPU` | useGrid, agent and index buffer, uniforms | `Update`: keys, a kernel, in grid mode sort and index pass | dispatches the shaders, waits with `glMemoryBarrier` |
| `FlockGrid.glsl`, `FlockBruteForce.glsl` | agents in the buffer | one invocation per agent reads its neighbours, moves and renumbers its own | read the index left by the frame before |
| `FlockSort.glsl`, `GridIndex.glsl` | agents, shared memory, indices | one pass of the bitonic sort; one index pass | run after the grid kernel |
| `SimulationCPU` | agents, useOctree | `Update`: builds an octree, updates agents one by one in place | `Octree` |
| `Octree`, `AABB` | nodes | `Insert`, `Split`, `GetNeighbours` | built anew in each frame |
| `SettingsLoader` | none | `LoadSettingsFromFile` | called by `main` for the chosen simulation |
| `Simulation`, `Flock` | settings, weights, paused, statistics | `InitFlock`, `UpdateKeys` | base of both simulations |
| `Debug` | lines and strings to draw | `DrawLine`, `FlushRenderables` | renderer |
| `Camera` | yaw, pitch, position | `UpdateCamera` | reads mouse and keyboard |
| `FlockingRenderer`, meshes, fonts, textures | buffers, toggles | draw | OpenGL |

What is hard in it, and what has to hold:

- **Thousands of invocations on one buffer without locks.** No two may touch a
  slot in the same pass, no agent may be lost or doubled, and after the last of
  about two hundred dispatches the agents must be in order of their cells.
- **Three structures that must agree.** Positions, the cell stored with each
  agent, the order of the slots and the index are written by three kernels and
  read by the next frame. Pauses, changes of mode and the first frame leave them
  stale. Every agent near another must be read exactly once.
- **A tree that ages while it is used.** The CPU moves agents in place while it
  asks a tree built before. Agents on faces are in several nodes.
- **Messages in no common order.** Raw input arrives in the background, activation
  is sent, pointer messages are posted. No key may stick, none may be recorded while
  the window is inactive, and the program must never become deaf.
- **A renderer and a pointer that follow the window**, whatever Windows does with its
  size, its place and whose turn it is.
- **Loops that must end** when the window is closed, and toggles that must change
  no more than once per press.

There is one thread on the host, nothing is persisted and no message is lost, so
the project has no crash recovery and no retries of its own. `PROJECT.json` lists
each hazard at its line with the properties that cover it.

## 2. Modules and how they correspond to the code

```
SortSpec <--implements-- FlockSort        IndexSpec <--used by-- GridIndex
    \                                        /
     \------> SimulationGPU <---------------/      Octree <-- SimulationCPU
                  |extends
              GridCells                            DebugSpec <--implements-- DebugLines
                  ^
                  |instantiates
            SettingsLoader                         Camera --extends--> MouseInput

Program --extends--> WindowInput                   WindowSize

proofs, each extending its modules:
  FlockSortProofs --> FlockSort                   ProgramProofs --> Program, WindowInput,
  GridIndexProofs --> GridIndex                                     SettingsLoader
  SimulationGPUProofs --> SimulationGPU,          WindowSizeProofs --> WindowSize
                          GridCells               CameraProofs --> Camera, MouseInput
  SimulationCPUProofs --> SimulationCPU, Octree   DebugLinesProofs --> DebugLines
```

**FlockSort** models `SimulationGPU::BitonicSort` and `FlockSort.glsl`. Each
invocation has a program counter; its steps are one exchange in the agent buffer,
or load, exchange and barrier per stride, and store in shared memory. The host's
two nested `do` loops are `Dispatch` and `CompletePass`; `glMemoryBarrier` is that
the next pass is not dispatched before all invocations are done. The code counts the
passes of a merge in `iteration` and halves `segmentSize` as often; the model keeps
the result in `block`. An exchange is
one step of the model because `RaceFree` shows that nobody else touches its two
places. The number of agents need not fill the dispatched work-groups: those behind
are the ones that the default settings leave without an invocation. **SortSpec** is
what the rest of the frame relies on: in one step, the same agents, the dispatched
ones in the order of their cells and the others where they were.

**GridIndex** models `GridIndex.glsl` on a buffer sorted already, one step per
entry written. The buffer of `InitGrid` has one entry fewer than the shader
writes (SimulationGPU.cpp:144). What happens to the entry behind the end depends
on the driver's rounding of the allocation, hence the variable `backed`, which is
chosen at the start and kept. **IndexSpec** says what the index means to a reader.

**GridCells** has the geometry: `cellsPerAxis` with the cast that binds to
`maxBound` alone, `gridIndex`, the cells given by `InitFlock` (half the scale), the
27 visited cells, and the wrap. Lengths are whole numbers.

**Where agents start** (`StartSpace` of both simulations): `InitFlock` divides `rand()`
by `RAND_MAX / 2`, an integer division. With the `RAND_MAX` of 32767 of the compiler that
the project files name, a coordinate goes up to 1.00006 times `maxBound`. `Overshoot` is
what that is beyond the bound, less than any radius; an agent is in space after its first
move, which wraps it.

**SimulationGPU** composes them into frames: `Input` (SPACE, P and the mouse),
the dispatch of one of the two kernels with `CastAvoidanceRay`, its invocations one
by one in any order, then the sort as the step of `SortSpec` and the index pass as
the result `GridIndexProofs` proves. An invocation is one step. Those of the code
overlap, and read neighbours while they are written, a data race: but each writes its
own agent only, nobody moves slots or indices meanwhile, and the velocity it computes
from what it has read is anyway left open, so the displacement of a frame is any of
`Steps`. What is modelled of the reading is which agents an invocation meets in the cells
that it visits, and how often (`Reads`). Its own agent is one of them: `traverseCell` does
not leave it out (FlockGrid.glsl:147-148), though `main` has counted it before (159-162).

**Octree** and **SimulationCPU** model the CPU side. A node is named by the way to it from
the root; `OctreeNode::Insert` calls itself for the children of a node, so that the calls
still to be made are a stack (`calls`) and one step is one call: it ends outside of the box,
hands the agent on to the children, or puts it in a leaf, which may split and hand on all it
has. The order is that of the code, depth first. The code clears the contents of a node that
splits after its agents have been handed on, the model before; no call in between comes back
to that node. `GetNeighbours` changes nothing and is an operator. `PerformFlock` has one
step per insertion begun, per call of it and per updated agent. `WrapBounds` returns a
reference to a local variable; the model takes the value that was there, as the one compiler
the project files name does. Other outcomes of this undefined behaviour are not covered.
`Octree::Insert` drops an agent that is outside of the root; `LeftOut` names the agents this
happens to, those that start above the bound, until a frame that is not paused is over
(`flown`).

**WindowInput** models one `UpdateWindow` after the other: `BeginUpdate`
(`UpdateFrameState`), one step per message, `EndUpdate`, against a user who does
anything at any time. Raw input, activation and pointer messages are three queues,
each in order, with no order between them: more than Windows does, so that nothing
rests on an order that the code does not enforce. Mouse and keyboard sleep and
wake together in all callers, one flag stands for both. **Program** puts the menu
and the main loop of `Main.cpp` on top.

**WindowSize** models the other half of `Win32Window`: what it does when Windows sizes,
moves, maximises, minimises, activates or closes the window. One action is one change
of the window with the handler of the messages it sends; `LockMouseToWindow`,
`ShowOSPointer` and the `applyResize` at the end of `WindowProc` are operators. It has
no keys and `WindowInput` has no sizes: the two halves share only `active` and
`forceQuit`, which both have.

**MouseInput** models `Mouse`: its packets, double clicks and movements. **Camera** puts
updates of the menu and of a simulation around it, and turns `yaw` or `pitch` by what
the mouse has gathered. `heading` follows the movement of all packets, whatever the mouse
makes of it, and `lost` the part that packets with absolute positions replace; the two
together are where the yaw has to be.

**SettingsLoader** models what `main` does between menu and simulation: a file that may be
missing, cut or spoilt, the stream that `getline` leaves in its states, and the first number
that is none. Its `LoaderInit`, `LoaderNext` and `LoaderSpec` have names of their own, as
`ProgramProofs` extends both parts of `main`. It instantiates `GridCells` with what it has
read to ask whether the constructors get what they need.

**DebugLines** models the loop of `FlushRenderables` that compacts the vector it is
walking through; **DebugSpec** is a frame that draws all lines and drops those
that have run out.

Definitions that begin with a comment "Faulty variant" are not part of a model.
They are mutations of the definition after them, and each shows that a property
notices such a mistake in the code.

## 3. What the runs check

| Run | Config | Shows |
|---|---|---|
| `flock_sort` | `FlockSort.cfg` | `RaceFree`: no slot of the buffer or of shared memory is touched by two invocations at once. `InBuffer`: none reaches beyond the agents. `NoAgentLost`: at every moment each agent is somewhere. `AlternatingRuns`: the loop invariant of the bitonic sort. `ImplementsSort`: refinement of SortSpec, termination included |
| `grid_index` | `GridIndex.cfg` | no two writers of an entry, settled entries delimit, and the finished index is exact |
| `gpu_frames` | `SimulationGPU.cfg` | one grid frame repairs whatever was stale (`FreshAfterGridKernel`); from then on, in every order of the invocations, each other near agent is read exactly once and no other agent twice (`NearAgentsReadOnce`); every agent is in space from its first invocation on (`TypeOK`) |
| `cpu_frames` | `SimulationCPU.cfg` | the tree is exact and of canonical shape after every insertion, holds all agents but those that started above the bound and have not flown yet (`EveryAgentInTree`); a query up to and including the radius misses only these and agents that have moved since (`OnlyMovedMissed`), finds an agent twice only on a face; everybody is moved once |
| `window_input` | `WindowInput.cfg` | no stuck key, nothing recorded while inactive or asleep (`DeafWhenUnused`), awake whenever it is used, at most one press per hold |
| `program` | `Program.cfg` | a running simulation ends once its window is closed or a frame sees ESCAPE down; the pause changes at most once per hold of its key |
| `window_size` | `WindowSize.cfg` | renderer and mouse have the size of the window (`RendererFollows`), the pointer is confined to it while it is used, free while it is not, and free and visible for good after quitting; each with the exceptions the code has, named by the variables `snapped`, `displaced` and `resizedAway` |
| `camera` | `Camera.cfg` | pressed in exactly the update a button went down in, double clicks in time; the camera looks where the packets have turned it, up to movement that an absolute position has replaced (`YawTracks`), and a yaw outside of its circle comes back a turn per frame |
| `debug_lines` | `DebugLines.cfg` | the loop that compacts refines DebugSpec: each line is drawn once per frame and dropped when it has run out |
| `settings` | `SettingsLoader.cfg` | a simulation gets the numbers of the lines or all defaults, never a mixture, or none at all; the shipped files meet the assumptions of sort and grid |

Two more runs end in a violation: section 5.

**Bounds, and why they are enough.**

- Sort: 8 agents in work-groups of two or of one, 5 in work-groups of one, of which
  the last agent is not dispatched. With two invocations per group
  the last merge has a pass in the buffer and then strides in shared memory; with
  one it has two passes in the buffer in a row. Every kind of pass and change from
  one to the other occurs. The safety properties are proved for all sizes; the run
  shows that the loop ends. The comparisons do not depend on the data otherwise than
  by their outcome, so that two values of cells suffice (the 0-1 principle); all
  inputs are initial states.
- Index: four agents and four cells give every position of empty and of shared
  cells; the theorems hold for all numbers.
- GPU frames: 4 cells per axis, the last one partial as with the presets (bound 50,
  largest radius 1.55). Three would make all cells neighbours. Starting places
  include the last cell and one above the bound.
- CPU frames: two levels and one agent per leaf, so that a split may cause a split;
  positions on the faces of both levels, on the corner of the bound and above the bound,
  and exactly a radius apart; two frames, as a frame leaves only positions to the next. The theorems hold for all numbers
  of agents, depths, sizes, positions and displacements.
- Window: one key, since no code relates two keys, and `MaxPosts` messages caused
  during an update: three allow a press, a release and a press, or a change
  of window between them. `Program` needs no more than two.
- Window size: two places and three sizes, so that every rectangle can differ in either
  or both; the state space is finite without bounds on the number of steps.
- Mouse and camera: one button, and one axis that is x or y; all are treated alike. A turn
  of 4 that the packets of one update can exceed; frames shorter and longer than the limit of
  a double click, in whose units time passes; `MaxYaw` cuts off the yaws that faster
  movement for several frames would reach.
- Settings: all cuts of the longest preset, with and without a newline at its end, and
  a bad third line in each; no other line is read differently.
- Lines: three, so that two may run out in the same frame with one behind or between.

**Fairness.** `FlockSort` assumes weak fairness of `Next`: an invocation that has
been dispatched is run to its end by the GPU, and the host waits for it. `Program`
assumes weak fairness of the program's own steps, since one thread runs the loop
without waiting. Nothing is assumed of the user. An update ends because the user
causes at most `MaxPosts` messages during one; without that bound the pump of
`InternalUpdate` need not return. Deadlock is checked in all runs; `Stop` and
`Ended` are the states in which the model has reached its bound or the program its
end.

## 4. What is proved

TLAPS proves the following for every value of the constants that satisfies the named
assumptions. Each specification has an inductive invariant, made of the named parts
given here; the properties themselves are seldom inductive.

**The sort: what every pass keeps** (`FlockSortProofs`, from `SortAssumption`):
`SortTypes`, `SortRaceFree`, `SortStaysInBuffer`, `SortLosesNoAgent`. Race freedom is
arithmetic on distances that are powers of two, so they must stay such (`HostInv`), and the
invocations of a work-group must be in the same round: `GroupInv` says, for each two
program counters, which others the barriers admit and with which distance. `ThreadInv` keeps
the invocations of far and near passes apart. Losing no agent is stated for
the slots with shared memory laid over them (`ContentInv`): in an exchange and a
store the same agents are seen before and after.

**The sort: that it sorts** (`FlockSortProofs`): `SortKeepsRuns`, `SortSorts` and
`SortImplements`, for every number of agents, work-groups and cells that `SortAssumption`
admits, and every interleaving. The proof needs no 0-1 principle. It negates the cells of
segments that are sorted downwards (`Key`), so that every exchange puts the smaller key
lower, and follows each invocation by the distance of the next exchange it will make
(`Remaining`). The invocations that exchange at the same distance in the same block are a
*run*. `MergeInv` says of each run at work that a pair which has exchanged is in order, that
no smaller key of a pair is above a larger one of any other, and that the smaller and the
larger keys are each bitonic: no four of them go up and down alternately. This does not
depend on who has exchanged yet, and holds when a run begins by Batcher's lemma about the
half-cleaner. Two places of a segment outside of one block at work are in order already
(`Settled`), so that the whole segment is when no run is at work any more; two ordered
segments of opposite direction are the next bitonic block. Refinement of `SortSpec` follows
step by step: only the last step of the host changes what the abstract specification sees
(`SortImplements`). `SortImplementsIfItEnds` adds its liveness under the hypothesis that the
loop ends, which TLC checks.

**The index** (`GridIndexProofs`, from `IndexAssumption`): `TypeCorrect`,
`WritesDisjoint`, `SettledAlways` and `IndexIsExact`. Each entry has one *owner*, the
invocation whose agent is the first beyond the cells before it or, behind the last agent,
the last invocation. `IInv` says that the agents stay in order, that the loop
variables stay in the owner's part (`LoopBounds`), and that an owned entry that
is no longer pending has its value (`Wrote`). Owners are disjoint and cover
all entries, which gives the theorems.

**The grid** (`SimulationGPUProofs`, from `GridAssumption`: at least three cells per axis):
`NearCellVisitedOnce`, exactly one of the 27 visited cells is the cell of an agent that is
closer than the largest radius. The lemmas are about the division that numbers cells, the
digits of a cell number, and the wrapped neighbours.

**The frames** (`SimulationGPUProofs`, from `FrameAssumption` and `GridAssumption`):
`FrameTypes`, `BuffersAgree` and `NearReadOnceAlways`. Agents may start above the bound, by
less than a radius (`Overshoot`): the cells that `InitFlock` gives are in the grid for these
as well, and a grid frame that follows another one finds everybody in space. `FrameInv` has to say what holds while a kernel is half done and
cells are those of old and new positions mixed: there is one assignment of cells, that of
the frame before, for which the index was built, and who has not flown yet still has its
cell of it (`InFlight`); the same for sort and index pass (`BeingSorted`). Together with
`NearCellVisitedOnce` it gives that near agents are read once.

**The octree and the CPU frames** (`SimulationCPUProofs`, from `OctreeAssumption` and
`CPUAssumption`): `TheoremLeavesExact`, `TheoremSplitIffFull`, `TheoremEveryAgentInTree`,
`TheoremOnlyMovedMissed`, `TheoremFoundTwiceOnlyOnFaces` and `TheoremEachMovedOnce`. The
properties speak of the tree between two insertions, and while one is under way they are
false: an agent is missing in some leaves, and a leaf that has split has given all of its
own away. `CPUInv` says what is true at every call. An agent that belongs in a leaf is in it
or has a call waiting for a node on the way to it (`Promised`); a waiting call is for leaves
that do not have its agent yet, and it is the only one of its agent on the way to them
(`Once`): with `Promised` alone an agent might be entered twice. Boxes are nested and halve
from depth to depth (`Nested`), every agent in the bound is in some leaf, seen from anywhere (`Covered`), two leaves
meet in the middle plane of an inner node at most (`Separated`). When no call waits,
`Promised` is that leaves are exact. `Separated` gives that an agent found twice is on a
face; `Nested`, with the distance of two points bounding that on each axis, gives that a
query reaches the leaf of every near agent. At a distance of exactly the radius the box of a
query only touches the agent, which may lie on the faces of several leaves; one of them
extends towards the asking agent (`Toward`), and that one the box overlaps. Who is left out follows from `Overshoot` alone: a place above the bound is in
no box, and after the first frame nobody is there. That halving never leaves the lattice is part of
`OctreeAssumption`; with `float` it is exact as well.

**Keyboard and window** (`ProgramProofs`, from `InputAssumption`): `KeysNeverStick`,
`DeafAlways`, `OnePressAlways`, `NeverDeafWhenUsed` and `InputTypes`. `NoStuckKey` needs two
facts more: a release that is dropped while the window is inactive or asleep does no harm as
nothing is recorded then (`DeafWhenUnused`), and a press still in the queue has its release
behind it (`ReleaseFollows`). At most one press per hold needs that a key already seen is
remembered when messages are read (`HoldInv`). `AwakeWhenUsed` speaks of empty queues; its
invariant says what the messages in them will do (`ActivationFollows`, `MoveFollows`) and
that an active window under the pointer is awake (`AwakeInside`).

**Menu and main loop** (`ProgramProofs`, from `ProgramAssumption`): `ProgramUsesWindow`,
every behaviour of the program is one of the window below it, so that all of the above holds
in the program; and the action property `TogglesOncePerHold`. The pause is read off the keys
of a frame, and `PausedOncePerHold` off what the user has done: `PressIsNew` relates the
two, a key that counts as pressed in a frame has gone down in its update and is in its first
press.

**Settings** (`ProgramProofs`, from `SettingsAssumption`): `SettingsAlwaysAsWritten`, for
files of every length and content. `StreamInv` says how many lines the stream still has and
that, once the end has been found without a newline, the string holds the last line: from
then on every `getline` fails and every setting gets that line again. `ReadSoFar` says that
earlier settings are not overwritten, which needs that no setting is named twice.

**Lines of Debug** (`DebugLinesProofs`, from `DebugAssumption`): `LinesInvAlways` and
`LinesImplement`, the refinement of `DebugSpec`. In the loop the vector has three parts
(`FlushInv`): before `i` the lines that stay, aged; from `i` on those not treated, as they
were when the flush began; and `trim` places to be cut off. Each line of the beginning is in
the first two parts once, or has run out; it has been drawn once unless it is in the second.
At the end the second is empty, so that the last step is the abstract `DrawFrame`, and all
steps before it are hidden.

**Size and pointer** (`WindowSizeProofs`, from `WindowAssumption`):
`RendererFollowsAlways`, `PointerConfinedAlways`, `PointerFreeElsewhereAlways`,
`QuitReleases`. What they need besides each other: the size that the program keeps is that of
the rectangle, Windows shows the window maximised only while the program remembers it, the
counter of `ShowCursor` is a function of `showMouse` (`CountExact`), and nothing locks the
mouse again after quitting (`QuitIsFinal`).

**Mouse and camera** (`CameraProofs`, from `MouseAssumption` and `CameraAssumption`):
`PressedOnTime`, `DoubleClicksInTime`, `CameraLooksWhereTurned`, the action property
`YawReturns`, and `CameraTypes`. Buttons need that what is held from the update before is
still down and that nothing is down while the mouse sleeps; double clicks the meaning of
the countdown, what is left of the limit since the last press (`Countdown`); the yaw that,
while messages are read, it is behind by the movement gathered, which is what the packets of
the update moved less what an absolute one of them dropped (`YawInv`).

The assumptions are those of the modules. Two are on bounds that only the models have:
`MaxYaw` is at least a turn, and `MaxPosts` and `MaxPackets` are positive; they may be
arbitrarily large.

**Only model-checked:**

- Liveness: that the sort ends (part of `ImplementsSort`; `SortImplementsIfItEnds` is the rest),
  and `SimulationEnds`. It is out of the prover's reach.
- `PresetsMeetAssumptions`: a statement about the four shipped files, which its run decides. Nothing
  like it holds for other files.
- The two properties of section 5, which the code violates.

All other invariants and action properties of the runs are theorems.

## 5. Where the code and its docs disagree

Two runs end in a violation; `PROJECT.json` quotes the lines.

| Run | The code | What it contradicts |
|---|---|---|
| `gpu_default` | work-groups are rounded down (SimulationGPU.cpp:19): of the default 2560 agents 512 never move | "Num Agents" on the screen |
| `menu_quit` | the menu ignores that the window was closed (Main.cpp:24) and goes on for ever | the quit message it has received |

Smaller divergences are in the models as the code has them, without a run:

- Agents may start above the bound, up to 1.00006 times it (Simulation.cpp:40-42), and are in
  no octree before their first move has wrapped them (Octree.cpp:4-6).
- The grid kernel reads the agent of the invocation itself like any other of its cell
  (FlockGrid.glsl:147-148) and counts it twice (159-162); the brute force kernel leaves it out
  (FlockBruteForce.glsl:104). The two kernels do not compute the same velocities.
- `mouseState` is 1 for the right and 2 for the left button (SimulationGPU.cpp:221), the
  opposite of the comment in both shaders (FlockGrid.glsl:32, FlockBruteForce.glsl:27). It is
  set in the program that is bound only, by a location looked up in the other (224).
- A key released and pressed again in one update is not "pressed" (Win32Keyboard.cpp:31
  against Keyboard.h:179), which the mouse gets right (Win32Mouse.cpp:104): such a tap is lost.
  `OnePressPerHold` and `PausedOncePerHold` are upper bounds and allow it.
- A key typed into another window is recorded if its message is read only after the window
  has been activated again (Win32Window.cpp:188-190, 229-233).
- Packets with absolute positions replace the movement of those before them in an update
  (Win32Mouse.cpp:32 against Mouse.h:43); `YawTracks` counts it as `lost`.
- Two notches up in one packet of the wheel count as down (Win32Mouse.cpp:61 against
  Mouse.h:54).
- After sizing with a key, after a move of the window and after a resize in the background
  size and pointer are behind or held (`snapped`, `displaced`, `resizedAway`): the properties
  of `window_size` exempt these cases and show that there are no others.

## 6. What is not modelled

- Vendored code: FreeImage with its libraries and stb are nearly all of the lines of the
  repository and none of the program's logic; it calls them to save a screenshot and to
  load fonts and textures. The font builder, a tool that runs once. The OpenGL plug-in,
  which is not in the repository: a dispatch, a memory barrier and a buffer of given size
  are modelled as the code relies on them.
- Floating point arithmetic: steering, weights, statistics, movement of the camera,
  matrices, the rounding of positions at cell faces. Positions are whole numbers;
  velocities are arbitrary. What is lost with that is listed among the hazards: a zero
  vector that is normalised (FlockGrid.glsl:76), a weight changed by a first frame as long
  as the loading (Simulation.cpp:59).
- In grid mode, numbers of agents that do not fill their work-groups, a number of work-groups
  that is no power of two, where the last merge would reach beyond the buffer, and
  less than one full work-group, where `barrier()` would be in divergent control flow. The
  assumptions of `FlockSort` and `SimulationGPU` name this; `PresetsMeetAssumptions` shows
  that the shipped files keep to it.
- Drawing: renderer, radii, boxes, text, screenshots. Meshes, fonts, textures and
  shaders for drawing are read or run without state that outlives a call.
- Strings of `Debug`, drawn and cleared as a whole.
- What other compilers make of the references to local variables that `WrapBounds` and
  `Alignment` return (SimulationCPU.cpp:200).
- When within a frame a button was pressed: double clicks are counted in whole frames.
- Full screen, which nothing asks for, and the console window.
- `WithinView`, `AvoidWalls` and the sphere overlap of the octree: nothing calls them.

## 7. Plan

Done, in this order: the sort, index and geometry of the grid; the GPU frames over
their specifications; the CPU frames over the octree; window, program, mouse and
debug lines; the proofs of index, geometry and keyboard; sizes of the sort that leave
agents behind, kernels invocation by invocation, window size, camera and settings.

Then the proofs of the sort, with its refinement, of the GPU frames, window size, mouse,
camera and the rest of the keyboard; the octree as a stack of calls, which has no recursive
operator, and the proofs of the CPU frames, of the program, the settings and the lines of
`Debug`.

What could follow: the strings and axis lines of `Debug`; the movement of the camera by keys;
and a model of the rounding of positions at cell faces, which needs a treatment of floating
point that neither TLC nor the provers offer.
