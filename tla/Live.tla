-------------------------------- MODULE Live --------------------------------
(* A debugging session (session/live.rs, live/stepping.rs) over its         *)
(* history, Timeline. The UI is one thread: what the user asks for happens  *)
(* when no operation is under way (busy = Idle), and an operation is a loop *)
(* of machine cycles. Clock budgets and cycle caps end a loop at any cycle. *)
(* The guest is a small program, Code[pc]:                                  *)
(* "op" writes a page, "jump" goes on or back to 0, "call" and "ret" keep   *)
(* the return address in ra, "loop" jumps to itself. A cycle may retire     *)
(* nothing, and any instruction may halt the machine or stop it by a fault. *)
EXTENDS Timeline

CONSTANTS Code, Line,   \* Code[pc], Line[pc]: the source line
          Callee,       \* where "call" goes
          BreakPcs,     \* where the user sets breakpoints
          Targets,      \* where the user runs to
          Counts,       \* cycles or instructions per step command
          MaxRetired    \* bound: instructions retired

Pcs == DOMAIN Code
NoPc == -1

ASSUME LiveAssumption ==
  /\ Pcs \subseteq Nat /\ {0, Callee} \subseteq Pcs /\ Line \in [Pcs -> Nat]
  /\ BreakPcs \subseteq Pcs /\ Targets \subseteq Pcs /\ Counts \subseteq Nat \ {0} /\ MaxRetired \in Nat

VARIABLES vm,           \* the guest: [pc, ra, depth, ram, fb, retired]
          state,
          breakpoints, resumed_from, temp_breakpoint,
          timeline,
          busy,         \* the operation under way
          captured,     \* the snapshots captured and still in the ring
          moved         \* the pc has left the place it was resumed from

vars == <<vm, state, breakpoints, resumed_from, temp_breakpoint, timeline, busy, captured, moved>>
debugger == <<breakpoints, resumed_from, temp_breakpoint>>

Idle == [op |-> "idle"]
is_alive(s) == s \in {"running", "paused"}

-----------------------------------------------------------------------------
(* The guest.                                                               *)

\* The instruction at the pc retires: the states it may leave.
Retired(g) ==
  LET next == [g EXCEPT !.pc = @ + 1, !.retired = @ + 1]
  IN  CASE Code[g.pc] = "op" ->
             {[next EXCEPT !.ram[g.retired % 2] = next.retired, !.fb[0] = next.retired]}
        [] Code[g.pc] = "jump" -> {next, [next EXCEPT !.pc = 0]}
        [] Code[g.pc] = "call" ->
             {[next EXCEPT !.pc = Callee, !.ra = g.pc + 1, !.depth = @ + 1]}
        [] Code[g.pc] = "ret" -> {[next EXCEPT !.pc = g.ra, !.depth = @ - 1]}
        [] OTHER -> {[next EXCEPT !.pc = g.pc]}

step_over_target_JalrOnly(pc) == NoPc

step_over_target(pc) == IF Code[pc] = "call" THEN pc + 1 ELSE NoPc

-----------------------------------------------------------------------------
(* Captures.                                                                *)

snapshot(g) ==
  [light |-> [pc |-> g.pc, ra |-> g.ra, depth |-> g.depth, retired |-> g.retired],
   ram |-> g.ram, fb |-> g.fb]

Capture(g) ==
  /\ timeline' = capture(timeline, snapshot(g), g.retired)
  /\ LET kept == IF timeline.pending = 0 THEN captured ELSE SubSeq(captured, 1, timeline.pending)
         all == Append(kept, g)
     IN  captured' = IF Len(all) > MaxFrames THEN Tail(all) ELSE all

capture_now(g) ==
  IF timeline.enabled THEN Capture(g) ELSE UNCHANGED <<timeline, captured>>

maybe_capture(g) ==
  IF should_capture(timeline, g.retired) THEN Capture(g) ELSE UNCHANGED <<timeline, captured>>

-----------------------------------------------------------------------------
(* drive.                                                                   *)

breakpoint_hit(pc) ==
  resumed_from # pc /\ (temp_breakpoint = pc \/ pc \in breakpoints)

Checked_Remembers(pc) == UNCHANGED resumed_from

\* The check forgets where the machine was resumed once it is elsewhere.
Checked(pc) == resumed_from' = IF resumed_from = pc THEN pc ELSE NoPc

DriveStart ==
  /\ busy = Idle /\ state = "running"
  /\ busy' = [op |-> "drive"]
  /\ UNCHANGED <<vm, state, debugger, timeline, captured, moved>>

DriveStops ==
  /\ busy.op = "drive" /\ breakpoint_hit(vm.pc)
  /\ state' = "paused" /\ temp_breakpoint' = NoPc /\ Checked(vm.pc)
  /\ busy' = Idle
  /\ capture_now(vm)
  /\ UNCHANGED <<vm, breakpoints, moved>>

\* A cycle of the slice; the slice ends here when its budget is spent.
DriveStep ==
  /\ busy.op = "drive" /\ ~breakpoint_hit(vm.pc) /\ vm.retired < MaxRetired
  /\ Checked(vm.pc)
  /\ vm' \in Retired(vm)
  /\ moved' = (moved \/ vm'.pc # vm.pc)
  /\ \/ UNCHANGED <<busy, timeline, captured>>
     \/ busy' = Idle /\ maybe_capture(vm')
  /\ UNCHANGED <<state, breakpoints, temp_breakpoint>>

\* A slice of cycles in which nothing retires ends.
DriveStalls ==
  /\ busy.op = "drive" /\ ~breakpoint_hit(vm.pc)
  /\ Checked(vm.pc) /\ busy' = Idle /\ maybe_capture(vm)
  /\ UNCHANGED <<vm, state, breakpoints, temp_breakpoint, moved>>

DriveHalts ==
  /\ busy.op = "drive" /\ ~breakpoint_hit(vm.pc)
  /\ state' \in {"exited", "faulted"}
  /\ Checked(vm.pc) /\ busy' = Idle /\ capture_now(vm)
  /\ UNCHANGED <<vm, breakpoints, temp_breakpoint, moved>>

-----------------------------------------------------------------------------
(* step_cycles, step_instructions and step_line: loops that end paused.     *)

\* After the loop: paused if still alive, and a frame exactly here.
Finish(g) == state' = "paused" /\ busy' = Idle /\ capture_now(g)

Begin(op) ==
  /\ busy = Idle /\ is_alive(state)
  /\ busy' = op
  /\ UNCHANGED <<vm, state, debugger, timeline, captured, moved>>

StepCycles == \E n \in Counts : Begin([op |-> "cycles", left |-> n])

StepInstructions == \E n \in Counts : Begin([op |-> "insns", target |-> vm.retired + n])

\* A jump to itself would never change the line: one instruction instead.
StepLine(over) ==
  IF Code[vm.pc] = "loop" THEN Begin([op |-> "insns", target |-> vm.retired + 1])
  ELSE Begin([op |-> "line", over |-> over, origin |-> Line[vm.pc], depth |-> vm.depth,
              skip |-> IF over THEN step_over_target(vm.pc) ELSE NoPc])

Retires ==
  /\ vm.retired < MaxRetired
  /\ vm' \in Retired(vm)
  /\ moved' = (moved \/ vm'.pc # vm.pc)

CyclesStep ==
  /\ busy.op = "cycles"
  /\ Retires \/ UNCHANGED <<vm, moved>>
  /\ IF busy.left = 1 THEN Finish(vm')
     ELSE busy' = [busy EXCEPT !.left = @ - 1] /\ UNCHANGED <<state, timeline, captured>>
  /\ UNCHANGED debugger

InstructionsStep ==
  /\ busy.op = "insns" /\ Retires
  /\ IF vm'.retired >= busy.target THEN Finish(vm') ELSE UNCHANGED <<state, busy, timeline, captured>>
  /\ UNCHANGED debugger

\* Inside a call that is stepped over, lines do not count.
Skipping(pc) == busy.skip # NoPc /\ pc # busy.skip
NewLine(pc) == Line[pc] # 0 /\ Line[pc] # busy.origin

\* A breakpoint stops the step, inside a skipped call too.
LineBreaks ==
  /\ busy.op = "line" /\ Retires /\ breakpoint_hit(vm'.pc)
  /\ Checked(vm'.pc) /\ temp_breakpoint' = NoPc
  /\ Finish(vm')
  /\ UNCHANGED breakpoints

LineStops ==
  /\ busy.op = "line" /\ Retires /\ ~breakpoint_hit(vm'.pc)
  /\ Checked(vm'.pc)
  /\ ~Skipping(vm'.pc) /\ NewLine(vm'.pc)
  /\ Finish(vm')
  /\ UNCHANGED <<breakpoints, temp_breakpoint>>

LineGoesOn ==
  /\ busy.op = "line" /\ Retires /\ ~breakpoint_hit(vm'.pc)
  /\ Checked(vm'.pc)
  /\ Skipping(vm'.pc) \/ ~NewLine(vm'.pc)
  /\ busy' = IF Skipping(vm'.pc) THEN busy
             ELSE [busy EXCEPT !.skip = IF busy.over THEN step_over_target(vm'.pc) ELSE NoPc]
  /\ UNCHANGED <<state, breakpoints, temp_breakpoint, timeline, captured>>

\* The clock or the cycle cap ends a line step before the line is looked at.
LineExpires ==
  /\ busy.op = "line" /\ Retires
  /\ Finish(vm')
  /\ UNCHANGED debugger

\* The cycle cap of a step in which nothing retires.
GivesUp ==
  /\ busy.op \in {"insns", "line"}
  /\ Finish(vm)
  /\ UNCHANGED <<vm, debugger, moved>>

StepHalts ==
  /\ busy.op \in {"cycles", "insns", "line"}
  /\ state' \in {"exited", "faulted"}
  /\ busy' = Idle /\ capture_now(vm)
  /\ UNCHANGED <<vm, debugger, moved>>

-----------------------------------------------------------------------------
(* What the user asks for.                                                  *)

pause ==
  /\ busy = Idle /\ state = "running"
  /\ state' = "paused" /\ temp_breakpoint' = NoPc
  /\ capture_now(vm)
  /\ UNCHANGED <<vm, breakpoints, resumed_from, busy, moved>>

\* Nothing unless paused.
resume ==
  IF state = "paused"
  THEN state' = "running" /\ resumed_from' = vm.pc /\ moved' = FALSE
  ELSE UNCHANGED <<state, resumed_from, moved>>

Resume ==
  /\ busy = Idle /\ state = "paused" /\ resume
  /\ UNCHANGED <<vm, breakpoints, temp_breakpoint, timeline, busy, captured>>

run_to(pc) ==
  /\ busy = Idle /\ is_alive(state)
  /\ temp_breakpoint' = pc /\ resume
  /\ UNCHANGED <<vm, breakpoints, timeline, busy, captured>>

StepOver ==
  IF step_over_target(vm.pc) # NoPc THEN run_to(step_over_target(vm.pc))
  ELSE Begin([op |-> "insns", target |-> vm.retired + 1])

StepOut == vm.ra # NoPc /\ run_to(vm.ra)

stop ==
  /\ busy = Idle /\ is_alive(state)
  /\ state' = "stopped"
  /\ UNCHANGED <<vm, debugger, timeline, busy, captured, moved>>

restore_timepoint(i) ==
  /\ busy = Idle
  /\ LET s == snapshot_at(timeline, i)
     IN  vm' = [pc |-> s.light.pc, ra |-> s.light.ra, depth |-> s.light.depth,
                retired |-> s.light.retired, ram |-> s.ram, fb |-> s.fb]
  /\ timeline' = rewind_to(timeline, i)
  /\ state' = IF is_alive(state) THEN "paused" ELSE state
  /\ resumed_from' = NoPc /\ temp_breakpoint' = NoPc
  /\ UNCHANGED <<breakpoints, busy, captured, moved>>

ToggleTimeTravel ==
  /\ busy = Idle
  /\ timeline' = set_enabled(timeline, ~timeline.enabled)
  /\ captured' = IF timeline.enabled THEN <<>> ELSE captured
  /\ UNCHANGED <<vm, state, debugger, busy, moved>>

ToggleBreakpoint(pc) ==
  /\ busy = Idle
  /\ breakpoints' = IF pc \in breakpoints THEN breakpoints \ {pc} ELSE breakpoints \cup {pc}
  /\ UNCHANGED <<vm, state, resumed_from, temp_breakpoint, timeline, busy, captured, moved>>

Init ==
  /\ vm = [pc |-> 0, ra |-> NoPc, depth |-> 0, retired |-> 0,
           ram |-> [p \in 0..1 |-> 0], fb |-> [p \in 0..0 |-> 0]]
  /\ state = "running"
  /\ breakpoints = {} /\ resumed_from = NoPc /\ temp_breakpoint = NoPc
  /\ timeline = Cleared(FALSE)
  /\ busy = Idle /\ captured = <<>> /\ moved = TRUE

Machine ==
  \/ DriveStops \/ DriveStep \/ DriveStalls \/ DriveHalts
  \/ CyclesStep \/ InstructionsStep
  \/ LineBreaks \/ LineStops \/ LineGoesOn \/ LineExpires
  \/ GivesUp \/ StepHalts

User ==
  \/ DriveStart \/ StepCycles \/ StepInstructions \/ StepLine(TRUE) \/ StepLine(FALSE)
  \/ StepOver \/ StepOut \/ pause \/ Resume \/ stop \/ ToggleTimeTravel
  \/ \E pc \in Targets : run_to(pc)
  \/ \E pc \in BreakPcs : ToggleBreakpoint(pc)
  \/ \E i \in DOMAIN timeline.lights : restore_timepoint(i)

Next == Machine \/ User

Spec == Init /\ [][Next]_vars

-----------------------------------------------------------------------------
(* Properties.                                                              *)

\* Every frame in the ring gives back the machine that was captured, through
\* keyframes and deltas, evictions, restores and divergent futures.
FramesExact ==
  /\ Len(timeline.lights) = Len(captured)
  /\ \A i \in DOMAIN captured : snapshot_at(timeline, i) = snapshot(captured[i])

\* The ring is bounded and ordered, and the throttle never waits for a count
\* of a future that was abandoned: a machine that runs on is captured again.
HistoryOrdered ==
  /\ Len(timeline.retired) <= MaxFrames
  /\ \A i, j \in DOMAIN timeline.retired : i < j => timeline.retired[i] <= timeline.retired[j]
  /\ timeline.last # NoCount => timeline.last <= vm.retired

\* A running machine that comes to a breakpoint does not run over it.
StopsAtBreakpoints ==
  [][(busy.op = "drive" /\ vm.pc \in breakpoints /\ moved) => UNCHANGED vm]_vars

\* A line step that ends because the line changed is not inside a call:
\* "calls are stepped over, not into".
OverStaysOut == [][(LineStops /\ busy.over) => vm'.depth <= busy.depth]_vars
=============================================================================
