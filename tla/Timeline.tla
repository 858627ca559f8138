------------------------------ MODULE Timeline ------------------------------
(* The time-travel history of a session (session/timeline.rs): a ring of    *)
(* snapshots whose bulk images, RAM and the framebuffer planes, are kept as *)
(* keyframes and page deltas. Operators on the state of one TimeMachine.    *)
EXTENDS Integers, Sequences

CONSTANTS Stride,      \* keyframe_stride
          MaxFrames,   \* max_frames
          BaseInterval \* base_interval

MAX_INTERVAL_GROWTH == 64
NoCount == -1

ASSUME TimelineAssumption ==
  Stride \in Nat \ {0} /\ MaxFrames \in Nat \ {0, 1} /\ BaseInterval \in Nat \ {0}

-----------------------------------------------------------------------------
(* RamLog: an image maps pages to contents, 0 for a page of zeros.          *)

EmptyLog == [frames |-> <<>>, prev |-> <<>>, since |-> 0]

\* Against no base, the pages that are not zero.
changed_pages(base, cur) ==
  LET differs == {p \in DOMAIN cur : IF p \in DOMAIN base THEN base[p] # cur[p] ELSE cur[p] # 0}
  IN  [p \in differs |-> cur[p]]

Keyframe(image) ==
  [key |-> TRUE, pages |-> changed_pages(<<>>, image), len |-> DOMAIN image]

push(log, image) ==
  LET key == log.frames = <<>> \/ log.since >= Stride
      delta == [key |-> FALSE, pages |-> changed_pages(log.prev, image), len |-> {}]
  IN  [frames |-> Append(log.frames, IF key THEN Keyframe(image) ELSE delta),
       prev |-> image, since |-> IF key THEN 0 ELSE log.since + 1]

\* The keyframe that frame i builds on; frame 1 is one.
KeyOf(log, i) == CHOOSE k \in 1..i : log.frames[k].key /\ \A j \in (k + 1)..i : ~log.frames[j].key

\* What a zeroed page p holds after the pages of the frames from key to i were
\* applied in their order: of the frames that have it the newest decides.
apply_pages(log, key, i, p) ==
  LET having == {k \in key..i : p \in DOMAIN log.frames[k].pages}
      newest == CHOOSE k \in having : \A j \in having : j <= k
  IN  IF having = {} THEN 0 ELSE log.frames[newest].pages[p]

reconstruct(log, i) ==
  LET key == KeyOf(log, i)
  IN  [p \in log.frames[key].len |-> apply_pages(log, key, i, p)]

truncate_after_KeepsPrev(log, i) ==
  IF i >= Len(log.frames) THEN log
  ELSE [log EXCEPT !.frames = SubSeq(@, 1, i), !.since = i - KeyOf(log, i)]

\* Frames after i are dropped and the next delta is taken against i.
truncate_after(log, i) ==
  IF i >= Len(log.frames) THEN log
  ELSE [frames |-> SubSeq(log.frames, 1, i), prev |-> reconstruct(log, i),
        since |-> i - KeyOf(log, i)]

\* The new front becomes a keyframe.
evict_front(log) ==
  IF Len(log.frames) < 2 THEN [log EXCEPT !.frames = <<>>]
  ELSE LET second == IF log.frames[2].key THEN log.frames[2] ELSE Keyframe(reconstruct(log, 2))
       IN  [log EXCEPT !.frames = <<second>> \o SubSeq(@, 3, Len(@))]

-----------------------------------------------------------------------------
(* TimeMachine. A snapshot is [light, ram, fb].                             *)

Cleared(on) ==
  [ram |-> EmptyLog, fb |-> EmptyLog, lights |-> <<>>, retired |-> <<>>, last |-> NoCount,
   interval |-> BaseInterval, evicted |-> 0, pending |-> 0, enabled |-> on]

\* Turning it on keeps what is there; turning it off forgets everything.
set_enabled(t, on) == IF on THEN [t EXCEPT !.enabled = TRUE] ELSE Cleared(FALSE)

should_capture(t, retired) ==
  t.enabled /\ (t.last = NoCount \/ retired - t.last >= t.interval)

rewind_to_KeepsThrottle(t, i) == [t EXCEPT !.pending = i]

\* The frames after i are dropped by the next capture, not before.
rewind_to(t, i) == [t EXCEPT !.last = t.retired[i], !.pending = i]

grow_interval_on_eviction(t) ==
  LET n == t.evicted + 1
      doubled == t.interval * 2
      cap == BaseInterval * MAX_INTERVAL_GROWTH
  IN  IF n >= MaxFrames \div 2
      THEN [t EXCEPT !.evicted = 0, !.interval = IF doubled <= cap THEN doubled ELSE cap]
      ELSE [t EXCEPT !.evicted = n]

\* What rewind_to left to be dropped.
Truncated(t) ==
  IF t.pending = 0 THEN t
  ELSE [t EXCEPT !.ram = truncate_after(@, t.pending), !.fb = truncate_after(@, t.pending),
                 !.lights = SubSeq(@, 1, t.pending), !.retired = SubSeq(@, 1, t.pending),
                 !.pending = 0]

\* One frame comes in, so at most one goes out.
capture(t, snap, retired) ==
  LET u == Truncated(t)
      v == [u EXCEPT !.ram = push(@, snap.ram), !.fb = push(@, snap.fb),
                     !.lights = Append(@, snap.light), !.retired = Append(@, retired),
                     !.last = retired]
  IN  IF Len(v.lights) <= MaxFrames THEN v
      ELSE grow_interval_on_eviction(
             [v EXCEPT !.ram = evict_front(@), !.fb = evict_front(@),
                       !.lights = Tail(@), !.retired = Tail(@)])

snapshot_at(t, i) ==
  [light |-> t.lights[i], ram |-> reconstruct(t.ram, i), fb |-> reconstruct(t.fb, i)]
=============================================================================
