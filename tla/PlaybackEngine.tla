---------------------------- MODULE PlaybackEngine ----------------------------
(***************************************************************************)
(* The playback engine: what a window shows at an instant, calculated from *)
(* the row of the window, its playlist and the clock.  Time is counted in  *)
(* ticks, of which a second has TicksPerSecond (10^9 in the code); states  *)
(* are reported in whole seconds.                                          *)
(*                                                                         *)
(* The behaviour is that of a display that asks again at every tick, for a *)
(* window and a playlist that do not change.                               *)
(***************************************************************************)
EXTENDS Integers, Sequences, SequencesExt

CONSTANTS TicksPerSecond,
          CycleSeconds,   \* values of windows.cycle_duration_seconds
          ItemSeconds,    \* values of playlist_items.duration_seconds
          Positions,      \* values of playlist_items.position
          MediaPresent,   \* whether an item may come without its medium
          MaxLength,      \* bound: items in a playlist
          FirstTick, LastTick  \* bounds: instants that are looked at; epoch is 0

ASSUME TickAssumption == TicksPerSecond \in Nat \ {0}
ASSUME MediaAssumption == MediaPresent \subseteq BOOLEAN
ASSUME ItemsAssumption == ItemSeconds \subseteq Int /\ Positions \subseteq Int /\ MaxLength \in Nat
ASSUME CycleAssumption == CycleSeconds \subseteq Int
ASSUME InstantsAssumption == FirstTick \in Int /\ LastTick \in Int /\ FirstTick <= LastTick

VARIABLES cycle,     \* window.CycleDurationSeconds
          playlist,  \* the items, as the repository returns them
          now,       \* ticks since window.EpochStartTime
          state      \* the playback state returned, or the error

vars == <<cycle, playlist, now, state>>

Fail(begun, e) == [started |-> begun, active |-> FALSE, error |-> e]

NotStarted == [started |-> FALSE, active |-> FALSE, error |-> "none"]
Empty == [started |-> TRUE, active |-> FALSE, error |-> "none"]

-----------------------------------------------------------------------------
(* Where a walk over the items stops, 0 when it ends without a stop.       *)
First(stops) == IF stops = {} THEN 0 ELSE Min(stops)

(* validatePlaylist: the first item that is wrong decides, by its first    *)
(* fault.                                                                  *)
WrongDuration(p, i) == p[i].seconds <= 0
OutOfOrder(p, i) == i > 1 /\ p[i].position <= p[i - 1].position
FirstWrong(p) == First({i \in DOMAIN p : ~p[i].media \/ WrongDuration(p, i) \/ OutOfOrder(p, i)})

ValidationError(p) ==
    LET i == FirstWrong(p) IN
    CASE i = 0 -> "none"
      [] i # 0 /\ ~p[i].media -> "nil_media"
      [] i # 0 /\ p[i].media /\ WrongDuration(p, i) -> "invalid_duration"
      [] OTHER -> "unsorted"

(* Ticks before the item at index i, and before the end of the playlist.   *)
Ticks(seconds) == seconds * TicksPerSecond
StartOf(p, i) ==
    LET cumulative[k \in 1..(Len(p) + 1)] ==
            IF k = 1 THEN 0 ELSE cumulative[k - 1] + Ticks(p[k - 1].seconds)
    IN cumulative[i]
Total(p) == StartOf(p, Len(p) + 1)

(* Slip: the playlist repeats over the boundary of the cycle.              *)
EndlessPosition(c, p, t) == t % Total(p)

(* The place in the playlist: the cycle starts it again, whether or not it *)
(* is through.                                                             *)
PlaylistPosition(c, p, t) == (t % Ticks(c)) % Total(p)

(* Slip: an item owns its end.                                             *)
OwnsEnd(p, i, pos) == StartOf(p, i) <= pos /\ pos <= StartOf(p, i + 1)

Owns(p, i, pos) == StartOf(p, i) <= pos /\ pos < StartOf(p, i + 1)

(* Slip: what remains is rounded down.                                     *)
RemainingFloor(p, i, pos) == (StartOf(p, i + 1) - pos) \div TicksPerSecond

(* One tick less, rounded down, plus one: rounded up.                      *)
Remaining(p, i, pos) == (StartOf(p, i + 1) - pos - 1) \div TicksPerSecond + 1

(* The walk over the items: the first that owns the position.              *)
ActiveItem(p, pos) == First({i \in DOMAIN p : Owns(p, i, pos)})

Playing(c, p, t) ==
    LET pos == PlaylistPosition(c, p, t)
        i == ActiveItem(p, pos) IN
    IF i = 0 THEN Fail(TRUE, "internal")
    ELSE [started |-> TRUE, active |-> TRUE, error |-> "none",
          index |-> i,
          elapsed |-> (pos - StartOf(p, i)) \div TicksPerSecond,
          remaining |-> Remaining(p, i, pos),
          cyclePosition |-> (t % Ticks(c)) \div TicksPerSecond]

Calculate(c, p, t) ==
    IF c <= 0 THEN Fail(FALSE, "invalid_cycle")
    ELSE IF t < 0 THEN NotStarted
    ELSE IF p = <<>> THEN Empty
    ELSE IF ValidationError(p) # "none" THEN Fail(TRUE, ValidationError(p))
    ELSE Playing(c, p, t)

-----------------------------------------------------------------------------
Playlists == BoundedSeq([position : Positions, seconds : ItemSeconds, media : MediaPresent], MaxLength)

Init ==
    /\ cycle \in CycleSeconds /\ playlist \in Playlists
    /\ now = FirstTick
    /\ state = Calculate(cycle, playlist, now)

Tick ==
    /\ now < LastTick
    /\ now' = now + 1
    /\ state' = Calculate(cycle, playlist, now')
    /\ UNCHANGED <<cycle, playlist>>

Next == Tick

Spec == Init /\ [][Next]_vars

-----------------------------------------------------------------------------
(* Properties                                                              *)

(* The reference: the seconds of the playlist laid out one by one, and     *)
(* repeated until the cycle is full.                                       *)
Valid == /\ \A i \in DOMAIN playlist : playlist[i].media /\ playlist[i].seconds > 0
         /\ \A i, j \in DOMAIN playlist : i < j => playlist[i].position < playlist[j].position
Seconds == FlattenSeq([i \in DOMAIN playlist |-> [k \in 1..playlist[i].seconds |-> i]])
Schedule == [k \in 0..(cycle - 1) |-> Seconds[(k % Len(Seconds)) + 1]]

(* A window with a valid playlist always shows something, namely the item  *)
(* of its schedule for the second of the cycle it is in; an invalid one is *)
(* refused and never shown.                                                *)
FollowsSchedule ==
    cycle > 0 /\ now >= 0 /\ playlist # <<>> =>
        IF Valid
        THEN state.active /\ state.index = Schedule[(now \div TicksPerSecond) % cycle]
        ELSE ~state.active /\ state.error # "none"

(* The seconds shown as elapsed and as remaining add up to the duration of *)
(* the item, at whatever fraction of a second the question is asked, and   *)
(* an item that is shown has a second left; the cycle is not over either.  *)
SecondsAddUp ==
    state.active =>
        /\ state.elapsed >= 0 /\ state.remaining > 0
        /\ state.elapsed + state.remaining = playlist[state.index].seconds
        /\ state.cyclePosition \in 0..(cycle - 1)

(* Playback has no jumps: from tick to tick an item goes on, gives way to  *)
(* the next when its time is over, or to the first when the cycle is over. *)
Seamless ==
    [][state.active =>
        LET n == Len(playlist)
            next == (state.index % n) + 1 IN
        \/ state'.index = state.index /\ state'.elapsed \in {state.elapsed, state.elapsed + 1}
        \/ /\ state'.index = next /\ state'.elapsed = 0
           /\ state.elapsed = playlist[state.index].seconds - 1
        \/ state'.index = 1 /\ state'.elapsed = 0 /\ now' % Ticks(cycle) = 0]_vars
===============================================================================
