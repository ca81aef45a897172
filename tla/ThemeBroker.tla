---------------------------- MODULE ThemeBroker ----------------------------
(***************************************************************************)
(* The theme of the process and the broadcast that carries it to every     *)
(* registered window (src/theme/ThemeBroker.cpp).                          *)
(*                                                                         *)
(* A broadcast works through a snapshot of the registry, one window at a   *)
(* time: it sends WM_THEMECHANGED and then calls the handler, both outside *)
(* the lock, so that each of them may set the theme, register, unregister  *)
(* or destroy windows.  set_theme in the middle of a broadcast starts      *)
(* another one; broadcasts nest like the calls of which they are made.     *)
(*                                                                         *)
(* A window hears of a theme in two ways: it may ask for the theme of the  *)
(* process when the message comes, and it is told a mode by the call of    *)
(* its handler.  The two differ after a nested change.                     *)
(***************************************************************************)
EXTENDS Integers

Nobody == "nobody"

CONSTANTS Windows, Themes,
          Depth        \* how deep broadcasts nest (a bound)

ASSUME BrokerAssumption == Depth \in Nat /\ Nobody \notin Windows

VARIABLES current,     \* the theme of the process
          entries,     \* the registered windows
          alive,       \* the windows that exist
          heard,       \* the theme a window found when it last asked
          told,        \* the mode its handler was last called with
          depth,       \* the number of broadcasts going on
          todo,        \* of each of them, what is left of its snapshot,
          carried,     \*   the mode it read,
          at, called,  \*   the window it is at, whose handler has been called
          crossed      \* the theme was changed in the middle of a broadcast,
                       \*   and has not been set outside of one since

broadcasts == <<depth, todo, carried, at, called>>
brokerVars == <<current, entries, alive, heard, told, broadcasts, crossed>>

BrokerOK ==
    /\ current \in Themes
    /\ entries \subseteq Windows /\ alive \subseteq Windows
    /\ heard \in [Windows -> Themes] /\ told \in [Windows -> Themes]
    /\ depth \in 0..Depth
    /\ todo \in [1..Depth -> SUBSET Windows]
    /\ carried \in [1..Depth -> Themes]
    /\ at \in [1..Depth -> Windows \cup {Nobody}]
    /\ called \in [1..Depth -> BOOLEAN]
    /\ crossed \in BOOLEAN

BrokerInit ==
    /\ current \in Themes
    /\ entries = {} /\ alive = {}
    /\ heard = [w \in Windows |-> current]
    /\ told = [w \in Windows |-> current]
    /\ depth = 0
    /\ todo = [d \in 1..Depth |-> {}]
    /\ carried = [d \in 1..Depth |-> current]
    /\ at = [d \in 1..Depth |-> Nobody]
    /\ called = [d \in 1..Depth |-> FALSE]
    /\ crossed = FALSE

-----------------------------------------------------------------------------
(* What programs call, from their message loop or from within a message or *)
(* a handler of a broadcast.                                               *)

InTheProgram == depth > 0 => at[depth] # Nobody

\* Slip: a broadcast that is going on is trusted to carry the new theme too.
SetTheme_once(mode) ==
    /\ InTheProgram
    /\ mode # current
    /\ depth < Depth
    /\ current' = mode
    /\ crossed' = (depth > 0)
    /\ IF depth > 0
       THEN UNCHANGED <<depth, todo, carried>>
       ELSE /\ depth' = 1
            /\ todo' = [todo EXCEPT ![1] = entries]
            /\ carried' = [carried EXCEPT ![1] = mode]
    /\ UNCHANGED <<entries, alive, heard, told, at, called>>

\* The same theme again does nothing.
SetTheme(mode) ==
    /\ InTheProgram
    /\ mode # current
    /\ depth < Depth
    /\ current' = mode
    /\ crossed' = (depth > 0)
    /\ depth' = depth + 1
    /\ todo' = [todo EXCEPT ![depth + 1] = entries]
    /\ carried' = [carried EXCEPT ![depth + 1] = mode]
    /\ UNCHANGED <<entries, alive, heard, told, at, called>>

\* A window is created in the theme of the process, and registers.
Register(w) ==
    /\ InTheProgram
    /\ w \notin alive
    /\ alive' = alive \cup {w}
    /\ entries' = entries \cup {w}
    /\ heard' = [heard EXCEPT ![w] = current]
    /\ told' = [told EXCEPT ![w] = current]
    /\ UNCHANGED <<current, broadcasts, crossed>>

\* A window is destroyed and leaves the registry in WM_NCDESTROY.
Unregister(w) ==
    /\ InTheProgram
    /\ w \in alive
    /\ alive' = alive \ {w}
    /\ entries' = entries \ {w}
    /\ UNCHANGED <<current, heard, told, broadcasts, crossed>>

\* A window is destroyed and does not say so.
Vanish(w) ==
    /\ InTheProgram
    /\ w \in alive
    /\ alive' = alive \ {w}
    /\ UNCHANGED <<current, entries, heard, told, broadcasts, crossed>>

-----------------------------------------------------------------------------
(* The steps of a broadcast, for the innermost one.                        *)

AtWork == depth > 0 /\ at[depth] = Nobody

\* The next window of the snapshot no longer exists: drop it.
SkipDead(w) ==
    /\ AtWork
    /\ w \in todo[depth] \ alive
    /\ todo' = [todo EXCEPT ![depth] = @ \ {w}]
    /\ entries' = entries \ {w}
    /\ UNCHANGED <<current, alive, heard, told, depth, carried, at, called, crossed>>

\* WM_THEMECHANGED: the window asks for the current theme.
SendMessage(w) ==
    /\ AtWork
    /\ w \in todo[depth] \cap alive
    /\ todo' = [todo EXCEPT ![depth] = @ \ {w}]
    /\ at' = [at EXCEPT ![depth] = w]
    /\ called' = [called EXCEPT ![depth] = FALSE]
    /\ heard' = [heard EXCEPT ![w] = current]
    /\ UNCHANGED <<current, entries, alive, told, depth, carried, crossed>>

\* The handler of the snapshot is called with the mode of the broadcast, also
\* if the message has just destroyed the window.
CallHandler ==
    /\ depth > 0
    /\ at[depth] # Nobody
    /\ ~called[depth]
    /\ told' = [told EXCEPT ![at[depth]] = carried[depth]]
    /\ called' = [called EXCEPT ![depth] = TRUE]
    /\ UNCHANGED <<current, entries, alive, heard, depth, todo, carried, at, crossed>>

HandlerReturns ==
    /\ depth > 0
    /\ at[depth] # Nobody
    /\ called[depth]
    /\ at' = [at EXCEPT ![depth] = Nobody]
    /\ UNCHANGED <<current, entries, alive, heard, told, depth, todo, carried, called,
                   crossed>>

BroadcastEnds ==
    /\ AtWork
    /\ todo[depth] = {}
    /\ depth' = depth - 1
    /\ UNCHANGED <<current, entries, alive, heard, told, todo, carried, at, called,
                   crossed>>

BrokerNext ==
    \/ \E mode \in Themes : SetTheme(mode)
    \/ \E w \in Windows : Register(w) \/ Unregister(w) \/ Vanish(w)
    \/ \E w \in Windows : SkipDead(w) \/ SendMessage(w)
    \/ CallHandler
    \/ HandlerReturns
    \/ BroadcastEnds

BrokerSpec == BrokerInit /\ [][BrokerNext]_brokerVars

-----------------------------------------------------------------------------
(* Properties.                                                             *)

\* A broadcast has still to come to w.
Expected(w) == \E d \in 1..depth : w \in todo[d]

\* A broadcast has sent its message to w and is about to call the handler.
BeingTold(w) ==
    \E d \in 1..depth : at[d] = w /\ ~called[d]

\* Every registered window that asks when the message comes has the theme of
\* the process, or a broadcast has still to come to it, however broadcasts nest
\* and windows come and go.  A window that goes by the mode it is told has it
\* too, unless the theme was changed in the middle of a broadcast, whose outer
\* loop goes on with the mode it read before.
CaughtUp ==
    \A w \in entries \cap alive :
        /\ heard[w] = current \/ Expected(w)
        /\ told[w] = current \/ Expected(w) \/ BeingTold(w) \/ crossed

=============================================================================
