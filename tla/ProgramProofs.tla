--------------------------- MODULE ProgramProofs ---------------------------
(***************************************************************************)
(* What holds of the theme broker, for any windows, modes and depth of     *)
(* nested broadcasts; and of every sample and of the menus, for windows of *)
(* any size and resolution.                                                *)
(*                                                                         *)
(* Most of what a handler computes, such as the layout, does not matter to *)
(* these properties.  So the invariants of the samples do not say what the *)
(* fields of a window are, only that it has them and what the property     *)
(* says of them; a step lists the fields that it may change.               *)
(***************************************************************************)
EXTENDS Programs, Sequences, TLAPS

\* What is proved of a line of code.
Reading == INSTANCE CodeTokensProofs

-----------------------------------------------------------------------------
(* The theme broker.  The invariant adds to CaughtUp what makes the mode a *)
(* handler is called with the right one: unless a change crossed a         *)
(* broadcast, there is one at most and it carries the theme of the process.*)

OneCarriesIt == ~crossed => depth <= 1 /\ (depth = 1 => carried[1] = current)

BrokerInv == BrokerOK /\ OneCarriesIt /\ CaughtUp

\* Initially nobody is registered.
LEMMA InitBroker == BrokerInit => BrokerInv
<1> SUFFICES ASSUME BrokerInit PROVE BrokerInv
  OBVIOUS
<1>1. BrokerOK
  <2>1. called \in [1..Depth -> BOOLEAN] /\ crossed \in BOOLEAN
    BY DEF BrokerInit
  <2>2. heard \in [Windows -> Themes] /\ told \in [Windows -> Themes]
    BY DEF BrokerInit
  <2>3. carried \in [1..Depth -> Themes] /\ at \in [1..Depth -> Windows \cup {Nobody}]
    BY DEF BrokerInit
  <2> QED BY <2>1, <2>2, <2>3, BrokerAssumption DEF BrokerInit, BrokerOK
<1>2. OneCarriesIt /\ CaughtUp
  BY DEF BrokerInit, OneCarriesIt, CaughtUp
<1> QED BY <1>1, <1>2 DEF BrokerInv

\* The types are preserved.
LEMMA BrokerTyped == BrokerOK /\ [BrokerNext]_brokerVars => BrokerOK'
<1> SUFFICES ASSUME BrokerOK, [BrokerNext]_brokerVars PROVE BrokerOK'
  OBVIOUS
<1> USE BrokerAssumption DEF broadcasts, BrokerOK
<1>1. ASSUME NEW mode \in Themes, SetTheme(mode) PROVE BrokerOK'
  BY <1>1 DEF SetTheme
<1>2. ASSUME NEW w \in Windows, Register(w) \/ Unregister(w) \/ Vanish(w)
      PROVE  BrokerOK'
  <2>1. CASE Register(w)
    <3>1. heard' \in [Windows -> Themes] /\ told' \in [Windows -> Themes]
      BY <2>1 DEF Register
    <3> QED BY <2>1, <3>1 DEF Register
  <2>2. CASE Unregister(w)
    BY <2>2 DEF Unregister
  <2>3. CASE Vanish(w)
    BY <2>3 DEF Vanish
  <2> QED BY <1>2, <2>1, <2>2, <2>3
<1>3. ASSUME NEW w \in Windows, SkipDead(w) \/ SendMessage(w) PROVE BrokerOK'
  <2>1. todo[depth] \ {w} \in SUBSET Windows
    BY <1>3 DEF SkipDead, SendMessage, AtWork
  <2>2. CASE SkipDead(w)
    BY <2>1, <2>2 DEF SkipDead
  <2>3. CASE SendMessage(w)
    <3>1. called' \in [1..Depth -> BOOLEAN]
      BY <2>3 DEF SendMessage
    <3>2. todo' \in [1..Depth -> SUBSET Windows]
      BY <2>1, <2>3 DEF SendMessage
    <3>3. at' \in [1..Depth -> Windows \cup {Nobody}]
      BY <2>3 DEF SendMessage
    <3>4. heard' \in [Windows -> Themes]
      BY <2>3 DEF SendMessage
    <3> QED BY <2>3, <3>1, <3>2, <3>3, <3>4 DEF SendMessage
  <2> QED BY <1>3, <2>2, <2>3
<1>4. CASE CallHandler
  BY <1>4 DEF CallHandler
<1>5. CASE HandlerReturns
  BY <1>5 DEF HandlerReturns
<1>6. CASE BroadcastEnds
  BY <1>6 DEF BroadcastEnds, AtWork
<1>7. CASE UNCHANGED brokerVars
  BY <1>7 DEF brokerVars
<1> QED BY <1>1, <1>2, <1>3, <1>4, <1>5, <1>6, <1>7 DEF BrokerNext

\* Only a change in the middle of a broadcast makes a second one, and it says so.
LEMMA CarriedByOne == BrokerOK /\ OneCarriesIt /\ [BrokerNext]_brokerVars => OneCarriesIt'
<1> SUFFICES ASSUME BrokerOK, OneCarriesIt, [BrokerNext]_brokerVars PROVE OneCarriesIt'
  OBVIOUS
<1> USE BrokerAssumption DEF broadcasts, BrokerOK, OneCarriesIt
<1>1. ASSUME NEW mode \in Themes, SetTheme(mode) PROVE OneCarriesIt'
  <2>1. CASE depth > 0
    BY <1>1, <2>1 DEF SetTheme
  <2>2. CASE depth = 0
    BY <1>1, <2>2 DEF SetTheme
  <2> QED BY <2>1, <2>2
<1>2. ASSUME NEW w \in Windows, Register(w) \/ Unregister(w) \/ Vanish(w)
      PROVE  OneCarriesIt'
  <2>1. CASE Register(w)
    <3>1. heard' \in [Windows -> Themes] /\ told' \in [Windows -> Themes]
      BY <2>1 DEF Register
    <3> QED BY <2>1, <3>1 DEF Register
  <2>2. CASE Unregister(w)
    BY <2>2 DEF Unregister
  <2>3. CASE Vanish(w)
    BY <2>3 DEF Vanish
  <2> QED BY <1>2, <2>1, <2>2, <2>3
<1>3. ASSUME NEW w \in Windows, SkipDead(w) \/ SendMessage(w) PROVE OneCarriesIt'
  BY <1>3 DEF SkipDead, SendMessage
<1>4. CASE CallHandler \/ HandlerReturns
  BY <1>4 DEF CallHandler, HandlerReturns
<1>5. CASE BroadcastEnds
  BY <1>5 DEF BroadcastEnds, AtWork
<1>6. CASE UNCHANGED brokerVars
  BY <1>6 DEF brokerVars
<1> QED BY <1>1, <1>2, <1>3, <1>4, <1>5, <1>6 DEF BrokerNext

\* Every step leaves a window in the theme or expected by a broadcast.
LEMMA CatchingUp == BrokerInv /\ [BrokerNext]_brokerVars => CaughtUp'
<1> DEFINE Caught(v) == /\ heard[v] = current \/ Expected(v)
                        /\ told[v] = current \/ Expected(v) \/ BeingTold(v) \/ crossed
<1> SUFFICES ASSUME BrokerInv, [BrokerNext]_brokerVars, NEW v \in (entries \cap alive)'
             PROVE  Caught(v)'
  BY DEF CaughtUp
<1> USE BrokerAssumption DEF BrokerInv, broadcasts
<1>a. v \in Windows /\ v \in entries' /\ v \in alive'
  BY BrokerTyped DEF BrokerOK
<1>b. v \in entries /\ v \in alive => Caught(v)
  BY DEF CaughtUp
<1>1. ASSUME NEW mode \in Themes, SetTheme(mode) PROVE Caught(v)'
  <2>1. depth + 1 \in 1..depth' /\ v \in todo'[depth + 1]
    BY <1>1, <1>a DEF SetTheme, BrokerOK
  <2>2. Expected(v)'
    BY <2>1 DEF Expected
  <2> QED BY <2>2
<1>2. ASSUME NEW w \in Windows, Register(w) \/ Unregister(w) \/ Vanish(w)
      PROVE  Caught(v)'
  BY <1>a, <1>b, <1>2 DEF Register, Unregister, Vanish, BrokerOK, Expected, BeingTold
<1>3. ASSUME NEW w \in Windows, SkipDead(w) PROVE Caught(v)'
  <2>1. v # w /\ v \in entries /\ v \in alive
    BY <1>3, <1>a DEF SkipDead
  <2>2. \A d \in 1..depth : v \in todo[d] => v \in todo'[d]
    BY <1>3, <2>1 DEF SkipDead, AtWork, BrokerOK
  <2> QED BY <1>b, <1>3, <2>1, <2>2 DEF SkipDead, Expected, BeingTold
<1>4. ASSUME NEW w \in Windows, SendMessage(w) PROVE Caught(v)'
  <2>1. v \in entries /\ v \in alive /\ depth \in 1..Depth
    BY <1>4, <1>a DEF SendMessage, AtWork, BrokerOK
  <2>2. CASE v = w
    <3>1. heard'[v] = current'
      BY <1>4, <2>2, <1>a DEF SendMessage, BrokerOK
    <3>2. at'[depth] = v /\ ~called'[depth] /\ depth' = depth
      BY <1>4, <2>1, <2>2 DEF SendMessage, BrokerOK
    <3>3. BeingTold(v)'
      BY <2>1, <3>2 DEF BeingTold
    <3> QED BY <3>1, <3>3
  <2>3. CASE v # w
    <3>1. \A d \in 1..depth : v \in todo[d] => v \in todo'[d]
      BY <1>4, <2>1, <2>3 DEF SendMessage, BrokerOK
    <3>2. \A d \in 1..depth : d # depth => at'[d] = at[d] /\ called'[d] = called[d]
      BY <1>4, <2>1 DEF SendMessage, BrokerOK
    <3>3. at[depth] # v
      BY <1>4, <1>a DEF SendMessage, AtWork
    <3>4. Expected(v) => Expected(v)'
      BY <1>4, <3>1 DEF SendMessage, Expected
    <3>5. BeingTold(v) => BeingTold(v)'
      BY <1>4, <3>2, <3>3 DEF SendMessage, BeingTold
    <3>6. heard'[v] = heard[v] /\ told'[v] = told[v]
      BY <1>4, <2>3, <1>a DEF SendMessage, BrokerOK
    <3> QED BY <1>b, <1>4, <2>1, <3>4, <3>5, <3>6 DEF SendMessage
  <2> QED BY <2>2, <2>3
<1>5. ASSUME CallHandler PROVE Caught(v)'
  <2>1. v \in entries /\ v \in alive /\ depth \in 1..Depth
    BY <1>5, <1>a DEF CallHandler, BrokerOK
  <2>2. Expected(v) => Expected(v)'
    BY <1>5 DEF CallHandler, Expected
  <2>3. CASE v = at[depth]
    <3>1. told'[v] = carried[depth]
      BY <1>5, <2>3, <1>a DEF CallHandler, BrokerOK
    <3>2. ~crossed => carried[depth] = current
      BY <2>1 DEF OneCarriesIt, BrokerOK
    <3> QED BY <1>b, <1>5, <2>1, <2>2, <3>1, <3>2 DEF CallHandler
  <2>4. CASE v # at[depth]
    <3>1. told'[v] = told[v]
      BY <1>5, <2>4, <1>a DEF CallHandler, BrokerOK
    <3>2. \A d \in 1..depth : d # depth => called'[d] = called[d]
      BY <1>5, <2>1 DEF CallHandler, BrokerOK
    <3>3. BeingTold(v) => BeingTold(v)'
      BY <1>5, <2>4, <3>2 DEF CallHandler, BeingTold
    <3> QED BY <1>b, <1>5, <2>1, <2>2, <3>1, <3>3 DEF CallHandler
  <2> QED BY <2>3, <2>4
<1>6. ASSUME HandlerReturns PROVE Caught(v)'
  <2>1. v \in entries /\ v \in alive /\ depth \in 1..Depth
    BY <1>6, <1>a DEF HandlerReturns, BrokerOK
  <2>2. \A d \in 1..depth : d # depth => at'[d] = at[d]
    BY <1>6, <2>1 DEF HandlerReturns, BrokerOK
  <2>3. BeingTold(v) => BeingTold(v)'
    BY <1>6, <2>2 DEF HandlerReturns, BeingTold
  <2>4. Expected(v) => Expected(v)'
    BY <1>6 DEF HandlerReturns, Expected
  <2> QED BY <1>b, <1>6, <2>1, <2>3, <2>4 DEF HandlerReturns
<1>7. ASSUME BroadcastEnds PROVE Caught(v)'
  <2>1. v \in entries /\ v \in alive
    BY <1>7, <1>a DEF BroadcastEnds
  <2>2. \A d \in 1..depth : d # depth => d \in 1..depth'
    BY <1>7 DEF BroadcastEnds, AtWork, BrokerOK
  <2>3. todo[depth] = {} /\ at[depth] # v
    BY <1>7, <1>a DEF BroadcastEnds, AtWork
  <2>4. Expected(v) => Expected(v)'
    BY <1>7, <2>2, <2>3 DEF BroadcastEnds, Expected
  <2>5. BeingTold(v) => BeingTold(v)'
    BY <1>7, <2>2, <2>3 DEF BroadcastEnds, BeingTold
  <2> QED BY <1>b, <1>7, <2>1, <2>4, <2>5 DEF BroadcastEnds
<1>8. ASSUME UNCHANGED brokerVars PROVE Caught(v)'
  BY <1>a, <1>b, <1>8 DEF brokerVars, Expected, BeingTold
<1> QED BY <1>1, <1>2, <1>3, <1>4, <1>5, <1>6, <1>7, <1>8 DEF BrokerNext

\* The inductive invariant of the broker.
THEOREM BrokerInvariance == BrokerSpec => []BrokerInv
<1>1. BrokerInv /\ [BrokerNext]_brokerVars => BrokerInv'
  BY BrokerTyped, CarriedByOne, CatchingUp DEF BrokerInv
<1> QED BY InitBroker, <1>1, PTL DEF BrokerSpec

\* Every registered window is in the theme of the process or a broadcast has
\* still to come to it; by the mode it was told, unless a change crossed one.
THEOREM WindowsCatchUp == BrokerSpec => []CaughtUp
<1>1. BrokerInv => CaughtUp
  BY DEF BrokerInv
<1> QED BY BrokerInvariance, <1>1, PTL

\* At rest, then, a registered window that asked has the theme of the process.
THEOREM AtRestAllAgree ==
    BrokerSpec => [](depth = 0 => \A w \in entries \cap alive : heard[w] = current)
<1>1. BrokerInv => (depth = 0 => \A w \in entries \cap alive : heard[w] = current)
  BY DEF BrokerInv, CaughtUp, Expected
<1> QED BY BrokerInvariance, <1>1, PTL

-----------------------------------------------------------------------------
(* The settings sample                                                     *)

SettingsModes == StartThemes \cup {"light", "dark", "system"}
SettingsForms == [text : Nat, boxes : {"defaults", "others"}, category : 0..2]

\* What a save leaves in the file has been cut to the buffer.
SettingsFiles ==
    [kind : {"state"}, text : 0..Settings!BufferLength, boxes : {"defaults", "others"},
     category : 0..2, theme : 0..2]
       \cup {Settings!Absent, Settings!Empty, Settings!Torn}

SettingsWindows ==
    [up : BOOLEAN, saving : BOOLEAN, form : SettingsForms, combo : 0..2,
     mode : SettingsModes, palette : SettingsModes, broker : SettingsModes,
     dirty : BOOLEAN, failed : BOOLEAN, saved : BOOLEAN,
     file : SettingsFiles, asked : SUBSET {"main", "children"}]

SettingsInv == win \in SettingsWindows /\ Settings!CleanIsStored /\ Settings!ThemesAgree

\* Whatever the file, a start finds a form that fits the buffer.
LEMMA RestoredFits ==
  ASSUME NEW file \in SettingsFiles
  PROVE  /\ Settings!Restored(file) \in SettingsForms
         /\ Settings!Restored(file).text <= Settings!BufferLength
<1> USE DEF Settings!BufferLength
<1>1. CASE file.kind = "state"
  <2>1. /\ file.text \in 0..Settings!BufferLength /\ file.theme \in 0..2
        /\ file.boxes \in {"defaults", "others"} /\ file.category \in 0..2
    BY <1>1 DEF SettingsFiles, Settings!Absent, Settings!Empty, Settings!Torn
  <2>2. Settings!Restored(file)
          = [text |-> file.text, boxes |-> file.boxes, category |-> file.category]
    BY <1>1, <2>1 DEF Settings!Restored, Settings!Decodes, Settings!LongestRead
  <2> QED BY <2>1, <2>2 DEF SettingsForms
<1>2. CASE file.kind # "state"
  <2>1. Settings!Restored(file) = Settings!Defaults
    BY <1>2 DEF Settings!Restored, Settings!Decodes
  <2> QED BY <2>1 DEF Settings!Defaults, SettingsForms
<1> QED BY <1>1, <1>2

\* What is gathered from the form is what a start finds, but for what is cut.
LEMMA GatheredIsRestored ==
  ASSUME NEW w \in SettingsWindows
  PROVE  /\ Settings!GatherState(w) \in SettingsFiles
         /\ Settings!Decodes(Settings!GatherState(w))
         /\ Settings!GatherState(w).theme = w.combo
         /\ Settings!Restored(Settings!GatherState(w))
              = [w.form EXCEPT !.text = Settings!Smaller(@, Settings!BufferLength)]
<1> DEFINE n == Settings!Smaller(w.form.text, Settings!BufferLength)
           g == Settings!GatherState(w)
<1>1. /\ w.form \in SettingsForms /\ w.combo \in 0..2
      /\ n \in 0..Settings!BufferLength
  BY DEF SettingsWindows, SettingsForms, Settings!Smaller, Settings!BufferLength
<1>2. g = [kind |-> "state", text |-> n, boxes |-> w.form.boxes,
           category |-> w.form.category, theme |-> w.combo]
  BY DEF Settings!GatherState
<1> HIDE DEF n, g
<1>3. g \in SettingsFiles
  BY <1>1, <1>2 DEF SettingsFiles, SettingsForms
<1>4. /\ Settings!Decodes(g) /\ g.theme = w.combo
      /\ Settings!Restored(g)
           = [text |-> n, boxes |-> w.form.boxes, category |-> w.form.category]
  BY <1>1, <1>2 DEF Settings!Restored, Settings!Decodes, Settings!LongestRead,
                    Settings!BufferLength
<1>5. [w.form EXCEPT !.text = n]
        = [text |-> n, boxes |-> w.form.boxes, category |-> w.form.category]
  BY <1>1 DEF SettingsForms
<1> QED BY <1>3, <1>4, <1>5 DEF n, g

\* The helpers of the handlers: what they change and what they leave.
LEMMA SettingsHelpers ==
  ASSUME NEW w \in SettingsWindows
  PROVE  /\ Settings!Quiet(w) \in SettingsWindows
         /\ Settings!MarkDirty(w) \in SettingsWindows
         /\ Settings!MarkDirty(w).dirty
         /\ \A f \in {"up", "saving", "form", "combo", "mode", "palette", "broker", "failed",
                      "file", "saved"} :
               Settings!Quiet(w)[f] = w[f] /\ Settings!MarkDirty(w)[f] = w[f]
         /\ Settings!Quiet(w).dirty = w.dirty
  BY DEF SettingsWindows, Settings!Quiet, Settings!MarkDirty, Settings!Asking

\* set_theme brings window, palette and broker into one mode.
LEMMA SettingsThemed ==
  ASSUME NEW w \in SettingsWindows, NEW mode \in SettingsModes,
         w.palette = w.mode, w.mode = w.broker
  PROVE  \E asked \in SUBSET {"main", "children"} :
            /\ mode = w.broker \/ asked = {"main", "children"}
            /\ Settings!BrokerSet(w, mode)
                 = [w EXCEPT !.mode = mode, !.palette = mode, !.broker = mode, !.asked = asked]
<1>1. CASE mode = w.broker
  <2>1. w = [w EXCEPT !.mode = mode, !.palette = mode, !.broker = mode, !.asked = w.asked]
    BY <1>1 DEF SettingsWindows
  <2>2. w.asked \in SUBSET {"main", "children"}
    BY DEF SettingsWindows
  <2> QED BY <1>1, <2>1, <2>2 DEF Settings!BrokerSet
<1>2. CASE mode # w.broker
  <2> DEFINE asked == w.asked \cup {"main", "children"}
             v == [w EXCEPT !.broker = mode]
             u == [w EXCEPT !.mode = mode, !.palette = mode, !.broker = mode, !.asked = asked]
  <2>1. Settings!ApplyTheme(v, mode) = u
    BY <1>2 DEF Settings!ApplyTheme, Settings!Asking, SettingsWindows
  <2>2. Settings!ApplyTheme(u, mode) = u
    BY DEF Settings!ApplyTheme, SettingsWindows
  <2>3. Settings!BrokerSet(w, mode) = u
    BY <1>2, <2>1, <2>2 DEF Settings!BrokerSet
  <2>4. asked \in SUBSET {"main", "children"} /\ asked = {"main", "children"}
    BY DEF SettingsWindows
  <2> HIDE DEF asked
  <2> QED BY <2>3, <2>4
<1> QED BY <1>1, <1>2

\* A start, in any theme and with any file, shows what the file holds.
LEMMA StartedFits ==
  ASSUME NEW cli \in StartThemes \cup {Settings!NoTheme}, NEW file \in SettingsFiles,
         NEW w, w = Settings!Started(cli, file)
  PROVE  /\ w \in SettingsWindows /\ ~w.saved
         /\ Settings!Restored(w.file) = [w.form EXCEPT !.text = Settings!Smaller(@, Settings!BufferLength)]
         /\ w.palette = w.mode /\ w.mode = w.broker /\ w.combo = Settings!IndexForMode(w.mode)
<1> DEFINE form == Settings!Restored(file)
           mode == Settings!ParseTheme(cli)
<1>0. mode \in SettingsModes
  BY DEF Settings!ParseTheme, Settings!NoTheme, SettingsModes
<1>1. form \in SettingsForms /\ form.text <= Settings!BufferLength
  BY RestoredFits
<1>2. [form EXCEPT !.text = Settings!Smaller(@, Settings!BufferLength)] = form
  BY <1>1 DEF Settings!Smaller, SettingsForms, Settings!BufferLength
<1> HIDE DEF form, mode
<1>3. w = [up |-> TRUE, saving |-> FALSE, form |-> form, combo |-> Settings!IndexForMode(mode),
           mode |-> mode, palette |-> mode, broker |-> mode, dirty |-> FALSE,
           failed |-> FALSE, saved |-> FALSE, file |-> file, asked |-> {}]
  BY DEF Settings!Started, form, mode
<1>4. w \in SettingsWindows
  BY <1>0, <1>1, <1>3 DEF SettingsWindows, Settings!IndexForMode
<1>5. Settings!Restored(w.file) = form
  BY <1>3 DEF form
<1> QED BY <1>2, <1>3, <1>4, <1>5

\* At first there is no file.
LEMMA SettingsStarted == Settings!Init => SettingsInv
<1> SUFFICES ASSUME Settings!Init PROVE SettingsInv
  OBVIOUS
<1>1. PICK cli \in StartThemes \cup {Settings!NoTheme} :
         win = Settings!Started(cli, Settings!Absent)
  BY DEF Settings!Init
<1>2. Settings!Absent \in SettingsFiles
  BY DEF SettingsFiles
<1> QED BY <1>1, <1>2, StartedFits DEF SettingsInv, Settings!CleanIsStored, Settings!ThemesAgree

\* Every handler, a save that fails at any step and a restart keep the invariant.
LEMMA SettingsStep == SettingsInv /\ Settings!Next => SettingsInv'
<1> SUFFICES ASSUME SettingsInv, Settings!Next PROVE SettingsInv'
  OBVIOUS
<1> DEFINE q == Settings!Quiet(win)
<1>0. /\ win \in SettingsWindows /\ q \in SettingsWindows
      /\ \A f \in {"up", "saving", "form", "combo", "mode", "palette", "broker", "failed",
                   "file", "saved"} : q[f] = win[f]
      /\ q.dirty = win.dirty
      /\ Settings!CleanIsStored /\ Settings!ThemesAgree
  BY SettingsHelpers DEF SettingsInv
<1> HIDE DEF q
\* A change to the form leaves it dirty.
<1>1. ASSUME NEW w \in SettingsWindows, win' = Settings!MarkDirty(w),
             \A f \in {"combo", "mode", "palette", "broker"} : w[f] = win[f]
      PROVE  SettingsInv'
  <2>1. /\ win' \in SettingsWindows /\ win'.dirty
        /\ \A f \in {"combo", "mode", "palette", "broker"} : win'[f] = win[f]
    BY <1>1, SettingsHelpers
  <2> QED BY <1>0, <2>1 DEF SettingsInv, Settings!CleanIsStored, Settings!ThemesAgree
<1>2. CASE Settings!EnterText
  <2>1. PICK n \in Lengths : win' = Settings!MarkDirty([q EXCEPT !.form.text = n])
    BY <1>2 DEF Settings!EnterText, q
  <2>2. [q EXCEPT !.form.text = n] \in SettingsWindows
    <3>1. [q.form EXCEPT !.text = n] \in SettingsForms
      BY <1>0, ProgramAssumption DEF SettingsWindows, SettingsForms
    <3>2. [q EXCEPT !.form = [q.form EXCEPT !.text = n]] \in SettingsWindows
      BY <1>0, <3>1 DEF SettingsWindows
    <3>3. [q EXCEPT !.form.text = n] = [q EXCEPT !.form = [q.form EXCEPT !.text = n]]
      BY <1>0 DEF SettingsWindows
    <3> QED BY <3>2, <3>3
  <2>3. \A f \in {"combo", "mode", "palette", "broker"} : [q EXCEPT !.form.text = n][f] = win[f]
    BY <1>0 DEF SettingsWindows
  <2> QED BY <1>1, <2>1, <2>2, <2>3
<1>3. CASE Settings!ClickBox
  <2> DEFINE boxes == IF q.form.boxes = "defaults" THEN "others" ELSE "defaults"
             w == [q EXCEPT !.form = [q.form EXCEPT !.boxes = boxes]]
  <2>1. win' = Settings!MarkDirty(w)
    BY <1>0, <1>3 DEF Settings!ClickBox, q, SettingsWindows, SettingsForms
  <2>2. w \in SettingsWindows
    <3>1. [q.form EXCEPT !.boxes = boxes] \in SettingsForms
      BY <1>0 DEF SettingsWindows, SettingsForms
    <3> QED BY <1>0, <3>1 DEF SettingsWindows
  <2>3. \A f \in {"combo", "mode", "palette", "broker"} : w[f] = win[f]
    BY <1>0 DEF SettingsWindows
  <2> QED BY <1>1, <2>1, <2>2, <2>3
<1>4. CASE Settings!SelectCategory
  <2>1. PICK c \in 0..2 : win' = Settings!MarkDirty([q EXCEPT !.form.category = c])
    BY <1>4 DEF Settings!SelectCategory, q
  <2> DEFINE w == [q EXCEPT !.form = [q.form EXCEPT !.category = c]]
  <2>2. w \in SettingsWindows
    <3>1. [q.form EXCEPT !.category = c] \in SettingsForms
      BY <1>0 DEF SettingsWindows, SettingsForms
    <3> QED BY <1>0, <3>1 DEF SettingsWindows
  <2>3. \A f \in {"combo", "mode", "palette", "broker"} : w[f] = win[f]
    BY <1>0 DEF SettingsWindows
  <2>4. win' = Settings!MarkDirty(w)
    BY <1>0, <2>1 DEF SettingsWindows
  <2> QED BY <1>1, <2>2, <2>3, <2>4
<1>5. CASE Settings!PickTheme
  <2>1. PICK index \in 0..2 : win' = Settings!SegmentClick(q, index)
    BY <1>5 DEF Settings!PickTheme, q
  <2>2. CASE index = q.combo
    BY <1>0, <2>1, <2>2 DEF Settings!SegmentClick, SettingsInv, Settings!CleanIsStored,
                            Settings!ThemesAgree
  <2>3. CASE index # q.combo
    <3> DEFINE w == [q EXCEPT !.combo = index]
               mode == Settings!ModeForIndex(index)
    <3>1. /\ w \in SettingsWindows /\ mode \in SettingsModes
          /\ w.palette = w.mode /\ w.mode = w.broker
      BY <1>0 DEF SettingsWindows, SettingsModes, Settings!ModeForIndex, Settings!ThemesAgree
    <3>2. index = Settings!IndexForMode(mode)
      BY DEF Settings!ModeForIndex, Settings!IndexForMode
    <3>3. win' = Settings!MarkDirty(Settings!BrokerSet(w, mode))
      BY <2>1, <2>3 DEF Settings!SegmentClick
    <3>4. w.combo = index
      BY <1>0 DEF SettingsWindows
    <3> HIDE DEF w, mode
    <3>5. PICK asked \in SUBSET {"main", "children"} :
             Settings!BrokerSet(w, mode)
               = [w EXCEPT !.mode = mode, !.palette = mode, !.broker = mode, !.asked = asked]
      BY <3>1, SettingsThemed
    <3> DEFINE v == Settings!BrokerSet(w, mode)
    <3>6. /\ v \in SettingsWindows
          /\ v.combo = index /\ v.mode = mode /\ v.palette = mode /\ v.broker = mode
      BY <3>1, <3>4, <3>5 DEF SettingsWindows
    <3>7. /\ win' \in SettingsWindows /\ win'.dirty
          /\ win'.combo = index /\ win'.mode = mode /\ win'.palette = mode /\ win'.broker = mode
      BY <3>3, <3>6, SettingsHelpers
    <3> QED BY <3>2, <3>7 DEF SettingsInv, Settings!CleanIsStored, Settings!ThemesAgree
  <2> QED BY <2>2, <2>3
<1>6. CASE Settings!ThemeChanged
  <2>1. win' = q
    BY <1>0, <1>6 DEF Settings!ThemeChanged, Settings!ApplyTheme, Settings!ThemesAgree, q
  <2> QED BY <1>0, <2>1 DEF SettingsInv, Settings!CleanIsStored, Settings!ThemesAgree
<1>7. CASE Settings!SaveRefused \/ Settings!SaveTruncates \/ Settings!SaveFails
  <2>1. CASE win' = Settings!Cleaned([q EXCEPT !.failed = TRUE])
    <3>1. /\ win' \in SettingsWindows /\ win'.failed
          /\ \A f \in {"combo", "mode", "palette", "broker"} : win'[f] = win[f]
      BY <1>0, <2>1 DEF Settings!Cleaned, Settings!Asking, SettingsWindows
    <3> QED BY <1>0, <3>1 DEF SettingsInv, Settings!CleanIsStored, Settings!ThemesAgree
  <2>2. CASE win' = [q EXCEPT !.saving = TRUE, !.file = Settings!Empty]
    <3>1. /\ win' \in SettingsWindows /\ win'.saving
          /\ \A f \in {"combo", "mode", "palette", "broker"} : win'[f] = win[f]
      BY <1>0, <2>2 DEF SettingsWindows, SettingsFiles
    <3> QED BY <1>0, <3>1 DEF SettingsInv, Settings!CleanIsStored, Settings!ThemesAgree
  <2>3. ASSUME NEW file \in {Settings!Empty, Settings!Torn},
               win' = Settings!Cleaned([q EXCEPT !.file = file, !.failed = TRUE])
        PROVE  SettingsInv'
    <3>1. file \in SettingsFiles
      BY DEF SettingsFiles
    <3>2. /\ win' \in SettingsWindows /\ win'.failed
          /\ \A f \in {"combo", "mode", "palette", "broker"} : win'[f] = win[f]
      BY <1>0, <2>3, <3>1 DEF Settings!Cleaned, Settings!Asking, SettingsWindows
    <3> QED BY <1>0, <3>2 DEF SettingsInv, Settings!CleanIsStored, Settings!ThemesAgree
  <2> QED BY <1>7, <2>1, <2>2, <2>3 DEF Settings!SaveRefused, Settings!SaveTruncates,
                                        Settings!SaveFails, q
<1>8. CASE Settings!SaveWrites
  <2> DEFINE g == Settings!GatherState(win)
  <2>1. /\ g \in SettingsFiles /\ Settings!Decodes(g) /\ g.theme = win.combo
        /\ Settings!Restored(g)
             = [win.form EXCEPT !.text = Settings!Smaller(@, Settings!BufferLength)]
    BY <1>0, GatheredIsRestored
  <2> HIDE DEF g
  <2>2. win' = Settings!Cleaned([q EXCEPT !.file = g, !.failed = FALSE, !.saved = TRUE])
    BY <1>8 DEF Settings!SaveWrites, g, q
  <2>3. /\ win' \in SettingsWindows /\ win'.file = g /\ win'.form = win.form
        /\ \A f \in {"combo", "mode", "palette", "broker"} : win'[f] = win[f]
    BY <1>0, <2>1, <2>2 DEF Settings!Cleaned, Settings!Asking, SettingsWindows
  <2> QED BY <1>0, <2>1, <2>3 DEF SettingsInv, Settings!CleanIsStored, Settings!ThemesAgree
<1>9. CASE Settings!Crash
  <2>1. PICK file \in {Settings!Empty, Settings!Torn, Settings!GatherState(win), win.file} :
           win' = [q EXCEPT !.up = FALSE, !.saving = FALSE, !.file = file]
    BY <1>9 DEF Settings!Crash, q
  <2>2. file \in SettingsFiles
    BY <1>0, GatheredIsRestored DEF SettingsFiles, SettingsWindows
  <2>3. /\ win' \in SettingsWindows /\ ~win'.up
        /\ \A f \in {"combo", "mode", "palette", "broker"} : win'[f] = win[f]
    BY <1>0, <2>1, <2>2 DEF SettingsWindows
  <2> QED BY <1>0, <2>3 DEF SettingsInv, Settings!CleanIsStored, Settings!ThemesAgree
<1>10. CASE Settings!Restart
  <2>1. PICK cli \in StartThemes \cup {Settings!NoTheme} :
           win' = Settings!Started(cli, win.file)
    BY <1>10 DEF Settings!Restart
  <2>2. win.file \in SettingsFiles
    BY DEF SettingsInv, SettingsWindows
  <2> QED BY <2>1, <2>2, StartedFits DEF SettingsInv, Settings!CleanIsStored, Settings!ThemesAgree
<1> QED BY <1>2, <1>3, <1>4, <1>5, <1>6, <1>7, <1>8, <1>9, <1>10 DEF Settings!Next

\* What a handler changes on a surface it asks to repaint, while the process runs.
LEMMA SettingsRepaints == SettingsInv /\ Settings!Next => Settings!Repainted
<1> SUFFICES ASSUME SettingsInv, Settings!Next, win.up, win'.up PROVE Settings!Repainted
  BY DEF Settings!Repainted
<1> DEFINE q == Settings!Quiet(win)
           Same(fields) == \A f \in fields : win'[f] = win[f]
<1>0. /\ win \in SettingsWindows /\ q \in SettingsWindows
      /\ \A f \in {"up", "saving", "form", "combo", "mode", "palette", "broker", "failed",
                   "file", "saved"} : q[f] = win[f]
      /\ q.dirty = win.dirty /\ Settings!ThemesAgree
  BY SettingsHelpers DEF SettingsInv
<1> HIDE DEF q
<1>1. ASSUME win'.palette = win.palette,
             "main" \in win'.asked \/ Same({"dirty", "form", "mode", "combo"})
      PROVE  Settings!Repainted
  BY <1>1 DEF Settings!Repainted, Settings!Face, Settings!HeaderFace, Settings!SidebarFace,
              Settings!CardFace, Settings!SegmentsFace
<1>2. CASE Settings!EnterText \/ Settings!ClickBox \/ Settings!SelectCategory
  <2>1. \E form : win' = Settings!MarkDirty([q EXCEPT !.form = form])
    <3>1. CASE Settings!EnterText
      <4>1. PICK n \in Lengths : win' = Settings!MarkDirty([q EXCEPT !.form.text = n])
        BY <3>1 DEF Settings!EnterText, q
      <4>2. [q EXCEPT !.form.text = n] = [q EXCEPT !.form = [q.form EXCEPT !.text = n]]
        BY <1>0 DEF SettingsWindows
      <4> QED BY <4>1, <4>2
    <3>2. CASE Settings!ClickBox
      <4>1. PICK boxes : win' = Settings!MarkDirty([q EXCEPT !.form.boxes = boxes])
        BY <1>0, <3>2 DEF Settings!ClickBox, SettingsWindows, q
      <4>2. [q EXCEPT !.form.boxes = boxes] = [q EXCEPT !.form = [q.form EXCEPT !.boxes = boxes]]
        BY <1>0 DEF SettingsWindows
      <4> QED BY <4>1, <4>2
    <3>3. CASE Settings!SelectCategory
      <4>1. PICK c : win' = Settings!MarkDirty([q EXCEPT !.form.category = c])
        BY <3>3 DEF Settings!SelectCategory, q
      <4>2. [q EXCEPT !.form.category = c] = [q EXCEPT !.form = [q.form EXCEPT !.category = c]]
        BY <1>0 DEF SettingsWindows
      <4> QED BY <4>1, <4>2
    <3> QED BY <1>2, <3>1, <3>2, <3>3
  <2>2. win'.palette = win.palette /\ "main" \in win'.asked
    BY <1>0, <2>1 DEF Settings!MarkDirty, Settings!Asking, SettingsWindows
  <2> QED BY <1>1, <2>2
<1>3. CASE Settings!PickTheme
  <2>1. PICK index \in 0..2 : win' = Settings!SegmentClick(q, index)
    BY <1>3 DEF Settings!PickTheme, q
  <2>2. CASE index = q.combo
    <3>1. win' = q
      BY <2>1, <2>2 DEF Settings!SegmentClick
    <3> QED BY <1>0, <1>1, <3>1
  <2>3. CASE index # q.combo
    <3> DEFINE w == [q EXCEPT !.combo = index]
               mode == Settings!ModeForIndex(index)
    <3>1. /\ w \in SettingsWindows /\ mode \in SettingsModes /\ w.palette = w.mode /\ w.mode = w.broker
          /\ w.palette = win.palette
      BY <1>0 DEF SettingsWindows, SettingsModes, Settings!ModeForIndex, Settings!ThemesAgree
    <3>2. win' = Settings!MarkDirty(Settings!BrokerSet(w, mode))
      BY <2>1, <2>3 DEF Settings!SegmentClick
    <3> HIDE DEF w, mode
    <3>3. PICK asked \in SUBSET {"main", "children"} :
             /\ mode = w.broker \/ asked = {"main", "children"}
             /\ Settings!BrokerSet(w, mode)
                  = [w EXCEPT !.mode = mode, !.palette = mode, !.broker = mode, !.asked = asked]
      BY <3>1, SettingsThemed
    <3>4. win'.palette = mode /\ "main" \in win'.asked /\ asked \subseteq win'.asked
      BY <3>1, <3>2, <3>3 DEF Settings!MarkDirty, Settings!Asking, SettingsWindows
    <3>5. CASE mode = w.broker
      BY <1>1, <3>1, <3>4, <3>5
    <3>6. CASE asked = {"main", "children"}
      <4>1. {"main", "children"} \subseteq win'.asked
        BY <3>4, <3>6
      <4> QED BY <4>1 DEF Settings!Repainted
    <3> QED BY <3>3, <3>5, <3>6
  <2> QED BY <2>2, <2>3
<1>4. CASE Settings!ThemeChanged
  <2>1. win' = q
    BY <1>0, <1>4 DEF Settings!ThemeChanged, Settings!ApplyTheme, Settings!ThemesAgree, q
  <2> QED BY <1>0, <1>1, <2>1
<1>5. CASE \/ Settings!SaveRefused \/ Settings!SaveTruncates \/ Settings!SaveFails
           \/ Settings!SaveWrites
  <2>1. CASE win' = [q EXCEPT !.saving = TRUE, !.file = Settings!Empty]
    <3>1. win'.palette = win.palette /\ Same({"dirty", "form", "mode", "combo"})
      BY <1>0, <2>1 DEF SettingsWindows
    <3> QED BY <1>1, <3>1
  <2>2. ASSUME NEW file, NEW failed, NEW saved,
               win' = Settings!Cleaned([q EXCEPT !.file = file, !.failed = failed, !.saved = saved])
        PROVE  Settings!Repainted
    <3>1. win'.palette = win.palette /\ "main" \in win'.asked
      BY <1>0, <2>2 DEF Settings!Cleaned, Settings!Asking, SettingsWindows
    <3> QED BY <1>1, <3>1
  <2>3. CASE Settings!SaveRefused
    <3>1. win' = Settings!Cleaned([q EXCEPT !.failed = TRUE])
      BY <2>3 DEF Settings!SaveRefused, q
    <3>2. [q EXCEPT !.failed = TRUE] = [q EXCEPT !.file = q.file, !.failed = TRUE, !.saved = q.saved]
      BY <1>0 DEF SettingsWindows
    <3> QED BY <2>2, <3>1, <3>2
  <2>4. CASE Settings!SaveFails
    <3>1. PICK file : win' = Settings!Cleaned([q EXCEPT !.file = file, !.failed = TRUE])
      BY <2>4 DEF Settings!SaveFails, q
    <3>2. [q EXCEPT !.file = file, !.failed = TRUE]
            = [q EXCEPT !.file = file, !.failed = TRUE, !.saved = q.saved]
      BY <1>0 DEF SettingsWindows
    <3> QED BY <2>2, <3>1, <3>2
  <2>5. CASE Settings!SaveTruncates
    BY <2>1, <2>5 DEF Settings!SaveTruncates, q
  <2>6. CASE Settings!SaveWrites
    BY <2>2, <2>6 DEF Settings!SaveWrites, q
  <2> QED BY <1>5, <2>3, <2>4, <2>5, <2>6
<1>6. CASE Settings!Crash
  BY <1>0, <1>6 DEF Settings!Crash, SettingsWindows, q
<1>7. CASE Settings!Restart
  BY <1>7 DEF Settings!Restart
<1> QED BY <1>2, <1>3, <1>4, <1>5, <1>6, <1>7 DEF Settings!Next

-----------------------------------------------------------------------------
(* The tiles of the playground                                             *)

TileOrNone == 0..4 \cup {-1}
TileWindows ==
    [pointer : TileOrNone, capture : TileOrNone, focus : TileOrNone,
     hover : SUBSET (0..4), tracking : SUBSET (0..4), pressed : SUBSET (0..4),
     told : TileOrNone, acts : Int, status : [focus : TileOrNone, acts : Int],
     asked : SUBSET (0..5)]

TileInv ==
    /\ win \in TileWindows
    /\ Tile!PressIsHeld /\ Tile!HoverEnds /\ Tile!StatusIsTrue

\* A tile that loses the focus is not pressed any more.
LEMMA TileLeft ==
  ASSUME NEW w \in TileWindows
  PROVE  /\ Tile!KillFocus(w) \in TileWindows
         /\ Tile!KillFocus(w).pressed = w.pressed \ {w.focus}
         /\ \A f \in {"pointer", "capture", "hover", "tracking", "told", "acts", "status"} :
               Tile!KillFocus(w)[f] = w[f]
         /\ Tile!KillFocus(w).hover = w.hover /\ Tile!KillFocus(w).status = w.status
         /\ w.focus # -1 => w.focus \in Tile!KillFocus(w).asked
<1>1. CASE w.focus = -1
  BY <1>1 DEF Tile!KillFocus, Tile!None, TileWindows
<1>2. CASE w.focus # -1
  <2>1. /\ w.focus \in 0..4 /\ w.asked \cup {w.focus} \in SUBSET (0..5)
        /\ w.pressed \ {w.focus} \in SUBSET (0..4)
    BY <1>2 DEF TileWindows, TileOrNone
  <2>2. Tile!KillFocus(w) = [w EXCEPT !.pressed = w.pressed \ {w.focus},
                                      !.asked = w.asked \cup {w.focus}]
    BY <1>2 DEF Tile!KillFocus, Tile!None, Tile!Asking, TileWindows
  <2> QED BY <2>1, <2>2 DEF TileWindows
<1> QED BY <1>1, <1>2

\* A tile that takes the focus is told so, and so is the status bar.
LEMMA TileFocused ==
  ASSUME NEW w \in TileWindows, NEW t \in Tile!Tiles
  PROVE  /\ Tile!SetFocus(w, t) \in TileWindows
         /\ Tile!SetFocus(w, t).focus = t
         /\ Tile!SetFocus(w, t).capture = w.capture
         /\ Tile!SetFocus(w, t).hover = w.hover /\ Tile!SetFocus(w, t).tracking = w.tracking
         /\ w.focus # t => /\ Tile!SetFocus(w, t).pressed = w.pressed \ {w.focus}
                           /\ Tile!SetFocus(w, t).told = t
                           /\ Tile!SetFocus(w, t).acts = w.acts
                           /\ Tile!SetFocus(w, t).status = [focus |-> t, acts |-> w.acts]
         /\ w.focus = t => Tile!SetFocus(w, t) = w
<1>1. CASE w.focus = t
  BY <1>1 DEF Tile!SetFocus
<1>2. CASE w.focus # t
  <2> DEFINE k == Tile!KillFocus(w)
             bar == [focus |-> t, acts |-> k.acts]
             asked == (k.asked \cup {5}) \cup {t}
  <2>1. /\ k \in TileWindows /\ k.pressed = w.pressed \ {w.focus} /\ k.acts = w.acts
        /\ \A f \in {"pointer", "capture", "hover", "tracking"} : k[f] = w[f]
    BY TileLeft
  <2>2. Tile!SetFocus(w, t) = Tile!Asking(Tile!RefreshStatus([k EXCEPT !.focus = t, !.told = t]), t)
    BY <1>2 DEF Tile!SetFocus
  <2> HIDE DEF k
  <2>3. Tile!SetFocus(w, t) = [k EXCEPT !.focus = t, !.told = t, !.status = bar, !.asked = asked]
    BY <2>1, <2>2 DEF Tile!Asking, Tile!RefreshStatus, Tile!StatusBar, TileWindows
  <2>4. /\ bar \in [focus : TileOrNone, acts : Int] /\ asked \in SUBSET (0..5)
        /\ t \in TileOrNone
    BY <2>1 DEF TileWindows, TileOrNone, Tile!Tiles
  <2> HIDE DEF asked
  <2>5. Tile!SetFocus(w, t) \in TileWindows
    BY <2>1, <2>3, <2>4 DEF TileWindows
  <2> QED BY <1>2, <2>1, <2>3, <2>5 DEF TileWindows
<1> QED BY <1>1, <1>2

\* Both tiles and the status bar are painted again.
LEMMA TileFocusAsked ==
  ASSUME NEW w \in TileWindows, NEW t \in Tile!Tiles, w.focus # t
  PROVE  /\ t \in Tile!SetFocus(w, t).asked /\ 5 \in Tile!SetFocus(w, t).asked
         /\ w.focus # -1 => w.focus \in Tile!SetFocus(w, t).asked
<1> DEFINE k == Tile!KillFocus(w)
<1>1. k \in TileWindows /\ (w.focus # -1 => w.focus \in k.asked)
  BY TileLeft
<1>2. Tile!SetFocus(w, t) = Tile!Asking(Tile!RefreshStatus([k EXCEPT !.focus = t, !.told = t]), t)
  BY DEF Tile!SetFocus
<1> HIDE DEF k
<1> QED BY <1>1, <1>2 DEF Tile!Asking, Tile!RefreshStatus, Tile!StatusBar, TileWindows

\* The keys skip the disabled tile.
LEMMA TileSkipped ==
  ASSUME NEW w \in TileWindows, NEW delta \in {-1, 1}, w.focus \in 0..4
  PROVE  \E t \in Tile!Tiles : t # 3 /\ Tile!MoveTileFocus(w, delta) = Tile!SetFocus(w, t)
<1> DEFINE Next0(step) == (w.focus + delta * step + 5) % 5
           Good(step) == /\ Next0(step) # 3
                         /\ \A earlier \in 1..(step - 1) : Next0(earlier) = 3
           first == CHOOSE step \in 1..5 : Good(step)
<1>1. \E step \in 1..5 : Good(step)
  <2>1. CASE Next0(1) # 3
    BY <2>1
  <2>2. CASE Next0(1) = 3
    <3>1. Next0(2) # 3
      BY <2>2
    <3>2. \A earlier \in 1..(2 - 1) : earlier = 1
      OBVIOUS
    <3> HIDE DEF Next0
    <3> QED BY <2>2, <3>1, <3>2
  <2> QED BY <2>1, <2>2
<1>2. first \in 1..5 /\ Good(first)
  <2> HIDE DEF Good
  <2> QED BY <1>1
<1>3. Next0(first) \in 0..4 /\ Next0(first) # 3
  <2> HIDE DEF first
  <2> QED BY <1>2
<1>4. Tile!MoveTileFocus(w, delta) = Tile!SetFocus(w, Next0(first))
  BY DEF Tile!MoveTileFocus, Tile!Locked
<1> HIDE DEF Next0, first
<1> QED BY <1>3, <1>4 DEF Tile!Tiles

\* Every message of the mouse, every key and every loss of the focus.
LEMMA TileStep == TileInv /\ Tile!Next => TileInv'
<1> SUFFICES ASSUME TileInv, Tile!Next PROVE TileInv'
  OBVIOUS
<1> DEFINE q == Tile!Quiet(win)
<1>0. /\ win \in TileWindows /\ q \in TileWindows
      /\ \A f \in {"pointer", "capture", "focus", "hover", "tracking", "pressed", "told", "acts", "status"} :
            q[f] = win[f]
      /\ win.pressed \subseteq {win.focus}
      /\ 3 \notin win.pressed /\ 3 \notin win.hover /\ win.focus # 3 /\ win.capture # 3
      /\ win.hover \subseteq win.tracking
      /\ win.status = [focus |-> win.told, acts |-> win.acts]
      /\ win.focus \in {-1, win.told}
  BY DEF TileInv, TileWindows, Tile!Quiet, Tile!PressIsHeld, Tile!HoverEnds, Tile!StatusIsTrue,
         Tile!Locked, Tile!None
<1> HIDE DEF q
<1> USE DEF TileInv, Tile!PressIsHeld, Tile!HoverEnds, Tile!StatusIsTrue, Tile!Locked, Tile!None
<1>1. CASE Tile!MouseMove
  <2>1. PICK t \in 0..4 \cup {-1} :
           LET w == [q EXCEPT !.pointer = t]
           IN win' = IF Tile!Target(w) = -1 THEN w
                     ELSE Tile!Asking([w EXCEPT !.hover = @ \cup {Tile!Target(w)},
                                                !.tracking = @ \cup {Tile!Target(w)}], Tile!Target(w))
    BY <1>1 DEF Tile!MouseMove, Tile!Tiles, q
  <2> DEFINE w == [q EXCEPT !.pointer = t]
             h == Tile!Target(w)
  <2>2. w \in TileWindows
    BY <1>0 DEF TileWindows, TileOrNone
  <2>3. h \in TileOrNone /\ h # 3
    BY <1>0, <2>2 DEF Tile!Target, TileWindows, TileOrNone
  <2>4. \A f \in {"capture", "focus", "hover", "tracking", "pressed", "told", "acts", "status"} : w[f] = win[f]
    BY <1>0 DEF TileWindows
  <2>5. h = -1 => win' = w
    BY <2>1
  <2>6. h # -1 => win' = [w EXCEPT !.hover = w.hover \cup {h}, !.tracking = w.tracking \cup {h},
                                   !.asked = w.asked \cup {h}]
    BY <2>1, <2>2 DEF Tile!Asking, TileWindows
  <2> HIDE DEF w, h
  <2>7. CASE h = -1
    BY <1>0, <2>2, <2>4, <2>5, <2>7
  <2>8. CASE h # -1
    <3>1. /\ w.hover \cup {h} \in SUBSET (0..4) /\ w.tracking \cup {h} \in SUBSET (0..4)
          /\ w.asked \cup {h} \in SUBSET (0..5)
      BY <2>2, <2>3, <2>8 DEF TileWindows, TileOrNone
    <3>2. win' \in TileWindows
      BY <2>2, <2>6, <2>8, <3>1 DEF TileWindows
    <3>3. /\ win'.hover = w.hover \cup {h} /\ win'.tracking = w.tracking \cup {h}
          /\ \A f \in {"capture", "focus", "pressed", "told", "acts", "status"} : win'[f] = w[f]
      BY <2>2, <2>6, <2>8 DEF TileWindows
    <3> QED BY <1>0, <2>3, <2>4, <3>2, <3>3
  <2> QED BY <2>7, <2>8
<1>2. CASE Tile!MouseLeave
  <2>1. PICK t \in win.tracking :
           win' = Tile!Asking([q EXCEPT !.hover = @ \ {t}, !.tracking = @ \ {t}], t)
    BY <1>2 DEF Tile!MouseLeave, q
  <2>2. /\ q.hover \ {t} \in SUBSET (0..4) /\ q.tracking \ {t} \in SUBSET (0..4)
        /\ q.asked \cup {t} \in SUBSET (0..5)
    BY <1>0 DEF TileWindows
  <2>3. win' = [q EXCEPT !.hover = q.hover \ {t}, !.tracking = q.tracking \ {t},
                         !.asked = q.asked \cup {t}]
    BY <1>0, <2>1 DEF Tile!Asking, TileWindows
  <2>4. win' \in TileWindows
    BY <1>0, <2>2, <2>3 DEF TileWindows
  <2>5. /\ win'.hover = win.hover \ {t} /\ win'.tracking = win.tracking \ {t}
        /\ \A f \in {"capture", "focus", "pressed", "told", "acts", "status"} : win'[f] = win[f]
    BY <1>0, <2>3 DEF TileWindows
  <2> QED BY <1>0, <2>4, <2>5
<1>3. CASE Tile!LButtonDown
  <2> DEFINE t == Tile!Target(win)
             w == [q EXCEPT !.pressed = q.pressed \cup {t}]
             s == Tile!SetFocus(w, t)
  <2>1. t \in 0..4 /\ t \in Tile!Tiles /\ t # 3
    BY <1>0, <1>3 DEF Tile!LButtonDown, Tile!Target, Tile!Tiles, TileWindows, TileOrNone
  <2>2. win' = Tile!Asking([s EXCEPT !.capture = t], t)
    BY <1>0, <1>3 DEF Tile!LButtonDown, q, TileWindows
  <2> HIDE DEF t
  <2>3. q.pressed \cup {t} \in SUBSET (0..4)
    BY <1>0, <2>1 DEF TileWindows
  <2>4. /\ w \in TileWindows /\ w.pressed = q.pressed \cup {t}
        /\ \A f \in {"pointer", "capture", "focus", "hover", "tracking", "told", "acts", "status"} : w[f] = win[f]
    BY <1>0, <2>3 DEF TileWindows
  <2> HIDE DEF w
  <2>5. /\ s \in TileWindows /\ s.focus = t
        /\ s.hover = win.hover /\ s.tracking = win.tracking
        /\ s.pressed \subseteq {t}
        /\ s.status = [focus |-> s.told, acts |-> s.acts]
        /\ s.told = t
    <3>1. s \in TileWindows /\ s.focus = t /\ s.hover = win.hover /\ s.tracking = win.tracking
      <4>1. w \in TileWindows /\ w.hover = win.hover /\ w.tracking = win.tracking
        BY <2>4
      <4>2. s \in TileWindows /\ s.focus = t /\ s.hover = w.hover /\ s.tracking = w.tracking
        BY <2>1, <4>1, TileFocused
      <4> QED BY <4>1, <4>2
    <3>2. CASE w.focus # t
      <4>1. /\ s.pressed = w.pressed \ {w.focus} /\ s.told = t /\ s.acts = w.acts
            /\ s.status = [focus |-> t, acts |-> w.acts]
        BY <2>1, <2>4, <3>2, TileFocused
      <4> QED BY <1>0, <2>4, <3>1, <4>1
    <3>3. CASE w.focus = t
      <4>1. s = w
        BY <2>1, <2>4, <3>3, TileFocused
      <4> QED BY <1>0, <2>1, <2>4, <3>1, <3>3, <4>1
    <3> QED BY <3>2, <3>3
  <2> HIDE DEF s
  <2>6. t \in TileOrNone /\ s.asked \cup {t} \in SUBSET (0..5)
    BY <2>1, <2>5 DEF TileWindows, TileOrNone
  <2>7. win' = [s EXCEPT !.capture = t, !.asked = s.asked \cup {t}]
    BY <2>2, <2>5 DEF Tile!Asking, TileWindows
  <2>8. /\ win' \in TileWindows /\ win'.capture = t
        /\ \A f \in {"focus", "hover", "tracking", "pressed", "told", "acts", "status"} : win'[f] = s[f]
    BY <2>5, <2>6, <2>7 DEF TileWindows
  <2> QED BY <1>0, <2>1, <2>5, <2>8
<1>4. CASE Tile!LButtonUp
  <2> DEFINE t == Tile!Target(win)
             w == [q EXCEPT !.pressed = q.pressed \ {t}, !.capture = -1]
  <2>1. t \in 0..4
    BY <1>0, <1>4 DEF Tile!LButtonUp, Tile!Target, TileWindows, TileOrNone
  <2>2. win' = Tile!Asking(IF t \in win.pressed THEN Tile!Activated(w) ELSE w, t)
    BY <1>0, <1>4 DEF Tile!LButtonUp, q, TileWindows
  <2> HIDE DEF t
  <2>3. w \in TileWindows /\ w.pressed = q.pressed \ {t} /\ w.capture = -1
        /\ \A f \in {"focus", "hover", "tracking", "told", "acts", "status"} : w[f] = win[f]
    BY <1>0 DEF TileWindows, TileOrNone
  <2> HIDE DEF w
  <2>4. CASE t \in win.pressed
    <3> DEFINE bar == [focus |-> w.told, acts |-> w.acts + 1]
    <3>1. win' = [w EXCEPT !.acts = w.acts + 1, !.status = bar, !.asked = (w.asked \cup {5}) \cup {t}]
      BY <2>2, <2>3, <2>4 DEF Tile!Activated, Tile!RefreshStatus, Tile!StatusBar, Tile!Asking, TileWindows
    <3>2. /\ w.acts + 1 \in Int /\ bar \in [focus : TileOrNone, acts : Int]
          /\ (w.asked \cup {5}) \cup {t} \in SUBSET (0..5)
      BY <2>1, <2>3 DEF TileWindows
    <3>3. win' \in TileWindows
      BY <2>3, <3>1, <3>2 DEF TileWindows
    <3>4. /\ win'.status = bar /\ win'.acts = w.acts + 1
          /\ \A f \in {"pressed", "capture", "focus", "hover", "tracking", "told"} : win'[f] = w[f]
      BY <2>3, <3>1 DEF TileWindows
    <3> QED BY <1>0, <2>3, <3>3, <3>4
  <2>5. CASE t \notin win.pressed
    <3>1. win' = [w EXCEPT !.asked = w.asked \cup {t}]
      BY <2>2, <2>3, <2>5 DEF Tile!Asking, TileWindows
    <3>2. w.asked \cup {t} \in SUBSET (0..5)
      BY <2>1, <2>3 DEF TileWindows
    <3>3. win' \in TileWindows
      BY <2>3, <3>1, <3>2 DEF TileWindows
    <3>4. \A f \in {"pressed", "capture", "focus", "hover", "tracking", "told", "acts", "status"} : win'[f] = w[f]
      BY <2>3, <3>1 DEF TileWindows
    <3> QED BY <1>0, <2>3, <3>3, <3>4
  <2> QED BY <2>4, <2>5
<1>5. CASE Tile!MoveKey
  <2>1. PICK delta \in {-1, 1} : win' = Tile!MoveTileFocus(q, delta)
    BY <1>5 DEF Tile!MoveKey, q
  <2>2. q.focus \in 0..4
    BY <1>0, <1>5 DEF Tile!MoveKey, TileWindows, TileOrNone
  <2>3. PICK t \in Tile!Tiles : t # 3 /\ win' = Tile!SetFocus(q, t)
    BY <1>0, <2>1, <2>2, TileSkipped
  <2>4. /\ win' \in TileWindows /\ win'.focus = t /\ win'.capture = win.capture
        /\ win'.hover = win.hover /\ win'.tracking = win.tracking
    <3>1. /\ q.capture = win.capture
          /\ q.hover = win.hover /\ q.tracking = win.tracking
      BY <1>0
    <3>2. /\ win' \in TileWindows /\ win'.focus = t /\ win'.capture = q.capture
          /\ win'.hover = q.hover /\ win'.tracking = q.tracking
      BY <1>0, <2>3, TileFocused
    <3> QED BY <3>1, <3>2
  <2>5. CASE q.focus # t
    <3>1. /\ win'.pressed = win.pressed \ {win.focus} /\ win'.told = t
          /\ win'.acts = win.acts /\ win'.status = [focus |-> t, acts |-> win.acts]
      BY <1>0, <2>3, <2>5, TileFocused
    <3>2. win'.pressed \subseteq {t} /\ 3 \notin win'.pressed /\ t # 3
      BY <1>0, <2>3, <3>1
    <3> QED BY <1>0, <2>4, <3>1, <3>2
  <2>6. CASE q.focus = t
    <3>1. win' = q
      BY <1>0, <2>3, <2>6, TileFocused
    <3> QED BY <1>0, <3>1
  <2> QED BY <2>5, <2>6
<1>6. CASE Tile!PressKey
  <2>1. win' = Tile!Asking([q EXCEPT !.pressed = @ \cup {win.focus}], win.focus)
    BY <1>6 DEF Tile!PressKey, q
  <2>2. win.focus \in 0..4
    BY <1>0, <1>6 DEF Tile!PressKey, TileWindows, TileOrNone
  <2>3. win' = [q EXCEPT !.pressed = q.pressed \cup {win.focus}, !.asked = q.asked \cup {win.focus}]
    BY <1>0, <2>1 DEF Tile!Asking, TileWindows
  <2>4. q.pressed \cup {win.focus} \in SUBSET (0..4) /\ q.asked \cup {win.focus} \in SUBSET (0..5)
    BY <1>0, <2>2 DEF TileWindows
  <2>5. win' \in TileWindows
    BY <1>0, <2>3, <2>4 DEF TileWindows
  <2>6. /\ win'.pressed = win.pressed \cup {win.focus}
        /\ \A f \in {"capture", "focus", "hover", "tracking", "told", "acts", "status"} : win'[f] = win[f]
    BY <1>0, <2>3 DEF TileWindows
  <2> QED BY <1>0, <2>5, <2>6
<1>7. CASE Tile!ReleaseKey
  <2> DEFINE bar == [focus |-> win.told, acts |-> win.acts + 1]
  <2>1. win' = Tile!Asking(Tile!Activated([q EXCEPT !.pressed = @ \ {win.focus}]), win.focus)
    BY <1>7 DEF Tile!ReleaseKey, q
  <2>2. win.focus \in 0..4
    BY <1>0, <1>7 DEF Tile!ReleaseKey, TileWindows
  <2>3. win' = [q EXCEPT !.pressed = q.pressed \ {win.focus}, !.acts = win.acts + 1, !.status = bar,
                         !.asked = (q.asked \cup {5}) \cup {win.focus}]
    BY <1>0, <2>1 DEF Tile!Activated, Tile!RefreshStatus, Tile!StatusBar, Tile!Asking, TileWindows
  <2>4. /\ q.pressed \ {win.focus} \in SUBSET (0..4) /\ win.acts + 1 \in Int
        /\ bar \in [focus : TileOrNone, acts : Int]
        /\ (q.asked \cup {5}) \cup {win.focus} \in SUBSET (0..5)
    BY <1>0, <2>2 DEF TileWindows
  <2>5. win' \in TileWindows
    BY <1>0, <2>3, <2>4 DEF TileWindows
  <2>6. /\ win'.pressed = win.pressed \ {win.focus} /\ win'.acts = win.acts + 1 /\ win'.status = bar
        /\ \A f \in {"capture", "focus", "hover", "tracking", "told"} : win'[f] = win[f]
    BY <1>0, <2>3 DEF TileWindows
  <2> QED BY <1>0, <2>5, <2>6
<1>8. CASE Tile!FocusElsewhere
  <2> DEFINE k == Tile!KillFocus(q)
  <2>1. win' = [k EXCEPT !.focus = -1, !.capture = -1]
    BY <1>8 DEF Tile!FocusElsewhere, q
  <2>2. /\ k \in TileWindows /\ k.pressed = win.pressed \ {win.focus}
        /\ \A f \in {"hover", "tracking", "told", "acts", "status"} : k[f] = win[f]
    BY <1>0, TileLeft
  <2> HIDE DEF k
  <2>3. win' \in TileWindows
    BY <2>1, <2>2 DEF TileWindows, TileOrNone
  <2>4. /\ win'.focus = -1 /\ win'.capture = -1
        /\ \A f \in {"hover", "tracking", "pressed", "told", "acts", "status"} : win'[f] = k[f]
    BY <2>1, <2>2 DEF TileWindows
  <2> QED BY <1>0, <2>2, <2>3, <2>4
<1> QED BY <1>1, <1>2, <1>3, <1>4, <1>5, <1>6, <1>7, <1>8 DEF Tile!Next

\* At first nothing is pressed, hovered or focused.
LEMMA TileStarted == Tile!Init => TileInv
  BY DEF Tile!Init, TileInv, TileWindows, TileOrNone, Tile!PressIsHeld, Tile!HoverEnds,
         Tile!StatusIsTrue, Tile!Locked, Tile!None

\* What a handler changes on a tile, or in the status bar, it asks to repaint.
LEMMA TileRepaints == TileInv /\ Tile!Next => Tile!Repainted
<1> SUFFICES ASSUME TileInv, Tile!Next PROVE Tile!Repainted
  OBVIOUS
<1> DEFINE q == Tile!Quiet(win)
<1>0. /\ win \in TileWindows /\ q \in TileWindows
      /\ \A f \in {"pointer", "capture", "focus", "hover", "tracking", "pressed", "told", "acts", "status"} :
            q[f] = win[f]
      /\ q.hover = win.hover /\ q.pressed = win.pressed /\ q.focus = win.focus /\ q.status = win.status
  BY DEF TileInv, TileWindows, Tile!Quiet
<1> HIDE DEF q
\* The tiles that are repainted are all that differ.
<1>1. ASSUME NEW changed,
             \A t \in 0..4 : t \notin changed => /\ t \in win'.pressed <=> t \in win.pressed
                                                 /\ t = win'.focus <=> t = win.focus
                                                 /\ t \in win'.hover <=> t \in win.hover,
             changed \cap 0..4 \subseteq win'.asked, win'.status = win.status \/ 5 \in win'.asked
      PROVE  Tile!Repainted
  <2>1. \A t \in 0..4 : t \notin changed => Tile!TileFace(win, t) = Tile!TileFace(win', t)
    <3> SUFFICES ASSUME NEW t \in 0..4, t \notin changed
                 PROVE  Tile!TileFace(win, t) = Tile!TileFace(win', t)
      OBVIOUS
    <3>1. /\ (t \in win'.pressed) = (t \in win.pressed)
          /\ (t = win'.focus) = (t = win.focus)
          /\ (t \in win'.hover) = (t \in win.hover)
      BY <1>1
    <3> QED BY <3>1, Zenon DEF Tile!TileFace
  <2> QED BY <1>1, <2>1 DEF Tile!Repainted, Tile!Tiles, Tile!StatusBar
<1>2. CASE Tile!MouseMove
  <2>1. PICK t \in 0..4 \cup {-1} :
           LET w == [q EXCEPT !.pointer = t]
           IN win' = IF Tile!Target(w) = -1 THEN w
                     ELSE Tile!Asking([w EXCEPT !.hover = @ \cup {Tile!Target(w)},
                                                !.tracking = @ \cup {Tile!Target(w)}], Tile!Target(w))
    BY <1>2 DEF Tile!MouseMove, Tile!Tiles, Tile!None, q
  <2> DEFINE w == [q EXCEPT !.pointer = t]
             h == Tile!Target(w)
  <2>2. \/ win' = w
        \/ win' = Tile!Asking([w EXCEPT !.hover = @ \cup {h}, !.tracking = @ \cup {h}], h)
    BY <2>1
  <2> HIDE DEF h
  <2>3. /\ win'.pressed = win.pressed /\ win'.focus = win.focus /\ win'.status = win.status
        /\ win'.hover = win.hover \/ (win'.hover = win.hover \cup {h} /\ h \in win'.asked)
    <3>1. CASE win' = w
      BY <1>0, <3>1 DEF TileWindows
    <3>2. CASE win' = Tile!Asking([w EXCEPT !.hover = @ \cup {h}, !.tracking = @ \cup {h}], h)
      BY <1>0, <3>2 DEF Tile!Asking, TileWindows
    <3> QED BY <2>2, <3>1, <3>2
  <2> QED BY <1>1, <2>3
<1>3. CASE Tile!MouseLeave
  <2>1. PICK t \in win.tracking :
           win' = Tile!Asking([q EXCEPT !.hover = @ \ {t}, !.tracking = @ \ {t}], t)
    BY <1>3 DEF Tile!MouseLeave, q
  <2>2. /\ win'.pressed = win.pressed /\ win'.focus = win.focus /\ win'.status = win.status
        /\ win'.hover = win.hover \ {t} /\ t \in win'.asked
    BY <1>0, <2>1 DEF Tile!Asking, TileWindows
  <2> QED BY <1>1, <2>2
\* A tile takes the focus with or without being pressed.
<1>4. ASSUME NEW w \in TileWindows, NEW t \in Tile!Tiles, t \in 0..4,
             w.hover = win.hover, w.focus = win.focus, w.status = win.status,
             w.pressed = win.pressed \/ w.pressed = win.pressed \cup {t},
             LET s == Tile!SetFocus(w, t)
             IN \/ win' = s /\ w.pressed = win.pressed
                \/ win' = Tile!Asking([s EXCEPT !.capture = t], t)
      PROVE  Tile!Repainted
  <2> DEFINE s == Tile!SetFocus(w, t)
  <2>1. s \in TileWindows /\ s.focus = t /\ s.hover = w.hover
    BY <1>4, TileFocused
  <2>2. /\ \A f \in {"pressed", "focus", "hover", "status"} : win'[f] = s[f]
        /\ s.asked \subseteq win'.asked
        /\ w.pressed = win.pressed \/ t \in win'.asked
    BY <1>4, <2>1 DEF Tile!Asking, TileWindows
  <2>3. CASE w.focus = t
    <3>1. s = w
      BY <1>4, <2>3, TileFocused
    <3> HIDE DEF s
    <3>2. /\ win'.hover = win.hover /\ win'.focus = win.focus /\ win'.status = win.status
          /\ win'.pressed = w.pressed
      BY <1>4, <2>2, <3>1
    <3>3. /\ \A u \in 0..4 : u # t => (u \in w.pressed <=> u \in win.pressed)
          /\ t \in win'.asked \/ w.pressed = win.pressed
      BY <1>4, <2>2
    <3>4. CASE w.pressed = win.pressed
      <4>1. {} \cap 0..4 \subseteq win'.asked
        OBVIOUS
      <4> QED BY <1>1, <3>2, <3>4, <4>1
    <3>5. CASE t \in win'.asked
      <4>1. {t} \cap 0..4 \subseteq win'.asked
        BY <3>5
      <4> QED BY <1>1, <3>2, <3>3, <4>1
    <3> QED BY <3>3, <3>4, <3>5
  <2>4. CASE w.focus # t
    <3>1. /\ s.pressed = w.pressed \ {w.focus} /\ t \in s.asked /\ 5 \in s.asked
          /\ w.focus \in 0..4 => w.focus \in s.asked
      <4>1. s.pressed = w.pressed \ {w.focus}
        BY <1>4, <2>4, TileFocused
      <4>2. t \in s.asked /\ 5 \in s.asked /\ (w.focus # -1 => w.focus \in s.asked)
        BY <1>4, <2>4, TileFocusAsked
      <4> QED BY <4>1, <4>2
    <3> HIDE DEF s
    <3>2. /\ win'.hover = win.hover /\ win'.focus = t /\ win'.pressed = w.pressed \ {win.focus}
          /\ 5 \in win'.asked /\ {t, win.focus} \cap 0..4 \subseteq win'.asked
      BY <1>4, <2>1, <2>2, <3>1
    <3>3. \A u \in 0..4 : u \notin {t, win.focus} => (u \in win'.pressed <=> u \in win.pressed)
      BY <1>4, <3>2
    <3> QED BY <1>1, <3>2, <3>3
  <2> QED BY <2>3, <2>4
<1>5. CASE Tile!LButtonDown
  <2> DEFINE t == Tile!Target(win)
             w == [q EXCEPT !.pressed = q.pressed \cup {t}]
  <2>1. t \in 0..4 /\ t \in Tile!Tiles
    BY <1>0, <1>5 DEF Tile!LButtonDown, Tile!Target, Tile!Tiles, Tile!None, TileWindows, TileOrNone
  <2>2. win' = Tile!Asking([Tile!SetFocus(w, t) EXCEPT !.capture = t], t)
    BY <1>0, <1>5 DEF Tile!LButtonDown, q, TileWindows
  <2> HIDE DEF t
  <2>3. /\ w \in TileWindows /\ w.pressed = q.pressed \cup {t}
        /\ w.hover = q.hover /\ w.focus = q.focus /\ w.status = q.status
    BY <1>0, <2>1 DEF TileWindows
  <2> HIDE DEF w
  <2> QED BY <1>0, <1>4, <2>1, <2>2, <2>3
<1>6. CASE Tile!LButtonUp
  <2> DEFINE t == Tile!Target(win)
             w == [q EXCEPT !.pressed = q.pressed \ {t}, !.capture = -1]
  <2>1. win' = Tile!Asking(IF t \in win.pressed THEN Tile!Activated(w) ELSE w, t)
    BY <1>0, <1>6 DEF Tile!LButtonUp, Tile!None, q, TileWindows
  <2> HIDE DEF t
  <2>2. /\ t \in win'.asked /\ win'.hover = win.hover /\ win'.focus = win.focus
        /\ win'.pressed = win.pressed \ {t}
        /\ win'.status = win.status \/ 5 \in win'.asked
    BY <1>0, <2>1 DEF Tile!Activated, Tile!RefreshStatus, Tile!StatusBar, Tile!Asking, TileWindows
  <2> QED BY <1>1, <2>2
<1>7. CASE Tile!MoveKey
  <2>1. PICK delta \in {-1, 1} : win' = Tile!MoveTileFocus(q, delta)
    BY <1>7 DEF Tile!MoveKey, q
  <2>2. q.focus \in 0..4
    BY <1>0, <1>7 DEF Tile!MoveKey, Tile!None, TileWindows, TileOrNone
  <2>3. PICK t \in Tile!Tiles : win' = Tile!SetFocus(q, t)
    BY <1>0, <2>1, <2>2, TileSkipped
  <2>4. t \in 0..4
    BY DEF Tile!Tiles
  <2> QED BY <1>0, <1>4, <2>3, <2>4
<1>8. CASE Tile!PressKey
  <2>1. win' = Tile!Asking([q EXCEPT !.pressed = @ \cup {win.focus}], win.focus)
    BY <1>8 DEF Tile!PressKey, q
  <2>2. /\ win.focus \in win'.asked /\ win'.hover = win.hover /\ win'.focus = win.focus
        /\ win'.pressed = win.pressed \cup {win.focus} /\ win'.status = win.status
    BY <1>0, <2>1 DEF Tile!Asking, TileWindows
  <2> QED BY <1>1, <2>2
<1>9. CASE Tile!ReleaseKey
  <2>1. win' = Tile!Asking(Tile!Activated([q EXCEPT !.pressed = @ \ {win.focus}]), win.focus)
    BY <1>9 DEF Tile!ReleaseKey, q
  <2>2. /\ win.focus \in win'.asked /\ win'.hover = win.hover /\ win'.focus = win.focus
        /\ win'.pressed = win.pressed \ {win.focus} /\ 5 \in win'.asked
    BY <1>0, <2>1 DEF Tile!Activated, Tile!RefreshStatus, Tile!StatusBar, Tile!Asking, TileWindows
  <2> QED BY <1>1, <2>2
<1>10. CASE Tile!FocusElsewhere
  <2> DEFINE k == Tile!KillFocus(q)
  <2>1. win' = [k EXCEPT !.focus = -1, !.capture = -1] /\ win.focus # -1
    BY <1>10 DEF Tile!FocusElsewhere, Tile!None, q
  <2>2. /\ k \in TileWindows /\ k.pressed = win.pressed \ {win.focus} /\ win.focus \in k.asked
        /\ k.hover = win.hover /\ k.status = win.status
    <3>1. /\ k \in TileWindows /\ k.pressed = q.pressed \ {q.focus}
          /\ k.hover = q.hover /\ k.status = q.status
          /\ q.focus # -1 => q.focus \in k.asked
      BY <1>0, TileLeft
    <3> QED BY <1>0, <2>1, <3>1
  <2> HIDE DEF k
  <2>3. /\ win'.focus = -1 /\ win'.pressed = k.pressed /\ win'.hover = k.hover
        /\ win'.status = k.status /\ win'.asked = k.asked
    BY <2>1, <2>2 DEF TileWindows
  <2>4. {win.focus} \cap 0..4 \subseteq win'.asked
    BY <2>2, <2>3
  <2>5. \A t \in 0..4 : t \notin {win.focus} => /\ t \in win'.pressed <=> t \in win.pressed
                                                /\ t = win'.focus <=> t = win.focus
                                                /\ t \in win'.hover <=> t \in win.hover
    BY <2>2, <2>3
  <2> QED BY <1>1, <2>2, <2>3, <2>4, <2>5
<1> QED BY <1>2, <1>3, <1>5, <1>6, <1>7, <1>8, <1>9, <1>10 DEF Tile!Next

-----------------------------------------------------------------------------
(* The dialog tour                                                         *)

TourFields == {"laid", "broker", "mode", "palette", "hover", "tracking", "refused", "about", "result",
               "prefs", "modal", "alive", "routed", "stage", "payload", "prefsOpen", "asked"}

TourInv ==
    /\ TourFields \subseteq DOMAIN win
    /\ Tour!DialogIsRouted /\ Tour!StatusIsTrue /\ Tour!HoverEnds /\ Tour!ThemesAgree

\* The tour starts in one theme, with no dialog.
LEMMA TourStarted == Tour!Init => TourInv
  BY DEF Tour!Init, Tour!CreateMain, Tour!Layout, TourInv, TourFields, Tour!DialogIsRouted,
         Tour!StatusIsTrue, Tour!HoverEnds, Tour!ThemesAgree, Tour!None

\* Every handler keeps the loop with the modeless dialog, the status with the last
\* dialog and the windows in one theme.
LEMMA TourStep == TourInv /\ Tour!Next => TourInv' /\ Tour!Repainted
<1> SUFFICES ASSUME TourInv, Tour!Next PROVE TourInv' /\ Tour!Repainted
  OBVIOUS
<1> DEFINE q == Tour!Quiet(win)
<1>0. /\ TourFields \subseteq DOMAIN q
      /\ \A f \in TourFields \ {"asked"} : q[f] = win[f]
      /\ Tour!DialogIsRouted /\ Tour!StatusIsTrue /\ Tour!HoverEnds /\ Tour!ThemesAgree
  BY DEF TourInv, Tour!Quiet, TourFields
<1> HIDE DEF q
<1> USE DEF TourFields, Tour!None
<1> USE DEF TourInv, Tour!DialogIsRouted, Tour!StatusIsTrue, Tour!HoverEnds, Tour!ThemesAgree,
            Tour!Repainted, Tour!PageFace
\* A handler that lays out again, whatever becomes of the layout.
<1>1. CASE Tour!Resize \/ Tour!DpiChanged
  <2>1. /\ TourFields \subseteq DOMAIN win' /\ win'.asked
        /\ \A f \in TourFields \ {"laid", "asked"} : win'[f] = q[f]
    BY <1>0, <1>1 DEF Tour!Resize, Tour!DpiChanged, Tour!InvalidateRedraw, Tour!Layout,
                      Tour!Asking, q
  <2> QED BY <1>0, <2>1
<1>2. CASE Tour!ThemeChanged
  <2>1. win' = q
    BY <1>0, <1>2 DEF Tour!ThemeChanged, Tour!ApplyTheme, q
  <2> QED BY <1>0, <2>1
<1>3. CASE Tour!MouseMove
  <2>1. PICK p \in Tour!Aimed(win), granted \in BOOLEAN :
           win' = Tour!UpdateHover(q, p, granted)
    BY <1>3 DEF Tour!MouseMove, q
  <2> DEFINE hit == Tour!HitTest(q, p)
  <2>2. /\ TourFields \subseteq DOMAIN win'
        /\ \A f \in TourFields \ {"hover", "tracking", "refused", "asked"} : win'[f] = q[f]
        /\ hit # "none" => win'.tracking
        /\ IF hit = q.hover THEN win'.hover = q.hover ELSE win'.hover = hit /\ win'.asked
    BY <1>0, <2>1 DEF Tour!UpdateHover, Tour!Tracked, Tour!Asking
  <2> HIDE DEF hit
  <2> QED BY <1>0, <2>2
<1>4. CASE Tour!MouseLeave
  <2>1. /\ TourFields \subseteq DOMAIN win'
        /\ \A f \in TourFields \ {"hover", "tracking", "asked"} : win'[f] = q[f]
        /\ win'.hover = "none"
        /\ q.hover # "none" => win'.asked
    BY <1>0, <1>4 DEF Tour!MouseLeave, Tour!Asking, q
  <2> QED BY <1>0, <2>1
<1>5. CASE Tour!LButtonDown
  <2>1. /\ TourFields \subseteq DOMAIN win' 
        /\ \A f \in TourFields \ {"asked"} : win'[f] = q[f]
    BY <1>0, <1>5 DEF Tour!LButtonDown, q
  <2> QED BY <1>0, <2>1
<1>6. CASE Tour!LButtonUp
  <2> DEFINE w == [q EXCEPT !.capture = FALSE]
  <2>0. /\ ~win.about
        /\ \/ win' = Tour!LaunchAbout(w) \/ win' \in Tour!LaunchPrefs(w)
           \/ win' = Tour!CloseActive(w) \/ win' = w
           \/ \E hit : win' = Tour!BrokerSet(w, hit)
    BY <1>6 DEF Tour!LButtonUp, q
  <2>1. TourFields \subseteq DOMAIN w /\ \A f \in TourFields \ {"asked"} : w[f] = win[f]
    BY <1>0
  <2> HIDE DEF w
  <2>2. CASE win' = Tour!LaunchAbout(w)
    <3>1. /\ TourFields \subseteq DOMAIN win' /\ win'.asked
          /\ win'.stage = "about_opened" /\ win'.about
          /\ \A f \in TourFields \ {"laid", "stage", "about", "asked"} : win'[f] = w[f]
      BY <2>1, <2>2 DEF Tour!LaunchAbout, Tour!InvalidateRedraw, Tour!Layout, Tour!Asking
    <3> QED BY <1>0, <2>1, <3>1
  <2>3. CASE win' \in Tour!LaunchPrefs(w)
    <3>1. CASE win' = w
      BY <1>0, <2>1, <3>1
    <3>2. CASE win' # w
      <4>1. PICK handle \in Tour!Handles \ {w.prefs} :
               win' = Tour!InvalidateRedraw([Tour!ShowModeless(w, handle) EXCEPT
                         !.routed = handle, !.prefsOpen = TRUE, !.stage = "prefs_opened"])
        BY <2>3, <3>2 DEF Tour!LaunchPrefs
      <4>2. /\ TourFields \subseteq DOMAIN win' /\ win'.asked
            /\ win'.stage = "prefs_opened" /\ win'.prefsOpen /\ ~win'.modal
            /\ win'.routed = handle /\ win'.prefs = handle /\ win'.alive = handle
            /\ \A f \in {"broker", "mode", "palette", "hover", "tracking", "refused", "about",
                         "result", "payload"} :
                  win'[f] = w[f]
        BY <2>1, <4>1 DEF Tour!ShowModeless, Tour!InvalidateRedraw, Tour!Layout, Tour!Asking
      <4> QED BY <1>0, <2>0, <2>1, <4>2
    <3> QED BY <3>1, <3>2
  <2>4. CASE win' = Tour!CloseActive(w)
    <3> DEFINE e == IF Tour!IsOpen(w) THEN Tour!EndModeless(w) ELSE w
    <3>1. /\ TourFields \subseteq DOMAIN e /\ e.alive = "none"
          /\ \A f \in TourFields \ {"prefs", "alive", "asked"} : e[f] = win[f]
      BY <1>0, <2>1 DEF Tour!IsOpen, Tour!EndModeless
    <3>2. win' = Tour!InvalidateRedraw([e EXCEPT !.routed = "none", !.prefsOpen = FALSE,
                                                 !.stage = "prefs_closed"])
      BY <2>4 DEF Tour!CloseActive
    <3> HIDE DEF e
    <3>3. /\ TourFields \subseteq DOMAIN win' /\ win'.asked
          /\ win'.stage = "prefs_closed" /\ win'.routed = "none"
          /\ \A f \in TourFields \ {"laid", "routed", "prefsOpen", "stage", "asked"} : win'[f] = e[f]
      BY <3>1, <3>2 DEF Tour!InvalidateRedraw, Tour!Layout, Tour!Asking
    <3> QED BY <1>0, <2>0, <3>1, <3>3
  <2>5. CASE win' = w
    BY <1>0, <2>1, <2>5
  <2>6. ASSUME NEW hit, win' = Tour!BrokerSet(w, hit)
        PROVE  TourInv' /\ Tour!Repainted
    <3>1. CASE hit = w.broker
      BY <1>0, <2>1, <2>6, <3>1 DEF Tour!BrokerSet
    <3>2. CASE hit # w.broker
      <4> DEFINE v == [w EXCEPT !.broker = hit]
                 u == Tour!ApplyTheme(v, hit)
      <4>1. /\ TourFields \subseteq DOMAIN u /\ u.broker = hit
            /\ u.mode = hit /\ u.palette = hit /\ u.asked
            /\ \A f \in TourFields \ {"broker", "mode", "palette", "asked"} : u[f] = w[f]
        <5>1. w.mode = w.broker
          BY <1>0, <2>1
        <5>2. v.mode # hit
          BY <2>1, <3>2, <5>1
        <5>3. u = Tour!Asking([v EXCEPT !.mode = hit, !.palette = hit])
          BY <5>2 DEF Tour!ApplyTheme
        <5> HIDE DEF u
        <5> QED BY <2>1, <5>3 DEF Tour!Asking
      <4>2. win' = u
        BY <2>6, <3>2, <4>1 DEF Tour!BrokerSet, Tour!ApplyTheme
      <4> HIDE DEF u
      <4> QED BY <1>0, <2>1, <4>1, <4>2
    <3> QED BY <3>1, <3>2
  <2> QED BY <2>0, <2>2, <2>3, <2>4, <2>5, <2>6
<1>7. CASE Tour!AboutEnds
  <2>1. PICK result \in {"ok", "cancel"} : win' = Tour!AboutReturns(q, result)
    BY <1>7 DEF Tour!AboutEnds, q
  <2>2. /\ TourFields \subseteq DOMAIN win' /\ win'.asked
        /\ ~win'.about /\ win'.result = result
        /\ win'.stage = IF result = "ok" THEN "about_ok" ELSE "about_cancel"
        /\ \A f \in TourFields \ {"laid", "about", "result", "stage", "asked"} : win'[f] = win[f]
    BY <1>0, <2>1 DEF Tour!AboutReturns, Tour!InvalidateRedraw, Tour!Layout, Tour!Asking
  <2> QED BY <1>0, <2>2
<1>8. CASE Tour!PrefsOk
  <2>1. PICK payload \in Payloads : win' = Tour!PrefsSubmitted(q, payload)
    BY <1>8 DEF Tour!PrefsOk, q
  <2>2. /\ TourFields \subseteq DOMAIN win' /\ win'.asked
        /\ win'.alive = "none" /\ win'.routed = "none" /\ win'.stage = "prefs_submitted"
        /\ \A f \in TourFields \ {"laid", "payload", "alive", "routed", "stage", "asked"} :
              win'[f] = win[f]
    BY <1>0, <2>1 DEF Tour!PrefsSubmitted, Tour!Gone, Tour!InvalidateRedraw, Tour!Layout,
                      Tour!Asking
  <2> QED BY <1>0, <2>2
<1>9. CASE Tour!PrefsCancel
  <2>1. /\ TourFields \subseteq DOMAIN win' /\ win'.alive = "none" /\ win'.routed = "none"
        /\ \A f \in TourFields \ {"alive", "routed", "asked"} : win'[f] = win[f]
    BY <1>0, <1>9 DEF Tour!PrefsCancel, Tour!Gone, q
  <2> QED BY <1>0, <2>1
<1> QED BY <1>1, <1>2, <1>3, <1>4, <1>5, <1>6, <1>7, <1>8, <1>9 DEF Tour!Next

-----------------------------------------------------------------------------
(* The dark studio                                                         *)

StudioFields == {"client", "dpi", "mode", "palette", "broker", "cycled", "selected", "fonts",
                 "asked"}

StudioInv == StudioFields \subseteq DOMAIN win /\ Studio!ThemesAgree

\* The studio starts in one theme.
LEMMA StudioStarted == Studio!Init => StudioInv
  BY DEF Studio!Init, StudioInv, StudioFields, Studio!ThemesAgree

\* The pill changes the theme of the window before that of the process, and the
\* two are the same again when it has; nothing else does.
LEMMA StudioStep == StudioInv /\ Studio!Next => StudioInv' /\ Studio!Repainted
<1> SUFFICES ASSUME StudioInv, Studio!Next PROVE StudioInv' /\ Studio!Repainted
  OBVIOUS
<1> DEFINE q == Studio!Quiet(win)
<1>0. /\ StudioFields \subseteq DOMAIN q
      /\ \A f \in StudioFields \ {"asked"} : q[f] = win[f]
      /\ win.mode = win.broker
      /\ ~win.cycled => win.palette = win.mode
  BY DEF StudioInv, Studio!ThemesAgree, Studio!Quiet, StudioFields
<1> HIDE DEF q
<1> USE DEF StudioFields
<1> USE DEF StudioInv, Studio!ThemesAgree, Studio!Repainted, Studio!ShellFace, Studio!RowsFace,
            Studio!StatusFace
<1>1. CASE Studio!Resize
  <2>1. /\ StudioFields \subseteq DOMAIN win' /\ "main" \in win'.asked
        /\ \A f \in StudioFields \ {"client", "asked"} : win'[f] = win[f]
    BY <1>0, <1>1 DEF Studio!Resize, Studio!Asking, q
  <2> QED BY <1>0, <2>1
<1>2. CASE Studio!DpiChanged
  <2>1. /\ StudioFields \subseteq DOMAIN win' /\ {"main", "status"} \subseteq win'.asked
        /\ \A f \in StudioFields \ {"client", "dpi", "fonts", "asked"} : win'[f] = win[f]
    BY <1>0, <1>2 DEF Studio!DpiChanged, Studio!Asking, q
  <2> QED BY <1>0, <2>1
<1>3. CASE Studio!LButtonDown
  <2>1. PICK t : win' = Studio!Pressed(q, Studio!Aimed(win, t))
    BY <1>3 DEF Studio!LButtonDown, q
  <2> DEFINE p == Studio!Aimed(win, t)
             v == Studio!SelectNavigation(q, p)
  <2>2. /\ StudioFields \subseteq DOMAIN v
        /\ \A f \in StudioFields \ {"selected", "asked"} : v[f] = win[f]
        /\ v.selected = win.selected \/ {"main", "status"} \subseteq v.asked
    BY <1>0 DEF Studio!SelectNavigation, Studio!Asking
  <2>3. CASE ~Studio!Contains(Studio!ThemeToggleRect(v), p)
    <3>1. win' = v
      BY <2>1, <2>3 DEF Studio!Pressed
    <3> HIDE DEF v
    <3> QED BY <1>0, <2>2, <3>1
  <2>4. CASE Studio!Contains(Studio!ThemeToggleRect(v), p)
    <3> DEFINE mode == Studio!Cycled(v.mode)
    <3>1. win' = Studio!Asking(Studio!CycleTheme(v), {"main"})
      BY <2>1, <2>4 DEF Studio!Pressed
    <3> HIDE DEF v
    <3>2. /\ StudioFields \subseteq DOMAIN Studio!CycleTheme(v)
          /\ Studio!CycleTheme(v).mode = mode /\ Studio!CycleTheme(v).broker = mode
          /\ Studio!CycleTheme(v).cycled
          /\ \A f \in StudioFields \ {"mode", "broker", "cycled"} : Studio!CycleTheme(v)[f] = v[f]
      <4> HIDE DEF mode
      <4> QED BY <2>2 DEF Studio!CycleTheme, Studio!BrokerSet, Studio!ApplyTheme, mode
    <3>3. /\ StudioFields \subseteq DOMAIN win' /\ "main" \in win'.asked
          /\ win'.mode = win'.broker /\ win'.cycled
          /\ \A f \in StudioFields \ {"mode", "broker", "cycled", "asked"} : win'[f] = v[f]
          /\ v.asked \subseteq win'.asked
      BY <3>1, <3>2 DEF Studio!Asking
    <3> QED BY <1>0, <2>2, <3>3
  <2> QED BY <2>3, <2>4
<1>4. CASE Studio!ThemeChanged
  <2>1. win' = q
    BY <1>0, <1>4 DEF Studio!ThemeChanged, Studio!ApplyTheme, q
  <2> QED BY <1>0, <2>1
<1> QED BY <1>1, <1>2, <1>3, <1>4 DEF Studio!Next

-----------------------------------------------------------------------------
(* The theme demo                                                          *)

ThemeFields == {"size", "dpi", "fonts", "bar", "laid", "mode", "palette", "active", "broker",
                "asked"}

ThemeInv == ThemeFields \subseteq DOMAIN win /\ Theme!ThemesAgree

\* What the handlers do to the theme, whatever becomes of the layout.
LEMMA ThemeHelpers ==
  ASSUME NEW w, ThemeFields \subseteq DOMAIN w
  PROVE  /\ ThemeFields \subseteq DOMAIN Theme!LayoutChildren(w)
         /\ \A f \in ThemeFields \ {"bar", "laid", "asked"} : Theme!LayoutChildren(w)[f] = w[f]
         /\ w.asked \cup {"main"} = Theme!LayoutChildren(w).asked
         /\ ThemeFields \subseteq DOMAIN Theme!ApplyFonts(w)
         /\ \A f \in ThemeFields \ {"fonts", "asked"} : Theme!ApplyFonts(w)[f] = w[f]
         /\ w.asked \cup {"children"} = Theme!ApplyFonts(w).asked
  BY DEF ThemeFields, Theme!LayoutChildren, Theme!ApplyFonts, Theme!Asking

\* Creation ends in one theme.
LEMMA ThemeStarted == Theme!Init => ThemeInv
<1> SUFFICES ASSUME Theme!Init PROVE ThemeInv
  OBVIOUS
<1>1. PICK size, dpi, mode : win = Theme!CreateMain(size, dpi, mode)
  BY DEF Theme!Init
<1> DEFINE created == Theme!CreateChildren(
        [size |-> size, dpi |-> dpi, fonts |-> dpi, bar |-> 0, laid |-> <<>>,
         mode |-> mode, palette |-> mode, active |-> "none", broker |-> mode, asked |-> {}])
           w == Theme!ApplyFonts(created)
           v == Theme!LayoutChildren(w)
<1>2. /\ ThemeFields \subseteq DOMAIN created
      /\ created.mode = mode /\ created.palette = mode /\ created.active = mode
      /\ created.broker = mode
  BY DEF ThemeFields, Theme!CreateChildren, Theme!RefreshChips, Theme!Asking
<1>3. win = Theme!Quiet(v)
  BY <1>1 DEF Theme!CreateMain
<1> HIDE DEF created
<1>4. /\ ThemeFields \subseteq DOMAIN w
      /\ \A f \in ThemeFields \ {"fonts", "asked"} : w[f] = created[f]
  BY <1>2, ThemeHelpers
<1> HIDE DEF w
<1>5. /\ ThemeFields \subseteq DOMAIN v
      /\ \A f \in ThemeFields \ {"bar", "laid", "asked"} : v[f] = w[f]
  BY <1>4, ThemeHelpers
<1> HIDE DEF v
<1> QED BY <1>2, <1>3, <1>4, <1>5 DEF ThemeInv, ThemeFields, Theme!ThemesAgree, Theme!Quiet

\* Every handler ends in one theme, and asks for what it changed.
LEMMA ThemeStep == ThemeInv /\ Theme!Next => ThemeInv' /\ Theme!Repainted
<1> SUFFICES ASSUME ThemeInv, Theme!Next PROVE ThemeInv' /\ Theme!Repainted
  OBVIOUS
<1> DEFINE q == Theme!Quiet(win)
<1>0. /\ ThemeFields \subseteq DOMAIN q
      /\ \A f \in ThemeFields \ {"asked"} : q[f] = win[f]
      /\ win.mode = win.broker /\ win.palette = win.broker /\ win.active = win.broker
  BY DEF ThemeInv, Theme!ThemesAgree, Theme!Quiet, ThemeFields
<1> HIDE DEF q
<1> USE DEF ThemeInv, Theme!ThemesAgree, Theme!Repainted, Theme!PageFace, Theme!ChildrenFace
<1>1. CASE Theme!Resize
  <2>1. PICK size \in WindowSizes.theme : win' = Theme!LayoutChildren([q EXCEPT !.size = size])
    BY <1>1 DEF Theme!Resize, q
  <2> DEFINE w == [q EXCEPT !.size = size]
  <2>2. ThemeFields \subseteq DOMAIN w /\ \A f \in ThemeFields \ {"size", "asked"} : w[f] = win[f]
    BY <1>0 DEF ThemeFields
  <2> HIDE DEF w
  <2>3. /\ ThemeFields \subseteq DOMAIN win' /\ "main" \in win'.asked
        /\ \A f \in ThemeFields \ {"size", "bar", "laid", "asked"} : win'[f] = win[f]
    <3>1. win' = Theme!LayoutChildren(w)
      BY <2>1 DEF w
    <3> QED BY <2>2, <3>1, ThemeHelpers
  <2> QED BY <1>0, <2>3 DEF ThemeFields
<1>2. CASE Theme!DpiChanged
  <2>1. PICK dpi \in Dpi.theme, size \in WindowSizes.theme :
           win' = Theme!LayoutChildren(Theme!ApplyFonts(Theme!LayoutChildren(
                      [q EXCEPT !.dpi = dpi, !.size = size])))
    BY <1>2 DEF Theme!DpiChanged, q
  <2> DEFINE w == [q EXCEPT !.dpi = dpi, !.size = size]
             v == Theme!LayoutChildren(w)
             u == Theme!ApplyFonts(v)
  <2>2. /\ ThemeFields \subseteq DOMAIN w
        /\ \A f \in ThemeFields \ {"dpi", "size", "asked"} : w[f] = win[f]
    BY <1>0 DEF ThemeFields
  <2>3. win' = Theme!LayoutChildren(u)
    BY <2>1
  <2> HIDE DEF w
  <2>4. /\ ThemeFields \subseteq DOMAIN v
        /\ \A f \in ThemeFields \ {"bar", "laid", "asked"} : v[f] = w[f]
    BY <2>2, ThemeHelpers
  <2> HIDE DEF v
  <2>5. /\ ThemeFields \subseteq DOMAIN u /\ "children" \in u.asked
        /\ \A f \in ThemeFields \ {"fonts", "asked"} : u[f] = v[f]
    BY <2>4, ThemeHelpers
  <2> HIDE DEF u
  <2>6. /\ ThemeFields \subseteq DOMAIN win' /\ {"main", "children"} \subseteq win'.asked
        /\ \A f \in ThemeFields \ {"bar", "laid", "asked"} : win'[f] = u[f]
    BY <2>3, <2>5, ThemeHelpers
  <2> QED BY <1>0, <2>2, <2>4, <2>5, <2>6 DEF ThemeFields
<1>3. CASE Theme!Command
  <2>1. PICK mode : win' = Theme!BrokerSet(q, mode)
    BY <1>3 DEF Theme!Command, q
  <2>2. CASE mode = q.broker
    BY <1>0, <2>1, <2>2 DEF Theme!BrokerSet, ThemeFields
  <2>3. CASE mode # q.broker
    <3> DEFINE w == [q EXCEPT !.broker = mode]
               u == Theme!ApplyTheme(w, mode)
    <3>1. /\ ThemeFields \subseteq DOMAIN w /\ w.broker = mode /\ w.mode # mode
          /\ \A f \in {"size", "dpi", "bar"} : w[f] = win[f]
      BY <1>0, <2>3 DEF ThemeFields
    <3>2. u = Theme!Asking(Theme!ApplyFonts(Theme!RefreshChips(
                 [w EXCEPT !.mode = mode, !.palette = mode])), {"main", "children"})
      BY <3>1 DEF Theme!ApplyTheme
    <3> HIDE DEF w, u
    <3>3. /\ ThemeFields \subseteq DOMAIN u
          /\ u.broker = mode /\ u.mode = mode /\ u.palette = mode /\ u.active = mode
          /\ {"main", "children"} \subseteq u.asked
          /\ \A f \in {"size", "dpi", "bar"} : u[f] = w[f]
      BY <3>1, <3>2 DEF ThemeFields, Theme!ApplyFonts, Theme!RefreshChips, Theme!Asking
    <3>4. win' = u
      BY <2>1, <2>3, <3>3 DEF Theme!BrokerSet, Theme!ApplyTheme, u, w
    <3> QED BY <1>0, <3>1, <3>3, <3>4 DEF ThemeFields
  <2> QED BY <2>2, <2>3
<1>4. CASE Theme!ThemeChanged
  <2>1. win' = q
    BY <1>0, <1>4 DEF Theme!ThemeChanged, Theme!ApplyTheme, ThemeFields, q
  <2> QED BY <1>0, <2>1 DEF ThemeFields
<1> QED BY <1>1, <1>2, <1>3, <1>4 DEF Theme!Next

-----------------------------------------------------------------------------
(* The component gallery                                                   *)

GalleryFields == {"size", "dpi", "fonts", "bar", "laid", "mode", "palette", "active", "broker", "status",
                "asked"}

GalleryInv == GalleryFields \subseteq DOMAIN win /\ Gallery!ThemesAgree

\* What the handlers do to the theme, whatever becomes of the layout.
LEMMA GalleryHelpers ==
  ASSUME NEW w, GalleryFields \subseteq DOMAIN w
  PROVE  /\ GalleryFields \subseteq DOMAIN Gallery!LayoutChildren(w)
         /\ \A f \in GalleryFields \ {"bar", "laid", "asked"} : Gallery!LayoutChildren(w)[f] = w[f]
         /\ w.asked \cup {"main"} = Gallery!LayoutChildren(w).asked
         /\ GalleryFields \subseteq DOMAIN Gallery!ApplyFonts(w)
         /\ \A f \in GalleryFields \ {"fonts", "asked"} : Gallery!ApplyFonts(w)[f] = w[f]
         /\ w.asked \cup {"children"} = Gallery!ApplyFonts(w).asked
  BY DEF GalleryFields, Gallery!LayoutChildren, Gallery!ApplyFonts, Gallery!Asking

\* Creation ends in one theme.
LEMMA GalleryStarted == Gallery!Init => GalleryInv
<1> SUFFICES ASSUME Gallery!Init PROVE GalleryInv
  OBVIOUS
<1>1. PICK size, dpi, mode : win = Gallery!CreateMain(size, dpi, mode)
  BY DEF Gallery!Init
<1> DEFINE created == Gallery!CreateChildren(
        [size |-> size, dpi |-> dpi, fonts |-> dpi, bar |-> 0, laid |-> <<>>, status |-> "none",
         mode |-> mode, palette |-> mode, active |-> "none", broker |-> mode, asked |-> {}])
           w == Gallery!ApplyFonts(created)
           v == Gallery!LayoutChildren(w)
<1>2. /\ GalleryFields \subseteq DOMAIN created
      /\ created.mode = mode /\ created.palette = mode /\ created.active = mode
      /\ created.broker = mode
  BY DEF GalleryFields, Gallery!CreateChildren, Gallery!RefreshChips, Gallery!SetStatusText, Gallery!Asking
<1>3. win = Gallery!Quiet(v)
  BY <1>1 DEF Gallery!CreateMain
<1> HIDE DEF created
<1>4. /\ GalleryFields \subseteq DOMAIN w
      /\ \A f \in GalleryFields \ {"fonts", "asked"} : w[f] = created[f]
  BY <1>2, GalleryHelpers
<1> HIDE DEF w
<1>5. /\ GalleryFields \subseteq DOMAIN v
      /\ \A f \in GalleryFields \ {"bar", "laid", "asked"} : v[f] = w[f]
  BY <1>4, GalleryHelpers
<1> HIDE DEF v
<1> QED BY <1>2, <1>3, <1>4, <1>5 DEF GalleryInv, GalleryFields, Gallery!ThemesAgree, Gallery!Quiet

\* Every handler ends in one theme, and asks for what it changed.
LEMMA GalleryStep == GalleryInv /\ Gallery!Next => GalleryInv' /\ Gallery!Repainted
<1> SUFFICES ASSUME GalleryInv, Gallery!Next PROVE GalleryInv' /\ Gallery!Repainted
  OBVIOUS
<1> DEFINE q == Gallery!Quiet(win)
<1>0. /\ GalleryFields \subseteq DOMAIN q
      /\ \A f \in GalleryFields \ {"asked"} : q[f] = win[f]
      /\ win.mode = win.broker /\ win.palette = win.broker /\ win.active = win.broker
  BY DEF GalleryInv, Gallery!ThemesAgree, Gallery!Quiet, GalleryFields
<1> HIDE DEF q
<1> USE DEF GalleryInv, Gallery!ThemesAgree, Gallery!Repainted, Gallery!PageFace, Gallery!ChildrenFace
<1>1. CASE Gallery!Resize
  <2>1. PICK size \in WindowSizes.gallery : win' = Gallery!LayoutChildren([q EXCEPT !.size = size])
    BY <1>1 DEF Gallery!Resize, q
  <2> DEFINE w == [q EXCEPT !.size = size]
  <2>2. GalleryFields \subseteq DOMAIN w /\ \A f \in GalleryFields \ {"size", "asked"} : w[f] = win[f]
    BY <1>0 DEF GalleryFields
  <2> HIDE DEF w
  <2>3. /\ GalleryFields \subseteq DOMAIN win' /\ "main" \in win'.asked
        /\ \A f \in GalleryFields \ {"size", "bar", "laid", "asked"} : win'[f] = win[f]
    <3>1. win' = Gallery!LayoutChildren(w)
      BY <2>1 DEF w
    <3> QED BY <2>2, <3>1, GalleryHelpers
  <2> QED BY <1>0, <2>3 DEF GalleryFields
<1>2. CASE Gallery!DpiChanged
  <2>1. PICK dpi \in Dpi.gallery, size \in WindowSizes.gallery :
           win' = Gallery!LayoutChildren(Gallery!ApplyFonts(Gallery!LayoutChildren(
                      [q EXCEPT !.dpi = dpi, !.size = size])))
    BY <1>2 DEF Gallery!DpiChanged, q
  <2> DEFINE w == [q EXCEPT !.dpi = dpi, !.size = size]
             v == Gallery!LayoutChildren(w)
             u == Gallery!ApplyFonts(v)
  <2>2. /\ GalleryFields \subseteq DOMAIN w
        /\ \A f \in GalleryFields \ {"dpi", "size", "asked"} : w[f] = win[f]
    BY <1>0 DEF GalleryFields
  <2>3. win' = Gallery!LayoutChildren(u)
    BY <2>1
  <2> HIDE DEF w
  <2>4. /\ GalleryFields \subseteq DOMAIN v
        /\ \A f \in GalleryFields \ {"bar", "laid", "asked"} : v[f] = w[f]
    BY <2>2, GalleryHelpers
  <2> HIDE DEF v
  <2>5. /\ GalleryFields \subseteq DOMAIN u /\ "children" \in u.asked
        /\ \A f \in GalleryFields \ {"fonts", "asked"} : u[f] = v[f]
    BY <2>4, GalleryHelpers
  <2> HIDE DEF u
  <2>6. /\ GalleryFields \subseteq DOMAIN win' /\ {"main", "children"} \subseteq win'.asked
        /\ \A f \in GalleryFields \ {"bar", "laid", "asked"} : win'[f] = u[f]
    BY <2>3, <2>5, GalleryHelpers
  <2> QED BY <1>0, <2>2, <2>4, <2>5, <2>6 DEF GalleryFields
<1>3. CASE Gallery!Command
  <2>1. PICK mode : win' = Gallery!BrokerSet(q, mode)
    BY <1>3 DEF Gallery!Command, q
  <2>2. CASE mode = q.broker
    BY <1>0, <2>1, <2>2 DEF Gallery!BrokerSet, GalleryFields
  <2>3. CASE mode # q.broker
    <3> DEFINE w == [q EXCEPT !.broker = mode]
               u == Gallery!ApplyTheme(w, mode)
    <3>1. /\ GalleryFields \subseteq DOMAIN w /\ w.broker = mode /\ w.mode # mode
          /\ \A f \in {"size", "dpi", "bar"} : w[f] = win[f]
      BY <1>0, <2>3 DEF GalleryFields
    <3>2. u = Gallery!Asking(Gallery!SetStatusText(Gallery!ApplyFonts(Gallery!RefreshChips(
                 [w EXCEPT !.mode = mode, !.palette = mode]))), {"main", "children"})
      BY <3>1 DEF Gallery!ApplyTheme
    <3> HIDE DEF w, u
    <3>3. /\ GalleryFields \subseteq DOMAIN u
          /\ u.broker = mode /\ u.mode = mode /\ u.palette = mode /\ u.active = mode
          /\ {"main", "children"} \subseteq u.asked
          /\ \A f \in {"size", "dpi", "bar"} : u[f] = w[f]
      BY <3>1, <3>2 DEF GalleryFields, Gallery!ApplyFonts, Gallery!RefreshChips, Gallery!SetStatusText,
                         Gallery!Asking
    <3>4. win' = u
      BY <2>1, <2>3, <3>3 DEF Gallery!BrokerSet, Gallery!ApplyTheme, u, w
    <3> QED BY <1>0, <3>1, <3>3, <3>4 DEF GalleryFields
  <2> QED BY <2>2, <2>3
<1>4. CASE Gallery!ThemeChanged
  <2>1. win' = q
    BY <1>0, <1>4 DEF Gallery!ThemeChanged, Gallery!ApplyTheme, GalleryFields, q
  <2> QED BY <1>0, <2>1 DEF GalleryFields
<1>5. CASE Gallery!ValueChanged
  <2>1. /\ GalleryFields \subseteq DOMAIN win' /\ "children" \in win'.asked
        /\ \A f \in GalleryFields \ {"status", "asked"} : win'[f] = win[f]
    BY <1>0, <1>5 DEF Gallery!ValueChanged, Gallery!UpdateGridStatus, Gallery!Asking,
                      GalleryFields, q
  <2> QED BY <1>0, <2>1 DEF GalleryFields
<1> QED BY <1>1, <1>2, <1>3, <1>4, <1>5 DEF Gallery!Next

-----------------------------------------------------------------------------
(* The playground                                                          *)

PlayFields == {"size", "dpi", "fonts", "laid", "mode", "palette", "from", "to", "fading", "animated",
               "dynamic", "enabled", "status", "label", "asked"}

PlayInv ==
    /\ PlayFields \subseteq DOMAIN win
    /\ Play!ThemesAgree /\ Play!StatusIsTrue

\* Creation ends in one theme, with a status bar that is true.
LEMMA PlayStarted == Play!Init => PlayInv
<1> SUFFICES ASSUME Play!Init PROVE PlayInv
  OBVIOUS
<1>1. PICK size, dpi, mode : win = Play!CreateMain(size, dpi, mode)
  BY DEF Play!Init
<1> QED BY <1>1 DEF PlayInv, PlayFields, Play!ThemesAgree, Play!StatusIsTrue, Play!CreateMain,
                    Play!Quiet, Play!Layout, Play!RefreshStatus, Play!Asking, Play!ApplyFonts,
                    Play!BuildPersistent

\* A fade ends in the theme that was chosen, whenever its timer elapses and
\* whatever is chosen meanwhile.
LEMMA PlayStep == PlayInv /\ Play!Next => PlayInv' /\ Play!Repainted
<1> SUFFICES ASSUME PlayInv, Play!Next PROVE PlayInv' /\ Play!Repainted
  OBVIOUS
<1> DEFINE q == Play!Quiet(win)
<1>0. /\ PlayFields \subseteq DOMAIN q
      /\ \A f \in PlayFields \ {"asked"} : q[f] = win[f]
      /\ IF win.fading THEN win.to = win.mode /\ win.to # "high_contrast"
         ELSE win.palette = win.mode
      /\ win.status = [mode |-> win.mode, dynamic |-> win.dynamic, enabled |-> win.enabled]
      /\ win.label = win.dynamic
  BY DEF PlayInv, Play!ThemesAgree, Play!StatusIsTrue, Play!IsHighContrast, Play!Quiet, PlayFields
<1> HIDE DEF q
<1> USE DEF PlayFields
<1> USE DEF PlayInv, Play!ThemesAgree, Play!StatusIsTrue, Play!IsHighContrast, Play!Repainted,
            Play!PageFace, Play!ChildrenFace
<1>1. CASE Play!Resize
  <2>1. /\ PlayFields \subseteq DOMAIN win' /\ "main" \in win'.asked
        /\ \A f \in PlayFields \ {"size", "laid", "asked"} : win'[f] = win[f]
    BY <1>0, <1>1 DEF Play!Resize, Play!Layout, Play!Asking, q
  <2> QED BY <1>0, <2>1
<1>2. CASE Play!DpiChanged
  <2>1. /\ PlayFields \subseteq DOMAIN win' /\ {"main", "children"} \subseteq win'.asked
        /\ \A f \in PlayFields \ {"dpi", "fonts", "size", "laid", "asked"} : win'[f] = win[f]
    <3>1. PICK dpi, size : win' = Play!Asking(Play!Layout(Play!ApplyFonts(
                              [q EXCEPT !.dpi = dpi, !.size = size])), {"main"})
      BY <1>2 DEF Play!DpiChanged, q
    <3> QED BY <1>0, <3>1 DEF Play!ApplyFonts, Play!Layout, Play!Asking
  <2> QED BY <1>0, <2>1
<1>3. CASE \E mode \in Play!Modes : win' = Play!SwitchMode(q, mode)
  <2>1. PICK mode : win' = Play!SwitchMode(q, mode)
    BY <1>3
  <2>2. CASE mode = q.mode
    BY <1>0, <2>1, <2>2 DEF Play!SwitchMode
  <2>3. CASE mode # q.mode /\ (q.palette = "high_contrast" \/ mode = "high_contrast" \/ ~q.animated)
    <3>1. win' = Play!Asking(Play!RefreshStatus(Play!ApplyPaletteToAll(
                    [[q EXCEPT !.mode = mode] EXCEPT !.fading = FALSE, !.palette = mode])), {"main"})
      BY <2>1, <2>3 DEF Play!SwitchMode
    <3>2. /\ PlayFields \subseteq DOMAIN win' /\ {"main", "children", "status"} \subseteq win'.asked
          /\ win'.mode = mode /\ win'.palette = mode /\ ~win'.fading
          /\ win'.status = [mode |-> mode, dynamic |-> win.dynamic, enabled |-> win.enabled]
          /\ win'.label = win.label /\ win'.dynamic = win.dynamic /\ win'.enabled = win.enabled
      BY <1>0, <3>1 DEF Play!ApplyPaletteToAll, Play!RefreshStatus, Play!Asking
    <3> QED BY <1>0, <3>2
  <2>4. CASE mode # q.mode /\ q.palette # "high_contrast" /\ mode # "high_contrast" /\ q.animated
    <3>1. win' = Play!RefreshStatus([[q EXCEPT !.mode = mode] EXCEPT
                    !.from = q.palette, !.to = mode, !.fading = TRUE])
      BY <1>0, <2>1, <2>4 DEF Play!SwitchMode
    <3>2. /\ PlayFields \subseteq DOMAIN win' /\ "status" \in win'.asked
          /\ win'.mode = mode /\ win'.to = mode /\ win'.fading
          /\ win'.status = [mode |-> mode, dynamic |-> win.dynamic, enabled |-> win.enabled]
          /\ \A f \in {"size", "dpi", "fonts", "palette", "label", "dynamic", "enabled"} :
                win'[f] = win[f]
      BY <1>0, <3>1 DEF Play!RefreshStatus, Play!Asking
    <3> QED BY <1>0, <2>4, <3>2
  <2> QED BY <2>2, <2>3, <2>4
\* What is added or removed is counted by the status bar and by the label.
<1>4. ASSUME NEW n, win' = Play!AfterDynamicChange([q EXCEPT !.dynamic = n])
      PROVE  PlayInv' /\ Play!Repainted
  <2>1. /\ PlayFields \subseteq DOMAIN win' /\ {"main", "children", "status"} \subseteq win'.asked
        /\ win'.dynamic = n /\ win'.label = n
        /\ win'.status = [mode |-> win.mode, dynamic |-> n, enabled |-> win.enabled]
        /\ \A f \in PlayFields \ {"laid", "dynamic", "label", "status", "asked"} : win'[f] = win[f]
    BY <1>0, <1>4 DEF Play!AfterDynamicChange, Play!RefreshStatus, Play!Layout, Play!Asking
  <2> QED BY <1>0, <2>1
<1>5. CASE win' = q
  BY <1>0, <1>5
<1>6. CASE Play!AddDynamic \/ Play!RemoveDynamic \/ Play!ClearDynamic
  <2>1. \/ win' = q
        \/ win' = Play!AfterDynamicChange([q EXCEPT !.dynamic = q.dynamic + 1])
        \/ win' = Play!AfterDynamicChange([q EXCEPT !.dynamic = q.dynamic - 1])
        \/ win' = Play!AfterDynamicChange([q EXCEPT !.dynamic = 0])
    BY <1>0, <1>6 DEF Play!AddDynamic, Play!RemoveDynamic, Play!ClearDynamic, q
  <2> QED BY <1>4, <1>5, <2>1
<1>7. CASE win' = Play!ToggleSampleEnabled(q)
  <2>1. /\ PlayFields \subseteq DOMAIN win' /\ {"children", "status"} \subseteq win'.asked
        /\ win'.status = [mode |-> win.mode, dynamic |-> win.dynamic, enabled |-> win'.enabled]
        /\ \A f \in PlayFields \ {"enabled", "status", "asked"} : win'[f] = win[f]
    BY <1>0, <1>7 DEF Play!ToggleSampleEnabled, Play!RefreshStatus, Play!Asking
  <2> QED BY <1>0, <2>1
<1>8. CASE Play!Timer
  <2>1. PICK over \in BOOLEAN : win' \in Play!StepThemeFade(q, over)
    BY <1>8 DEF Play!Timer, q
  <2>2. CASE ~q.fading
    BY <1>5, <2>1, <2>2 DEF Play!StepThemeFade
  <2>3. CASE q.fading
    <3>1. PICK p, fading : /\ win' = Play!Asking(Play!ApplyPaletteToAll(
                                        [q EXCEPT !.palette = p, !.fading = fading]), {"main"})
                           /\ fading \/ p = q.to
      <4>1. CASE over
        BY <2>1, <2>3, <4>1 DEF Play!StepThemeFade
      <4>2. CASE ~over
        <5>1. PICK p \in {q.from, Play!Blend} :
                 win' = Play!Asking(Play!ApplyPaletteToAll([q EXCEPT !.palette = p]), {"main"})
          BY <2>1, <2>3, <4>2 DEF Play!StepThemeFade
        <5>2. [q EXCEPT !.palette = p] = [q EXCEPT !.palette = p, !.fading = q.fading]
          BY <1>0
        <5> QED BY <2>3, <5>1, <5>2
      <4> QED BY <4>1, <4>2
    <3>2. /\ PlayFields \subseteq DOMAIN win' /\ {"main", "children"} \subseteq win'.asked
          /\ win'.palette = p /\ win'.fading = fading
          /\ \A f \in PlayFields \ {"palette", "fading", "asked"} : win'[f] = win[f]
      BY <1>0, <3>1 DEF Play!ApplyPaletteToAll, Play!Asking
    <3> QED BY <1>0, <2>3, <3>1, <3>2
  <2> QED BY <2>2, <2>3
<1>9. CASE Play!SystemSetting
  <2>1. /\ PlayFields \subseteq DOMAIN win'
        /\ \A f \in PlayFields \ {"animated", "asked"} : win'[f] = win[f]
    BY <1>0, <1>9 DEF Play!SystemSetting, q
  <2> QED BY <1>0, <2>1
<1> QED BY <1>1, <1>2, <1>3, <1>6, <1>7, <1>8, <1>9 DEF Play!Next, Play!Command, q

-----------------------------------------------------------------------------
(* The resource gallery                                                    *)

\* Where the answer to the request is kept, the leave message is due or the request
\* was refused.
LEMMA AskedToLeave ==
  ASSUME NEW w, NEW granted \in BOOLEAN, NEW fields, fields \subseteq DOMAIN w,
         {"tracking", "refused"} \subseteq fields
  PROVE  LET v == IF w.tracking THEN w ELSE [w EXCEPT !.tracking = granted, !.refused = ~granted]
         IN /\ fields \subseteq DOMAIN v
            /\ v.tracking \/ v.refused
            /\ \A f \in fields \ {"tracking", "refused"} : v[f] = w[f]
<1> DEFINE v == IF w.tracking THEN w ELSE [w EXCEPT !.tracking = granted, !.refused = ~granted]
<1>1. CASE w.tracking
  BY <1>1
<1>2. CASE ~w.tracking /\ granted
  <2>1. v = [w EXCEPT !.tracking = TRUE, !.refused = FALSE]
    BY <1>2
  <2> HIDE DEF v
  <2>2. /\ fields \subseteq DOMAIN v /\ v.tracking
        /\ \A f \in fields \ {"tracking", "refused"} : v[f] = w[f]
    BY <2>1
  <2> QED BY <2>2 DEF v
<1>3. CASE ~w.tracking /\ ~granted
  <2>1. v = [w EXCEPT !.tracking = FALSE, !.refused = TRUE]
    BY <1>3
  <2> HIDE DEF v
  <2>2. /\ fields \subseteq DOMAIN v /\ v.refused
        /\ \A f \in fields \ {"tracking", "refused"} : v[f] = w[f]
    BY <2>1
  <2> QED BY <2>2 DEF v
<1> QED BY <1>1, <1>2, <1>3

ResourceFields == {"size", "dpi", "fonts", "laid", "group", "row", "hoverGroup", "hoverRow", "tracking",
                   "refused", "broker", "mode", "palette", "menu", "bar", "asked"}

ResourceInv ==
    /\ ResourceFields \subseteq DOMAIN win
    /\ Resources!ThemesAgree /\ Resources!HoverEnds

\* Creation ends in one theme, with nothing hovered.
LEMMA ResourceStarted == Resources!Init => ResourceInv
<1> SUFFICES ASSUME Resources!Init PROVE ResourceInv
  OBVIOUS
<1>1. PICK size, dpi, mode : win = Resources!CreateMain(size, dpi, mode)
  BY DEF Resources!Init
<1> QED BY <1>1 DEF ResourceInv, ResourceFields, Resources!ThemesAgree, Resources!HoverEnds,
                    Resources!CreateMain, Resources!Quiet, Resources!Layout, Resources!Asking,
                    Resources!Nothing

\* A layout asks for the page and leaves everything but itself.
LEMMA ResourceLayout ==
  ASSUME NEW w, ResourceFields \subseteq DOMAIN w
  PROVE  /\ ResourceFields \subseteq DOMAIN Resources!Layout(w)
         /\ \A f \in ResourceFields \ {"laid", "asked"} : Resources!Layout(w)[f] = w[f]
         /\ Resources!Layout(w).asked = w.asked \cup {"main"}
  BY DEF ResourceFields, Resources!Layout, Resources!Asking

\* Every handler keeps the windows in one theme and the hover tracked, and asks for
\* what it changed.
LEMMA ResourceStep == ResourceInv /\ Resources!Next => ResourceInv' /\ Resources!Repainted
<1> SUFFICES ASSUME ResourceInv, Resources!Next PROVE ResourceInv' /\ Resources!Repainted
  OBVIOUS
<1> DEFINE q == Resources!Quiet(win)
<1>0. /\ ResourceFields \subseteq DOMAIN q
      /\ \A f \in ResourceFields \ {"asked"} : q[f] = win[f]
      /\ win.mode = win.broker /\ win.palette = win.broker
      /\ win.menu = win.broker /\ win.bar = win.broker
      /\ win.hoverGroup # 0 \/ win.hoverRow # 0 => win.tracking \/ win.refused
  BY DEF ResourceInv, Resources!ThemesAgree, Resources!HoverEnds, Resources!Nothing, Resources!Quiet,
         ResourceFields
<1> HIDE DEF q
<1> USE DEF ResourceInv, Resources!ThemesAgree, Resources!HoverEnds, Resources!Nothing,
            Resources!Repainted, Resources!PageFace, Resources!StatusFace
\* A handler that asks for the page, and changes neither the themes nor the hover.
<1>1. ASSUME ResourceFields \subseteq DOMAIN win', "main" \in win'.asked,
             \A f \in ResourceFields \ {"size", "dpi", "laid", "row", "asked"} : win'[f] = win[f]
      PROVE  ResourceInv' /\ Resources!Repainted
  BY <1>0, <1>1 DEF ResourceFields
\* A handler that changes nothing that is seen.
<1>2. ASSUME ResourceFields \subseteq DOMAIN win',
             \A f \in ResourceFields \ {"asked"} : win'[f] = win[f]
      PROVE  ResourceInv' /\ Resources!Repainted
  BY <1>0, <1>2 DEF ResourceFields, Resources!PaintedRows
<1>3. ASSUME win' = Resources!Reload(q)
      PROVE  ResourceInv' /\ Resources!Repainted
  <2>1. /\ ResourceFields \subseteq DOMAIN win' /\ "main" \in win'.asked
        /\ \A f \in ResourceFields \ {"laid", "asked"} : win'[f] = q[f]
    BY <1>0, <1>3, ResourceLayout DEF Resources!Reload, Resources!Asking, ResourceFields
  <2> QED BY <1>0, <1>1, <2>1 DEF ResourceFields
<1>4. ASSUME NEW g, win' = Resources!SelectGroup(q, g)
      PROVE  ResourceInv' /\ Resources!Repainted
  <2>1. CASE g = q.group
    BY <1>0, <1>2, <1>4, <2>1 DEF Resources!SelectGroup
  <2>2. CASE g # q.group
    <3>1. /\ ResourceFields \subseteq DOMAIN win' /\ "main" \in win'.asked /\ win'.hoverRow = 0
          /\ \A f \in ResourceFields \ {"group", "hoverRow", "asked"} : win'[f] = win[f]
      BY <1>0, <1>4, <2>2 DEF Resources!SelectGroup, Resources!Asking, ResourceFields
    <3> QED BY <1>0, <3>1 DEF ResourceFields
  <2> QED BY <2>1, <2>2
<1>5. CASE Resources!Resize
  <2>1. PICK size : win' = Resources!Asking(Resources!Layout([q EXCEPT !.size = size]), {"main"})
    BY <1>5 DEF Resources!Resize, q
  <2> DEFINE w == [q EXCEPT !.size = size]
  <2>2. /\ ResourceFields \subseteq DOMAIN w
        /\ \A f \in ResourceFields \ {"size", "asked"} : w[f] = win[f]
    BY <1>0 DEF ResourceFields
  <2>3. win' = Resources!Asking(Resources!Layout(w), {"main"})
    BY <2>1
  <2> HIDE DEF w
  <2>4. /\ ResourceFields \subseteq DOMAIN win' /\ "main" \in win'.asked
        /\ \A f \in ResourceFields \ {"laid", "asked"} : win'[f] = w[f]
    BY <2>2, <2>3, ResourceLayout DEF Resources!Asking, ResourceFields
  <2> QED BY <1>1, <2>2, <2>4 DEF ResourceFields
<1>6. CASE Resources!DpiChanged
  <2>1. PICK dpi, size : win' = Resources!Asking(Resources!Layout(Resources!ApplyFonts(
                            Resources!Layout([q EXCEPT !.dpi = dpi, !.size = size]))), {"main"})
    BY <1>6 DEF Resources!DpiChanged, q
  <2> DEFINE w == [q EXCEPT !.dpi = dpi, !.size = size]
             v == Resources!ApplyFonts(Resources!Layout(w))
  <2>2. /\ ResourceFields \subseteq DOMAIN w
        /\ \A f \in ResourceFields \ {"size", "dpi", "asked"} : w[f] = win[f]
    BY <1>0 DEF ResourceFields
  <2>3. win' = Resources!Asking(Resources!Layout(v), {"main"})
    BY <2>1
  <2> HIDE DEF w
  <2>4. /\ ResourceFields \subseteq DOMAIN v /\ "status" \in v.asked
        /\ \A f \in ResourceFields \ {"fonts", "laid", "asked"} : v[f] = w[f]
    BY <2>2, ResourceLayout DEF Resources!ApplyFonts, Resources!Asking, ResourceFields
  <2> HIDE DEF v
  <2>5. /\ ResourceFields \subseteq DOMAIN win' /\ {"main", "status"} \subseteq win'.asked
        /\ \A f \in ResourceFields \ {"laid", "asked"} : win'[f] = v[f]
    BY <2>3, <2>4, ResourceLayout DEF Resources!Asking, ResourceFields
  <2> QED BY <1>0, <2>2, <2>4, <2>5 DEF ResourceFields
<1>7. CASE Resources!ThemeChanged
  <2>1. win' = q
    BY <1>0, <1>7 DEF Resources!ThemeChanged, Resources!ApplyTheme, ResourceFields, q
  <2> QED BY <1>0, <1>2, <2>1
<1>8. CASE Resources!MouseMove
  <2>1. PICK p : \E granted \in BOOLEAN : win' = Resources!TrackHover(q, p, granted)
    BY <1>8 DEF Resources!MouseMove, q
  <2> PICK granted \in BOOLEAN : win' = Resources!TrackHover(q, p, granted)
    BY <2>1
  <2> DEFINE w == Resources!Tracked(q, granted)
  <2>2. /\ ResourceFields \subseteq DOMAIN w /\ (w.tracking \/ w.refused)
        /\ \A f \in ResourceFields \ {"tracking", "refused", "asked"} : w[f] = win[f]
    <3>1. {"tracking", "refused"} \subseteq ResourceFields
      BY DEF ResourceFields
    <3>2. /\ ResourceFields \subseteq DOMAIN w /\ (w.tracking \/ w.refused)
          /\ \A f \in ResourceFields \ {"tracking", "refused"} : w[f] = q[f]
      BY <1>0, <3>1, AskedToLeave DEF Resources!Tracked
    <3> HIDE DEF w
    <3> QED BY <1>0, <3>2
  <2>3. \/ win' = w
        \/ \E g, r : win' = Resources!Asking([w EXCEPT !.hoverGroup = g, !.hoverRow = r], {"main"})
    BY DEF Resources!TrackHover
  <2> HIDE DEF w
  <2>4. /\ ResourceFields \subseteq DOMAIN win' /\ (win'.tracking \/ win'.refused)
        /\ \A f \in ResourceFields \ {"hoverGroup", "hoverRow", "tracking", "refused", "asked"} :
              win'[f] = win[f]
        /\ \/ "main" \in win'.asked
           \/ win'.hoverGroup = win.hoverGroup /\ win'.hoverRow = win.hoverRow
    BY <2>2, <2>3 DEF Resources!Asking, ResourceFields
  <2> QED BY <1>0, <2>4 DEF ResourceFields, Resources!PaintedRows
<1>9. CASE Resources!MouseLeave
  <2>1. /\ ResourceFields \subseteq DOMAIN win'
        /\ \A f \in ResourceFields \ {"hoverGroup", "hoverRow", "tracking", "asked"} : win'[f] = win[f]
        /\ win'.hoverGroup = 0 /\ win'.hoverRow = 0
        /\ \/ "main" \in win'.asked
           \/ win'.hoverGroup = win.hoverGroup /\ win'.hoverRow = win.hoverRow
    BY <1>0, <1>9 DEF Resources!MouseLeave, Resources!Asking, ResourceFields, q
  <2> QED BY <1>0, <2>1 DEF ResourceFields, Resources!PaintedRows
<1>10. CASE Resources!LButtonUp
  <2>1. PICK p : win' = Resources!HandleClick(q, p)
    BY <1>10 DEF Resources!LButtonUp, q
  <2>2. \/ win' = q \/ win' = Resources!Reload(q)
        \/ \E g : win' = Resources!SelectGroup(q, g)
        \/ \E i : win' = Resources!Asking([q EXCEPT !.row = i], {"main"})
    BY <2>1 DEF Resources!HandleClick
  <2>3. ASSUME NEW i, win' = Resources!Asking([q EXCEPT !.row = i], {"main"})
        PROVE  ResourceInv' /\ Resources!Repainted
    <3>1. /\ ResourceFields \subseteq DOMAIN win' /\ "main" \in win'.asked
          /\ \A f \in ResourceFields \ {"row", "asked"} : win'[f] = win[f]
      BY <1>0, <2>3 DEF Resources!Asking, ResourceFields
    <3> QED BY <1>1, <3>1 DEF ResourceFields
  <2>4. CASE win' = q
    BY <1>0, <1>2, <2>4
  <2> QED BY <1>3, <1>4, <2>2, <2>3, <2>4
<1>11. ASSUME NEW mode, win' = Resources!BrokerSet(q, mode)
       PROVE  ResourceInv' /\ Resources!Repainted
  <2>1. CASE mode = q.broker
    BY <1>0, <1>2, <1>11, <2>1 DEF Resources!BrokerSet
  <2>2. CASE mode # q.broker
    <3> DEFINE w == [q EXCEPT !.broker = mode]
               v == Resources!ApplyFonts([w EXCEPT !.mode = mode, !.palette = mode, !.menu = mode,
                                                   !.bar = mode])
               u == Resources!ApplyTheme(w, mode)
    <3>1. /\ ResourceFields \subseteq DOMAIN w /\ w.broker = mode /\ w.mode # mode
          /\ w.tracking = win.tracking /\ w.refused = win.refused
          /\ w.hoverGroup = win.hoverGroup /\ w.hoverRow = win.hoverRow
      BY <1>0, <2>2 DEF ResourceFields
    <3>2. u = Resources!Asking(Resources!Layout(v), {"main", "menu", "status"})
      BY <3>1 DEF Resources!ApplyTheme
    <3> HIDE DEF w, u
    <3>3. /\ ResourceFields \subseteq DOMAIN v
          /\ v.broker = mode /\ v.mode = mode /\ v.palette = mode /\ v.menu = mode /\ v.bar = mode
          /\ \A f \in {"tracking", "refused", "hoverGroup", "hoverRow"} : v[f] = w[f]
      BY <3>1 DEF ResourceFields, Resources!ApplyFonts, Resources!Asking
    <3> HIDE DEF v
    <3>4. /\ ResourceFields \subseteq DOMAIN u /\ {"main", "menu", "status"} \subseteq u.asked
          /\ \A f \in ResourceFields \ {"laid", "asked"} : u[f] = v[f]
      BY <3>2, <3>3, ResourceLayout DEF Resources!Asking, ResourceFields
    <3>5. u.mode = mode
      BY <3>3, <3>4 DEF ResourceFields
    <3>6. win' = u
      BY <1>11, <2>2, <3>5 DEF Resources!BrokerSet, Resources!ApplyTheme, u, w
    <3> QED BY <1>0, <3>1, <3>3, <3>4, <3>6 DEF ResourceFields
  <2> QED BY <2>1, <2>2
<1>12. CASE Resources!Command
  BY <1>3, <1>4, <1>11, <1>12 DEF Resources!Command, q
<1> QED BY <1>5, <1>6, <1>7, <1>8, <1>9, <1>10, <1>12 DEF Resources!Next

-----------------------------------------------------------------------------
(* The panels of the dashboard                                             *)

PanelFields == {"size", "laid", "tiles", "compared", "shown", "hovered", "pressed", "tracking", "refused", "checked",
                "ring", "selection", "readout", "status", "asked"}

PanelInv == PanelFields \subseteq DOMAIN win /\ Panels!HoverEnds

\* At first nothing is hovered.
LEMMA PanelsStarted == Panels!Init => PanelInv
  BY DEF Panels!Init, PanelInv, PanelFields, Panels!HoverEnds, Panels!None

\* Every handler keeps the hover tracked, and asks for what it changed.
LEMMA PanelsStep == PanelInv /\ Panels!Next => PanelInv' /\ Panels!Repainted
<1> SUFFICES ASSUME PanelInv, Panels!Next PROVE PanelInv' /\ Panels!Repainted
  OBVIOUS
<1> DEFINE q == Panels!Quiet(win)
<1>0. /\ PanelFields \subseteq DOMAIN q
      /\ \A f \in PanelFields \ {"asked"} : q[f] = win[f]
      /\ win.hovered # "none" => win.tracking \/ win.refused
  BY DEF PanelInv, Panels!HoverEnds, Panels!None, Panels!Quiet, PanelFields
<1> HIDE DEF q
\* What a step has to show of itself.
<1> DEFINE Fine ==
        /\ PanelFields \subseteq DOMAIN win'
        /\ win'.hovered # "none" => win'.tracking \/ win'.refused
        /\ \/ "main" \in win'.asked
           \/ win'.size = win.size /\ win'.hovered = win.hovered /\ win'.status = win.status
        /\ \/ "info" \in win'.asked
           \/ /\ win'.laid = win.laid /\ win'.compared = win.compared /\ win'.checked = win.checked
              /\ win'.ring = win.ring /\ win'.selection = win.selection /\ win'.readout = win.readout
<1>1. Fine => PanelInv' /\ Panels!Repainted
  BY DEF PanelInv, Panels!HoverEnds, Panels!None, Panels!Repainted, Panels!Face, Panels!PanelTexts
<1> SUFFICES Fine
  BY <1>1
<1> HIDE <1>1
<1> USE DEF PanelFields
<1>2. CASE Panels!Resize
  <2>1. PICK size : win' = Panels!LayoutChildren([q EXCEPT !.size = size])
    BY <1>2 DEF Panels!Resize, q
  <2> QED BY <1>0, <2>1 DEF Panels!LayoutChildren, Panels!Asking
<1>3. CASE \E b : Panels!MouseMove(b)
  <2>1. PICK hit : \E granted \in BOOLEAN :
           LET w == Panels!Tracked(q, granted)
           IN win' = IF hit = w.hovered THEN w
                     ELSE Panels!Asking([w EXCEPT !.hovered = hit], {"main"})
    BY <1>3 DEF Panels!MouseMove, q
  <2> PICK granted \in BOOLEAN :
           win' = IF hit = Panels!Tracked(q, granted).hovered THEN Panels!Tracked(q, granted)
                  ELSE Panels!Asking([Panels!Tracked(q, granted) EXCEPT !.hovered = hit], {"main"})
    BY <2>1
  <2> DEFINE w == Panels!Tracked(q, granted)
  <2>2. /\ PanelFields \subseteq DOMAIN w /\ (w.tracking \/ w.refused)
        /\ \A f \in PanelFields \ {"tracking", "refused", "asked"} : w[f] = win[f]
    <3>1. {"tracking", "refused"} \subseteq PanelFields
      OBVIOUS
    <3> HIDE DEF PanelFields
    <3>2. /\ PanelFields \subseteq DOMAIN w /\ (w.tracking \/ w.refused)
          /\ \A f \in PanelFields \ {"tracking", "refused"} : w[f] = q[f]
      BY <1>0, <3>1, AskedToLeave DEF Panels!Tracked
    <3> HIDE DEF w
    <3> QED BY <1>0, <3>2
  <2>3. win' = IF hit = w.hovered THEN w ELSE Panels!Asking([w EXCEPT !.hovered = hit], {"main"})
    OBVIOUS
  <2> HIDE DEF w
  <2> QED BY <1>0, <2>2, <2>3 DEF Panels!Asking
<1>4. CASE Panels!MouseLeave
  <2>1. win' = Panels!Asking([q EXCEPT !.tracking = FALSE, !.hovered = "none"],
                             IF win.hovered = "none" THEN {} ELSE {"main"})
    BY <1>4 DEF Panels!MouseLeave, Panels!None, q
  <2> QED BY <1>0, <2>1 DEF Panels!Asking
<1>5. CASE \E b : Panels!LButtonDown(b)
  <2>1. PICK hit : win' = Panels!Asking([q EXCEPT !.pressed = hit], {"main"})
    BY <1>5 DEF Panels!LButtonDown, q
  <2> QED BY <1>0, <2>1 DEF Panels!Asking
<1>6. CASE \E b : Panels!LButtonUp(b)
  <2> DEFINE w == Panels!Asking([q EXCEPT !.pressed = "none"], {"main"})
  <2>1. \/ win' = w \/ win' = Panels!SetStatusText(w, "view reset")
        \/ win' = Panels!SetStatusText(w, "exported")
    BY <1>6 DEF Panels!LButtonUp, Panels!Command, Panels!None, q
  <2>2. /\ PanelFields \subseteq DOMAIN w /\ "main" \in w.asked
        /\ \A f \in PanelFields \ {"pressed", "asked"} : w[f] = win[f]
    BY <1>0 DEF Panels!Asking
  <2> HIDE DEF w
  <2> QED BY <1>0, <2>1, <2>2 DEF Panels!SetStatusText, Panels!Asking
<1>7. CASE \E t : Panels!PanelPress(t)
  <2>1. \/ win' = q
        \/ \E row : win' = Panels!Asking([q EXCEPT !.checked[row] = ~@], {"info"})
        \/ win' = Panels!Asking(Panels!ToggleComparison([q EXCEPT !.compared = ~@]), {"info"})
    BY <1>7 DEF Panels!PanelPress, q
  <2>2. ASSUME NEW row, win' = Panels!Asking([q EXCEPT !.checked[row] = ~@], {"info"})
        PROVE  Fine
    BY <1>0, <2>2 DEF Panels!Asking
  <2>3. CASE win' = Panels!Asking(Panels!ToggleComparison([q EXCEPT !.compared = ~@]), {"info"})
    BY <1>0, <2>3 DEF Panels!ToggleComparison, Panels!LayoutChildren, Panels!Asking
  <2>4. CASE win' = q
    BY <1>0, <2>4
  <2> QED BY <2>1, <2>2, <2>3, <2>4
<1>8. CASE \E t : Panels!PanelMove(t)
  <2>1. win' = q \/ \E row : win' = Panels!Asking([q EXCEPT !.ring = row], {"info"})
    BY <1>8 DEF Panels!PanelMove, q
  <2> QED BY <1>0, <2>1 DEF Panels!Asking
<1>9. CASE \E points : Panels!RangeSelected(points)
  <2>1. PICK points : win' = Panels!SetStatusText(
                         Panels!Asking([q EXCEPT !.selection = points], {"info"}), "chart")
    BY <1>9 DEF Panels!RangeSelected, q
  <2> QED BY <1>0, <2>1 DEF Panels!SetStatusText, Panels!Asking
<1>10. CASE \E values : Panels!CursorMoved(values)
  <2>1. PICK values :
           LET w == Panels!Asking([q EXCEPT !.readout = values], {"info"})
           IN win' = w \/ win' = Panels!SetStatusText(w, "chart")
    BY <1>10 DEF Panels!CursorMoved, q
  <2> QED BY <1>0, <2>1 DEF Panels!SetStatusText, Panels!Asking
<1> QED BY <1>2, <1>3, <1>4, <1>5, <1>6, <1>7, <1>8, <1>9, <1>10 DEF Panels!Next

-----------------------------------------------------------------------------
(* The workbench                                                           *)

WorkbenchFields == {"size", "dpi", "laid", "tools", "due", "hovered", "tracking", "refused", "mode",
                    "broker", "selected", "zoom", "status", "asked"}

WorkbenchInv == WorkbenchFields \subseteq DOMAIN win /\ Workbench!HoverEnds

\* At first nothing is hovered.
LEMMA WorkbenchStarted == Workbench!Init => WorkbenchInv
  BY DEF Workbench!Init, Workbench!Created, WorkbenchInv, WorkbenchFields, Workbench!HoverEnds,
         Workbench!NoTool

\* Every handler keeps the hover tracked, and asks for what it changed.
LEMMA WorkbenchStep == WorkbenchInv /\ Workbench!Next => WorkbenchInv' /\ Workbench!Repainted
<1> SUFFICES ASSUME WorkbenchInv, Workbench!Next PROVE WorkbenchInv' /\ Workbench!Repainted
  OBVIOUS
<1> DEFINE q == Workbench!Quiet(win)
<1>0. /\ WorkbenchFields \subseteq DOMAIN q
      /\ \A f \in WorkbenchFields \ {"asked"} : q[f] = win[f]
      /\ win.hovered # "none" => win.tracking \/ win.refused
  BY DEF WorkbenchInv, Workbench!HoverEnds, Workbench!NoTool, Workbench!Quiet, WorkbenchFields
<1> HIDE DEF q
<1> DEFINE Fine ==
        /\ WorkbenchFields \subseteq DOMAIN win'
        /\ win'.hovered # "none" => win'.tracking \/ win'.refused
        /\ \/ "main" \in win'.asked
           \/ /\ win'.size = win.size /\ win'.dpi = win.dpi /\ win'.mode = win.mode
              /\ win'.hovered = win.hovered /\ win'.zoom = win.zoom
        /\ \/ "inspector" \in win'.asked
           \/ win'.laid = win.laid /\ win'.dpi = win.dpi /\ win'.selected = win.selected
        /\ "status" \in win'.asked \/ win'.status = win.status
<1>1. Fine => WorkbenchInv' /\ Workbench!Repainted
  BY DEF WorkbenchInv, Workbench!HoverEnds, Workbench!NoTool, Workbench!Repainted, Workbench!Face,
         Workbench!ToolbarFace, Workbench!HeaderFace, Workbench!RightPaneFace, Workbench!InspectorFace
<1> SUFFICES Fine
  BY <1>1
<1> HIDE <1>1
<1> USE DEF WorkbenchFields
<1>2. CASE Workbench!Paint
  BY <1>0, <1>2 DEF Workbench!Paint, q
<1>3. CASE Workbench!Resize
  <2>1. PICK size : win' = Workbench!Layout([q EXCEPT !.size = size])
    BY <1>3 DEF Workbench!Resize, q
  <2> QED BY <1>0, <2>1 DEF Workbench!Layout, Workbench!Asking
<1>4. CASE Workbench!DpiChanged
  <2>1. PICK dpi, size : win' = Workbench!Layout(Workbench!Layout([q EXCEPT !.dpi = dpi, !.size = size]))
    BY <1>4 DEF Workbench!DpiChanged, q
  <2> DEFINE w == Workbench!Layout([q EXCEPT !.dpi = dpi, !.size = size])
  <2>2. /\ WorkbenchFields \subseteq DOMAIN w
        /\ \A f \in WorkbenchFields \ {"dpi", "size", "laid", "due", "asked"} : w[f] = win[f]
    BY <1>0 DEF Workbench!Layout, Workbench!Asking
  <2> HIDE DEF w
  <2>3. win' = Workbench!Layout(w)
    BY <2>1 DEF w
  <2> QED BY <1>0, <2>2, <2>3 DEF Workbench!Layout, Workbench!Asking
<1>5. CASE \E t : Workbench!MouseMove(t)
  <2>1. PICK hit : \E granted \in BOOLEAN :
           LET w == Workbench!Tracked(q, granted)
           IN win' = IF hit = w.hovered THEN w
                     ELSE Workbench!Asking([w EXCEPT !.hovered = hit], {"main"})
    BY <1>5 DEF Workbench!MouseMove, q
  <2> PICK granted \in BOOLEAN :
           win' = IF hit = Workbench!Tracked(q, granted).hovered THEN Workbench!Tracked(q, granted)
                  ELSE Workbench!Asking([Workbench!Tracked(q, granted) EXCEPT !.hovered = hit], {"main"})
    BY <2>1
  <2> DEFINE w == Workbench!Tracked(q, granted)
  <2>2. /\ WorkbenchFields \subseteq DOMAIN w /\ w.tracking
        /\ \A f \in WorkbenchFields \ {"tracking", "refused", "asked"} : w[f] = win[f]
    BY <1>0 DEF Workbench!Tracked
  <2>3. win' = IF hit = w.hovered THEN w ELSE Workbench!Asking([w EXCEPT !.hovered = hit], {"main"})
    OBVIOUS
  <2> HIDE DEF w
  <2> QED BY <1>0, <2>2, <2>3 DEF Workbench!Asking
<1>6. CASE Workbench!MouseLeave
  <2>1. win' = Workbench!Asking([q EXCEPT !.tracking = FALSE, !.hovered = "none"],
                                IF win.hovered = "none" THEN {} ELSE {"main"})
    BY <1>6 DEF Workbench!MouseLeave, Workbench!NoTool, q
  <2> QED BY <1>0, <2>1 DEF Workbench!Asking
<1>7. CASE (\E t : Workbench!LButtonDown(t)) \/ Workbench!ContextRefresh
  <2>1. win' = q \/ win' = Workbench!SetCommand(q)
    BY <1>7 DEF Workbench!LButtonDown, Workbench!ContextRefresh, q
  <2> QED BY <1>0, <2>1 DEF Workbench!SetCommand, Workbench!Asking
<1>8. CASE Workbench!Scroll
  <2>1. PICK zoom : win' = Workbench!Asking(Workbench!SetStatus([q EXCEPT !.zoom = zoom], "ready"), {"main"})
    BY <1>8 DEF Workbench!Scroll, q
  <2> QED BY <1>0, <2>1 DEF Workbench!SetStatus, Workbench!Asking
<1>9. CASE Workbench!SelectRow
  <2>1. PICK row : win' = Workbench!SetStatus(
                      Workbench!Asking([q EXCEPT !.selected = row], {"inspector"}), "row")
    BY <1>9 DEF Workbench!SelectRow, q
  <2> QED BY <1>0, <2>1 DEF Workbench!SetStatus, Workbench!Asking
<1>10. CASE Workbench!ThemeMenu
  <2>1. win' = q \/ \E mode : win' = Workbench!Asking([q EXCEPT !.broker = mode], {"lists"})
    BY <1>10 DEF Workbench!ThemeMenu, q
  <2> QED BY <1>0, <2>1 DEF Workbench!Asking
<1>11. CASE Workbench!ThemeChanged
  <2>1. \/ win' = q
        \/ \E mode : win' = Workbench!Asking(Workbench!SetStatus([q EXCEPT !.mode = mode], "ready"), {"main"})
    BY <1>11 DEF Workbench!ThemeChanged, Workbench!ApplyTheme, q
  <2>2. CASE win' = q
    BY <1>0, <2>2
  <2>3. ASSUME NEW mode,
               win' = Workbench!Asking(Workbench!SetStatus([q EXCEPT !.mode = mode], "ready"), {"main"})
        PROVE  Fine
    BY <1>0, <2>3 DEF Workbench!SetStatus, Workbench!Asking
  <2> QED BY <2>1, <2>2, <2>3
<1> QED BY <1>2, <1>3, <1>4, <1>5, <1>6, <1>7, <1>8, <1>9, <1>10, <1>11 DEF Workbench!Next

-----------------------------------------------------------------------------
(* The page of the settings                                                *)

FormFields == {"size", "dpi", "laid", "hovered", "tracking", "refused", "asked"}

FormInv == FormFields \subseteq DOMAIN win /\ Form!HoverEnds

\* At first nothing is hovered.
LEMMA FormStarted == Form!Init => FormInv
  BY DEF Form!Init, FormInv, FormFields, Form!HoverEnds, Form!None

\* Every handler keeps the hover tracked, and asks for what it changed.
LEMMA FormStep == FormInv /\ Form!Next => FormInv' /\ Form!Repainted
<1> SUFFICES ASSUME FormInv, Form!Next PROVE FormInv' /\ Form!Repainted
  OBVIOUS
<1> DEFINE q == Form!Quiet(win)
<1>0. /\ FormFields \subseteq DOMAIN q
      /\ \A f \in FormFields \ {"asked"} : q[f] = win[f]
      /\ win.hovered # -1 => win.tracking \/ win.refused
  BY DEF FormInv, Form!HoverEnds, Form!None, Form!Quiet, FormFields
<1> HIDE DEF q
<1> USE DEF FormInv, FormFields, Form!HoverEnds, Form!None, Form!Repainted
<1>1. CASE Form!Resize
  <2>1. PICK size : win' = Form!LayoutControls([q EXCEPT !.size = size])
    BY <1>1 DEF Form!Resize, q
  <2> QED BY <1>0, <2>1 DEF Form!LayoutControls, Form!Asking
<1>2. CASE Form!DpiChanged
  <2>1. PICK dpi, size : win' = Form!LayoutControls(Form!LayoutControls(
                                   [q EXCEPT !.dpi = dpi, !.size = size]))
    BY <1>2 DEF Form!DpiChanged, q
  <2> DEFINE w == Form!LayoutControls([q EXCEPT !.dpi = dpi, !.size = size])
  <2>2. /\ FormFields \subseteq DOMAIN w
        /\ w.hovered = win.hovered /\ w.tracking = win.tracking /\ w.refused = win.refused
    BY <1>0 DEF Form!LayoutControls, Form!Asking
  <2>3. win' = Form!LayoutControls(w)
    BY <2>1
  <2> HIDE DEF w
  <2> QED BY <1>0, <2>2, <2>3 DEF Form!LayoutControls, Form!Asking
<1>3. CASE \E k : Form!MouseMove(k)
  <2>1. PICK hit : \E granted \in BOOLEAN :
           LET w == Form!Tracked(q, granted)
           IN win' = IF hit = w.hovered THEN w
                     ELSE Form!Asking([w EXCEPT !.hovered = hit], {"main"})
    BY <1>3 DEF Form!MouseMove, q
  <2> PICK granted \in BOOLEAN :
           win' = IF hit = Form!Tracked(q, granted).hovered THEN Form!Tracked(q, granted)
                  ELSE Form!Asking([Form!Tracked(q, granted) EXCEPT !.hovered = hit], {"main"})
    BY <2>1
  <2> DEFINE w == Form!Tracked(q, granted)
  <2>2. /\ FormFields \subseteq DOMAIN w /\ (w.tracking \/ w.refused)
        /\ \A f \in FormFields \ {"tracking", "refused", "asked"} : w[f] = win[f]
    <3>1. {"tracking", "refused"} \subseteq FormFields
      OBVIOUS
    <3> HIDE DEF FormFields
    <3>2. /\ FormFields \subseteq DOMAIN w /\ (w.tracking \/ w.refused)
          /\ \A f \in FormFields \ {"tracking", "refused"} : w[f] = q[f]
      BY <1>0, <3>1, AskedToLeave DEF Form!Tracked
    <3> HIDE DEF w
    <3> QED BY <1>0, <3>2
  <2>3. win' = IF hit = w.hovered THEN w ELSE Form!Asking([w EXCEPT !.hovered = hit], {"main"})
    OBVIOUS
  <2> HIDE DEF w
  <2> QED BY <1>0, <2>2, <2>3 DEF Form!Asking
<1>4. CASE Form!MouseLeave
  <2>1. win' = Form!Asking([q EXCEPT !.tracking = FALSE, !.hovered = -1],
                           IF win.hovered = -1 THEN {} ELSE {"main"})
    BY <1>4 DEF Form!MouseLeave, q
  <2> QED BY <1>0, <2>1 DEF Form!Asking
<1> QED BY <1>1, <1>2, <1>3, <1>4 DEF Form!Next

-----------------------------------------------------------------------------
(* The scroll bar and the slider                                           *)

ThumbFields == {"size", "dpi", "vertical", "low", "high", "position", "hovered", "captured", "palette", "asked"}
ThumbInv == ThumbFields \subseteq DOMAIN win

\* A thumb is made with all that its painting reads.
LEMMA ThumbStarted == Thumb!Init => ThumbInv
  BY DEF Thumb!Init, Thumb!Create, ThumbInv, ThumbFields

\* A call that asks for nothing leaves the thumb where it is painted.
LEMMA ThumbStep == ThumbInv /\ Thumb!Next => ThumbInv' /\ Thumb!Repainted
<1> SUFFICES ASSUME ThumbInv, Thumb!Next PROVE ThumbInv' /\ Thumb!Repainted
  OBVIOUS
<1>1. CASE win' = Thumb!Quiet(win)
  <2>1. /\ ThumbFields \subseteq DOMAIN win'
        /\ \A f \in ThumbFields \ {"asked"} : win'[f] = win[f]
    BY <1>1 DEF Thumb!Quiet, ThumbInv, ThumbFields
  <2>2. Thumb!Face(win') = Thumb!Face(win)
    <3>1. /\ win'.size = win.size /\ win'.dpi = win.dpi /\ win'.vertical = win.vertical
          /\ win'.low = win.low /\ win'.high = win.high /\ win'.position = win.position
          /\ win'.palette = win.palette
      BY <2>1 DEF ThumbFields
    <3> QED BY <3>1, Zenon DEF Thumb!Face, Thumb!PaintedThumb, Thumb!ThumbRectFor, Thumb!ThumbOffset
  <2> QED BY <2>1, <2>2 DEF ThumbInv, Thumb!Repainted
<1>2. CASE \E w : ThumbFields \subseteq DOMAIN w /\ win' = Thumb!Asking(w)
  BY <1>2 DEF Thumb!Asking, ThumbInv, ThumbFields, Thumb!Repainted
<1>3. \/ win' = Thumb!Quiet(win)
      \/ \E w : ThumbFields \subseteq DOMAIN w /\ win' = Thumb!Asking(w)
  BY DEF Thumb!Next, Thumb!SetRange, Thumb!SetPosition, Thumb!PaletteChanged, Thumb!Resize,
         Thumb!MouseMove, Thumb!SubclassMouseMove, Thumb!LButtonDown, ThumbInv
<1> QED BY <1>1, <1>2, <1>3

RailFields == {"size", "dpi", "low", "high", "pos", "orientation", "radius", "enabled", "focus", "palette",
               "asked"}
RailInv == RailFields \subseteq DOMAIN win

\* A slider is made with all that its painting reads.
LEMMA RailStarted == Rail!Init => RailInv
  BY DEF Rail!Init, Rail!Create, RailInv, RailFields

\* A call on a slider changes nothing that is painted, or asks for it.
LEMMA RailStep == RailInv /\ Rail!Next => RailInv' /\ Rail!Repainted
<1> SUFFICES ASSUME RailInv, Rail!Next PROVE RailInv' /\ Rail!Repainted
  OBVIOUS
<1>1. CASE win' = [win EXCEPT !.asked = FALSE]
  <2>1. /\ RailFields \subseteq DOMAIN win'
        /\ \A f \in RailFields \ {"asked"} : win'[f] = win[f]
    BY <1>1 DEF RailInv, RailFields
  <2>2. Rail!PaintChrome(win') = Rail!PaintChrome(win)
    <3>1. /\ win'.size = win.size /\ win'.dpi = win.dpi /\ win'.low = win.low /\ win'.high = win.high
          /\ win'.pos = win.pos /\ win'.orientation = win.orientation /\ win'.radius = win.radius
          /\ win'.enabled = win.enabled /\ win'.focus = win.focus /\ win'.palette = win.palette
      BY <2>1 DEF RailFields
    <3>2. /\ Rail!Length(win') = Rail!Length(win) /\ Rail!Across(win') = Rail!Across(win)
          /\ Rail!Inset(win') = Rail!Inset(win) /\ Rail!ThumbRadius(win') = Rail!ThumbRadius(win)
          /\ Rail!Channel(win') = Rail!Channel(win)
      BY <3>1, Zenon DEF Rail!Length, Rail!Across, Rail!Inset, Rail!AskedRadius, Rail!ThumbRadius,
                         Rail!Channel
    <3>3. /\ Rail!IsPainted(win') <=> Rail!IsPainted(win)
          /\ Rail!Along(win', Rail!Length(win')) = Rail!Along(win, Rail!Length(win))
      BY <3>1, <3>2, Zenon DEF Rail!IsPainted, Rail!Along
    <3>4. Rail!ComputeGeometry(win') = Rail!ComputeGeometry(win)
      BY <3>2, <3>3, Zenon DEF Rail!ComputeGeometry
    <3> QED BY <3>1, <3>3, <3>4, Zenon DEF Rail!PaintChrome
  <2> QED BY <2>1, <2>2 DEF RailInv, Rail!Repainted
<1>2. CASE \E w : RailFields \subseteq DOMAIN w /\ win' = Rail!Asking(w)
  BY <1>2 DEF Rail!Asking, RailInv, RailFields, Rail!Repainted
<1>3. \/ win' = [win EXCEPT !.asked = FALSE]
      \/ \E w : RailFields \subseteq DOMAIN w /\ win' = Rail!Asking(w)
  BY DEF Rail!Next, Rail!SetOrientation, Rail!SetStyle, Rail!SetRange, Rail!SetPos, Rail!Moved,
         Rail!FocusChanged, Rail!Enable, Rail!PaletteChanged, Rail!Resize, RailInv
<1> QED BY <1>1, <1>2, <1>3

-----------------------------------------------------------------------------
(* The menus                                                               *)

MenuFields == {"palette", "drawing", "captions", "menus", "builder", "current", "failed", "plain",
               "renamed"}
HandleFields == {"parent", "entries", "background"}

\* Every menu opens from another one, or from none: the bar from none.
MenusHang(menus) ==
    /\ \A k \in DOMAIN menus :
           HandleFields \subseteq DOMAIN menus[k] /\ menus[k].parent \in DOMAIN menus \cup {Menus!None}
    /\ Menus!Bar \in DOMAIN menus /\ Menus!None \notin DOMAIN menus
    /\ menus[Menus!Bar].parent = Menus!None

\* A brush that is made for the bar or for a context menu is only behind what
\* opens from it.
BrushesHang(menus, failed) == \A k \in DOMAIN menus :
    LET brush == menus[k].background IN
    /\ {"by", "palette", "dead"} \subseteq DOMAIN brush
    /\ brush.by \in {Menus!Bar, Menus!Context} => k \in Menus!Below(menus, brush.by)
    /\ brush.dead => brush.by \in failed \cap {Menus!Bar, Menus!Context}

MenuTreeInv(w) ==
    /\ MenuFields \subseteq DOMAIN w
    /\ MenusHang(w.menus)
    /\ BrushesHang(w.menus, w.failed)
    /\ w.current => \A k \in Menus!Below(w.menus, Menus!Bar) \ w.plain :
                        w.menus[k].background.palette = w.palette

\* What opens from h opens from h, and so does all that opens from it.
LEMMA BelowIsClosed ==
  ASSUME NEW menus, NEW h
  PROVE  Menus!Closed(menus, h, Menus!Below(menus, h)) /\ Menus!Below(menus, h) \subseteq DOMAIN menus
  BY DEF Menus!Closed, Menus!Below

\* Nothing else does.
LEMMA BelowIsLeast ==
  ASSUME NEW menus, NEW h, NEW S, Menus!Closed(menus, h, S)
  PROVE  Menus!Below(menus, h) \subseteq S
<1>1. Menus!Closed(menus, h, S \cap DOMAIN menus)
  BY DEF Menus!Closed
<1> QED BY <1>1 DEF Menus!Below

\* It is a matter of the parents alone.
LEMMA BelowIsByParents ==
  ASSUME NEW a, NEW b, NEW h, DOMAIN a = DOMAIN b, \A k \in DOMAIN a : a[k].parent = b[k].parent
  PROVE  Menus!Below(a, h) = Menus!Below(b, h)
<1>1. \A S : Menus!Closed(a, h, S) <=> Menus!Closed(b, h, S)
  BY DEF Menus!Closed
<1> QED BY <1>1 DEF Menus!Below

\* b is a without the menus that are gone, with all that opened from them.
IsWithout(b, a, gone) ==
    /\ DOMAIN b = DOMAIN a \ gone
    /\ \A k \in DOMAIN b : a[k].parent = b[k].parent
    /\ \A k \in DOMAIN a : a[k].parent \in gone => k \in gone

\* The menus that stay when some go with all that opens from them hang as they did.
LEMMA BelowWithoutSome ==
  ASSUME NEW a, NEW b, NEW gone, NEW h, IsWithout(b, a, gone)
  PROVE  Menus!Below(b, h) = Menus!Below(a, h) \ gone
<1>1. Menus!Closed(b, h, Menus!Below(a, h) \ gone)
  BY BelowIsClosed DEF Menus!Closed, IsWithout
<1>2. Menus!Closed(a, h, Menus!Below(b, h) \cup gone)
  BY BelowIsClosed DEF Menus!Closed, IsWithout
<1>3. Menus!Below(b, h) \subseteq DOMAIN b
  BY BelowIsClosed
<1> QED BY <1>1, <1>2, <1>3, BelowIsLeast DEF IsWithout

\* A new menu that opens from an old one changes nothing for the old ones.
LEMMA BelowWithOneMore ==
  ASSUME NEW a, NEW b, NEW one, NEW h, one \notin DOMAIN a, DOMAIN b = DOMAIN a \cup {one},
         \A k \in DOMAIN a : a[k].parent = b[k].parent /\ a[k].parent # one
  PROVE  Menus!Below(a, h) \subseteq Menus!Below(b, h) /\ Menus!Below(b, h) \subseteq Menus!Below(a, h) \cup {one}
<1>1. Menus!Closed(b, h, Menus!Below(a, h) \cup {one})
  BY BelowIsClosed DEF Menus!Closed
<1>2. Menus!Closed(a, h, Menus!Below(b, h))
  BY BelowIsClosed DEF Menus!Closed
<1> QED BY <1>1, <1>2, BelowIsLeast

\* What touches neither the parents nor the brushes keeps the invariant.
LEMMA MenuTreeKept ==
  ASSUME NEW w, NEW v, MenuTreeInv(w), MenuFields \subseteq DOMAIN v,
         DOMAIN v.menus = DOMAIN w.menus,
         \A k \in DOMAIN w.menus : /\ HandleFields \subseteq DOMAIN v.menus[k]
                                   /\ v.menus[k].parent = w.menus[k].parent
                                   /\ v.menus[k].background = w.menus[k].background,
         v.failed = w.failed, v.plain = w.plain, v.current = w.current, v.palette = w.palette
  PROVE  MenuTreeInv(v)
<1>1. \A h : Menus!Below(v.menus, h) = Menus!Below(w.menus, h)
  BY BelowIsByParents
<1>2. MenusHang(v.menus)
  BY DEF MenuTreeInv, MenusHang
<1>3. BrushesHang(v.menus, v.failed)
  BY <1>1 DEF MenuTreeInv, BrushesHang
<1>4. v.current => \A k \in Menus!Below(v.menus, Menus!Bar) \ v.plain :
                       v.menus[k].background.palette = v.palette
  <2>1. Menus!Below(w.menus, Menus!Bar) \subseteq DOMAIN w.menus
    BY BelowIsClosed
  <2> QED BY <1>1, <2>1 DEF MenuTreeInv
<1> QED BY <1>2, <1>3, <1>4 DEF MenuTreeInv

\* A context menu and all that opens from it is never the bar.
LEMMA BarIsNotBelow ==
  ASSUME NEW menus, MenusHang(menus)
  PROVE  Menus!Bar \notin Menus!Below(menus, Menus!Context)
<1> DEFINE below == Menus!Below(menus, Menus!Context)
<1>1. Menus!Bar # Menus!Context
  BY DEF Menus!Bar, Menus!Context
<1>2. Menus!Closed(menus, Menus!Context, below) /\ below \subseteq DOMAIN menus
  BY BelowIsClosed
<1> HIDE DEF below
<1>3. Menus!Closed(menus, Menus!Context, below \ {Menus!Bar})
  BY <1>1, <1>2 DEF Menus!Closed, MenusHang
<1>4. below \subseteq below \ {Menus!Bar}
  BY <1>3, BelowIsLeast DEF below
<1> QED BY <1>4 DEF below

\* A menu that is given the palette gives it to all that opens from it; if there
\* is no brush to give, the ones that had the old brush are counted as failed.
LEMMA ApplyPaletteKeeps ==
  ASSUME NEW w, NEW h \in {Menus!Bar, Menus!Context}, NEW made \in BOOLEAN,
         MenuTreeInv([w EXCEPT !.current = FALSE]), MenuFields \subseteq DOMAIN w
  PROVE  LET v == Menus!ApplyPalette(w, h, made) IN
         /\ MenuTreeInv([v EXCEPT !.current = FALSE]) /\ MenuFields \subseteq DOMAIN v
         /\ v.current = w.current /\ v.palette = w.palette /\ DOMAIN v.menus = DOMAIN w.menus
         /\ \A k \in DOMAIN w.menus : v.menus[k].background.palette
                                         \in {w.menus[k].background.palette, w.palette}
         /\ Menus!Below(v.menus, Menus!Bar) = Menus!Below(w.menus, Menus!Bar)
         /\ made => \A k \in Menus!Below(v.menus, h) : v.menus[k].background.palette = v.palette
         /\ \A k \in w.plain \ v.plain : v.menus[k].background.palette = v.palette
<1> DEFINE v == Menus!ApplyPalette(w, h, made)
           deleted == Menus!Deleted(w.menus, h)
           brush == [by |-> h, palette |-> w.palette, dead |-> FALSE]
<1>1. MenusHang(w.menus) /\ BrushesHang(w.menus, w.failed)
  BY DEF MenuTreeInv, MenuFields
<1>2. /\ DOMAIN deleted = DOMAIN w.menus
      /\ \A k \in DOMAIN w.menus :
             /\ HandleFields \subseteq DOMAIN deleted[k]
             /\ deleted[k].parent = w.menus[k].parent
             /\ {"by", "palette", "dead"} \subseteq DOMAIN deleted[k].background
             /\ deleted[k].background.by = w.menus[k].background.by
             /\ deleted[k].background.palette = w.menus[k].background.palette
             /\ w.menus[k].background.by # h => deleted[k].background = w.menus[k].background
  BY <1>1 DEF Menus!Deleted, MenusHang, BrushesHang, HandleFields
<1>3. \A g : Menus!Below(deleted, g) = Menus!Below(w.menus, g)
  BY <1>2, BelowIsByParents
<1>4. Menus!Bar # Menus!Context
  BY DEF Menus!Bar, Menus!Context
<1>5. CASE made
  <2> DEFINE below == Menus!Below(deleted, h)
  <2>1. /\ MenuFields \subseteq DOMAIN v /\ v.menus = Menus!ApplyMenubarPalette(deleted, h, brush)
        /\ v.failed = w.failed \ {h} /\ v.plain = w.plain \ below
        /\ v.palette = w.palette /\ v.current = w.current
    BY <1>5 DEF Menus!ApplyPalette, MenuFields
  <2>2. /\ DOMAIN v.menus = DOMAIN w.menus
        /\ \A k \in DOMAIN w.menus :
               /\ HandleFields \subseteq DOMAIN v.menus[k]
               /\ v.menus[k].parent = w.menus[k].parent
               /\ v.menus[k].background = IF k \in below THEN brush ELSE deleted[k].background
    BY <1>2, <2>1 DEF Menus!ApplyMenubarPalette, HandleFields
  <2> HIDE DEF v, deleted
  <2>3. \A g : Menus!Below(v.menus, g) = Menus!Below(w.menus, g)
    BY <2>2, BelowIsByParents
  <2>4. MenusHang(v.menus)
    BY <1>1, <2>2 DEF MenusHang
  <2>5. BrushesHang(v.menus, v.failed)
    <3> SUFFICES ASSUME NEW k \in DOMAIN v.menus
                 PROVE  LET b == v.menus[k].background IN
                        /\ {"by", "palette", "dead"} \subseteq DOMAIN b
                        /\ b.by \in {Menus!Bar, Menus!Context} => k \in Menus!Below(v.menus, b.by)
                        /\ b.dead => b.by \in v.failed \cap {Menus!Bar, Menus!Context}
      BY DEF BrushesHang
    <3>1. CASE k \in below
      BY <1>3, <2>2, <2>3, <3>1
    <3>2. CASE k \notin below
      <4>1. w.menus[k].background.by # h
        BY <1>1, <1>3, <2>2, <3>2 DEF BrushesHang
      <4>2. v.menus[k].background = w.menus[k].background
        BY <1>2, <2>2, <3>2, <4>1
      <4> QED BY <1>1, <2>1, <2>2, <2>3, <4>1, <4>2 DEF BrushesHang
    <3> QED BY <3>1, <3>2
  <2>6. \A k \in Menus!Below(v.menus, h) : v.menus[k].background.palette = v.palette
    <3>1. Menus!Below(v.menus, h) = below /\ below \subseteq DOMAIN w.menus
      BY <1>3, <2>3, BelowIsClosed
    <3>2. \A k \in below : v.menus[k].background = brush
      BY <2>2, <3>1
    <3>3. brush.palette = v.palette
      BY <2>1
    <3> HIDE DEF brush
    <3> QED BY <3>1, <3>2, <3>3
  <2>7. MenuTreeInv([v EXCEPT !.current = FALSE])
    BY <2>1, <2>4, <2>5 DEF MenuTreeInv, MenuFields
  <2>8. \A k \in DOMAIN w.menus : v.menus[k].background.palette
                                      \in {w.menus[k].background.palette, w.palette}
    BY <1>2, <2>2
  <2>9. \A k \in w.plain \ v.plain : v.menus[k].background.palette = v.palette
    BY <1>3, <2>1, <2>3, <2>6
  <2> QED BY <2>1, <2>2, <2>3, <2>6, <2>7, <2>8, <2>9 DEF v
<1>6. CASE ~made
  <2>1. /\ MenuFields \subseteq DOMAIN v /\ v.menus = deleted
        /\ v.failed = w.failed \cup {h} /\ v.plain = w.plain
        /\ v.palette = w.palette /\ v.current = w.current
    BY <1>6 DEF Menus!ApplyPalette, MenuFields
  <2>2. \A k \in DOMAIN w.menus :
            deleted[k].background.dead => \/ w.menus[k].background.by = h
                                          \/ w.menus[k].background.dead
    BY <1>2
  <2> HIDE DEF v, deleted
  <2>3. MenusHang(v.menus)
    BY <1>1, <1>2, <2>1 DEF MenusHang
  <2>4. BrushesHang(v.menus, v.failed)
    BY <1>1, <1>2, <1>3, <2>1, <2>2 DEF BrushesHang
  <2>7. MenuTreeInv([v EXCEPT !.current = FALSE])
    BY <2>1, <2>3, <2>4 DEF MenuTreeInv, MenuFields
  <2>8. /\ DOMAIN v.menus = DOMAIN w.menus
        /\ \A k \in DOMAIN w.menus : v.menus[k].background.palette
                                         \in {w.menus[k].background.palette, w.palette}
        /\ Menus!Below(v.menus, Menus!Bar) = Menus!Below(w.menus, Menus!Bar)
    BY <1>2, <1>3, <2>1
  <2> QED BY <1>6, <2>1, <2>7, <2>8 DEF v
<1> QED BY <1>5, <1>6

\* DestroyMenu leaves nothing behind that opens from what is gone.
LEMMA ResetKeeps ==
  ASSUME MenuTreeInv(win), Menus!Reset
  PROVE  MenuTreeInv(win')
<1> DEFINE gone == Menus!Below(win.menus, Menus!Context)
           deleted == Menus!Deleted(win.menus, Menus!Context)
<1>1. MenusHang(win.menus) /\ BrushesHang(win.menus, win.failed)
  BY DEF MenuTreeInv
<1>2. /\ MenuFields \subseteq DOMAIN win' /\ win'.menus = Menus!Restrict(deleted, DOMAIN win.menus \ gone)
      /\ win'.failed = win.failed \ gone /\ win'.plain = win.plain \ gone
      /\ win'.palette = win.palette /\ win'.current = win.current
  BY DEF Menus!Reset, MenuTreeInv, MenuFields
<1>3. /\ Menus!Closed(win.menus, Menus!Context, gone) /\ gone \subseteq DOMAIN win.menus
      /\ Menus!Bar \notin gone
  BY <1>1, BelowIsClosed, BarIsNotBelow
<1> HIDE DEF gone
<1>4. /\ DOMAIN win'.menus = DOMAIN win.menus \ gone
      /\ \A k \in DOMAIN win.menus \ gone :
             win'.menus[k] = IF win.menus[k].background.by = Menus!Context
                             THEN [win.menus[k] EXCEPT !.background.dead = TRUE] ELSE win.menus[k]
  BY <1>2 DEF Menus!Deleted, Menus!Restrict
<1>5. \A k \in DOMAIN win.menus \ gone : win'.menus[k] = win.menus[k]
  BY <1>1, <1>4 DEF BrushesHang, gone
<1>6. \A h : Menus!Below(win'.menus, h) = Menus!Below(win.menus, h) \ gone
  <2>1. \A k \in DOMAIN win.menus : win.menus[k].parent \in gone => k \in gone
    BY <1>3 DEF Menus!Closed
  <2>2. IsWithout(win'.menus, win.menus, gone)
    BY <1>4, <1>5, <2>1 DEF IsWithout
  <2> QED BY <2>2, BelowWithoutSome
<1>7. MenusHang(win'.menus)
  BY <1>1, <1>3, <1>4, <1>5 DEF MenusHang, Menus!Closed
<1>8. BrushesHang(win'.menus, win'.failed)
  <2> SUFFICES ASSUME NEW k \in DOMAIN win.menus \ gone
               PROVE  LET b == win.menus[k].background IN
                      /\ {"by", "palette", "dead"} \subseteq DOMAIN b
                      /\ b.by \in {Menus!Bar, Menus!Context} => k \in Menus!Below(win'.menus, b.by)
                      /\ b.dead => b.by \in win'.failed \cap {Menus!Bar, Menus!Context}
    BY <1>4, <1>5 DEF BrushesHang
  <2>1. win.menus[k].background.by # Menus!Context
    BY <1>1 DEF BrushesHang, gone
  <2> QED BY <1>1, <1>2, <1>3, <1>6, <2>1 DEF BrushesHang
<1>9. win'.current => \A k \in Menus!Below(win'.menus, Menus!Bar) \ win'.plain :
                          win'.menus[k].background.palette = win'.palette
  <2>1. Menus!Below(win.menus, Menus!Bar) \subseteq DOMAIN win.menus
    BY BelowIsClosed
  <2> QED BY <1>2, <1>5, <1>6, <2>1 DEF MenuTreeInv
<1> QED BY <1>2, <1>7, <1>8, <1>9 DEF MenuTreeInv

\* A menu that is new, in the palette or counted as plain, and on a brush of its own
\* or of nobody's, hangs where it is put.
LEMMA MenuAdded ==
  ASSUME NEW w, NEW v, NEW one, NEW parent, NEW brush, NEW menus, MenuTreeInv(w),
         DOMAIN menus = DOMAIN w.menus,
         \A k \in DOMAIN w.menus : /\ HandleFields \subseteq DOMAIN menus[k]
                                   /\ menus[k].parent = w.menus[k].parent
                                   /\ menus[k].background = w.menus[k].background,
         one \notin DOMAIN w.menus, one # Menus!None,
         MenuFields \subseteq DOMAIN v, v.menus = Menus!Joined(menus, one, Menus!NewMenu(parent, brush)),
         v.failed = w.failed, v.current = w.current, v.palette = w.palette,
         v.plain \in {w.plain, w.plain \cup {one}},
         parent \in DOMAIN w.menus \cup {Menus!None},
         DOMAIN brush = {"by", "palette", "dead"}, brush.by \in {Menus!Builder, Menus!None},
         brush.dead = FALSE,
         \/ brush.palette = w.palette \/ one \in v.plain
         \/ one \notin Menus!Below(v.menus, Menus!Bar)
  PROVE  MenuTreeInv(v)
<1>0. MenusHang(w.menus) /\ BrushesHang(w.menus, w.failed)
  BY DEF MenuTreeInv
<1>1. DOMAIN v.menus = DOMAIN w.menus \cup {one}
  BY DEF Menus!Joined
<1>2. \A k \in DOMAIN w.menus : v.menus[k] = menus[k]
  BY DEF Menus!Joined
<1>3. v.menus[one] = Menus!NewMenu(parent, brush)
  BY DEF Menus!Joined
<1>4. /\ \A k \in DOMAIN v.menus : HandleFields \subseteq DOMAIN v.menus[k]
      /\ \A k \in DOMAIN w.menus : /\ v.menus[k].parent = w.menus[k].parent
                                   /\ v.menus[k].background = w.menus[k].background
      /\ v.menus[one].parent = parent /\ v.menus[one].background = brush
  BY <1>1, <1>2, <1>3 DEF Menus!NewMenu, HandleFields
<1>5. \A h : /\ Menus!Below(w.menus, h) \subseteq Menus!Below(v.menus, h)
             /\ Menus!Below(v.menus, h) \subseteq Menus!Below(w.menus, h) \cup {one}
  <2>1. \A k \in DOMAIN w.menus : w.menus[k].parent = v.menus[k].parent /\ w.menus[k].parent # one
    BY <1>0, <1>4 DEF MenusHang
  <2> DEFINE a == w.menus  b == v.menus
  <2> HIDE DEF a, b
  <2>2. \A h : /\ Menus!Below(a, h) \subseteq Menus!Below(b, h)
               /\ Menus!Below(b, h) \subseteq Menus!Below(a, h) \cup {one}
    <3>1. /\ one \notin DOMAIN a /\ DOMAIN b = DOMAIN a \cup {one}
          /\ \A k \in DOMAIN a : a[k].parent = b[k].parent /\ a[k].parent # one
      BY <1>1, <2>1 DEF a, b
    <3> QED BY <3>1, BelowWithOneMore
  <2> QED BY <2>2 DEF a, b
<1>6. MenusHang(v.menus)
  BY <1>0, <1>1, <1>4 DEF MenusHang
<1>7. BrushesHang(v.menus, v.failed)
  <2>1. brush.by \notin {Menus!Bar, Menus!Context}
    BY DEF Menus!Bar, Menus!Context, Menus!Builder, Menus!None
  <2> QED BY <1>0, <1>1, <1>4, <1>5, <2>1 DEF BrushesHang
<1>8. v.current => \A k \in Menus!Below(v.menus, Menus!Bar) \ v.plain :
                       v.menus[k].background.palette = v.palette
  <2>1. Menus!Below(w.menus, Menus!Bar) \subseteq DOMAIN w.menus
    BY BelowIsClosed
  <2> QED BY <1>4, <1>5, <2>1 DEF MenuTreeInv
<1> QED BY <1>6, <1>7, <1>8 DEF MenuTreeInv

\* What an entry is, and which ones a host draws at the top without a caption.
MenuCommands == Menus!Commands \cup {Menus!Separator, Menus!Opener}
MenuTexts == {c[2] : c \in Captions} \cup {""}
MenuEntries == [command : MenuCommands, text : MenuTexts, drawn : BOOLEAN, at : Nat]
IsBreak(e) == e.drawn /\ e.command = Menus!Separator

EntriesInOrder(s) ==
    /\ s \in Seq(MenuEntries)
    /\ \A i \in DOMAIN s : s[i].at < Len(s)
    /\ \A i, j \in DOMAIN s : i < j /\ ~IsBreak(s[i]) => s[i].at < s[j].at /\ ~IsBreak(s[j])

\* A caption is registered for what is drawn, the last one of each command.
EntriesCaptioned(s, captions, renamed) ==
    \A i \in DOMAIN s : s[i].drawn /\ s[i].command \in Menus!Commands =>
        /\ s[i].text # Menus!None
        /\ s[i].command \notin renamed => captions[s[i].command] = s[i].text

MenuEntriesInv(w) ==
    /\ DOMAIN w.captions = Menus!Commands
    /\ \A k \in DOMAIN w.menus : /\ EntriesInOrder(w.menus[k].entries)
                                 /\ EntriesCaptioned(w.menus[k].entries, w.captions, w.renamed)

\* An entry that goes to the end keeps the order.
LEMMA AppendKeepsOrder ==
  ASSUME NEW s, NEW e \in MenuEntries, EntriesInOrder(s), e.at = Len(s), ~IsBreak(e)
  PROVE  EntriesInOrder(Append(s, e))
<1> DEFINE v == Append(s, e)
<1>1. /\ s \in Seq(MenuEntries) /\ v \in Seq(MenuEntries) /\ Len(s) \in Nat
      /\ Len(v) = Len(s) + 1 /\ DOMAIN s = 1..Len(s) /\ DOMAIN v = 1..(Len(s) + 1)
      /\ \A i \in 1..Len(s) : v[i] = s[i]
      /\ v[Len(s) + 1] = e
  BY DEF EntriesInOrder
<1>2. \A i \in DOMAIN s : s[i].at \in Nat /\ s[i].at < Len(s)
  <2>1. \A i \in DOMAIN s : s[i] \in MenuEntries
    BY <1>1
  <2>2. \A x \in MenuEntries : x.at \in Nat
    BY DEF MenuEntries
  <2> QED BY <2>1, <2>2 DEF EntriesInOrder
<1> HIDE DEF v
<1>3. \A i \in DOMAIN v : v[i].at < Len(v)
  BY <1>1, <1>2
<1>4. \A i, j \in DOMAIN v : i < j /\ ~IsBreak(v[i]) => v[i].at < v[j].at /\ ~IsBreak(v[j])
  <2> SUFFICES ASSUME NEW i \in DOMAIN v, NEW j \in DOMAIN v, i < j, ~IsBreak(v[i])
               PROVE  v[i].at < v[j].at /\ ~IsBreak(v[j])
    OBVIOUS
  <2>1. i \in DOMAIN s /\ v[i] = s[i]
    BY <1>1
  <2>2. CASE j \in DOMAIN s
    BY <1>1, <2>1, <2>2 DEF EntriesInOrder
  <2>3. CASE j \notin DOMAIN s
    <3>1. v[j] = e
      BY <1>1, <2>3
    <3> QED BY <1>2, <2>1, <3>1
  <2> QED BY <2>2, <2>3
<1> QED BY <1>1, <1>3, <1>4 DEF EntriesInOrder, v

\* So does one that the host draws at the top.
LEMMA PrependKeepsOrder ==
  ASSUME NEW s, NEW e \in MenuEntries, EntriesInOrder(s), e.at = Len(s), IsBreak(e)
  PROVE  EntriesInOrder(<<e>> \o s)
<1> DEFINE v == <<e>> \o s
<1>1. /\ s \in Seq(MenuEntries) /\ <<e>> \in Seq(MenuEntries)
      /\ Len(s) \in Nat /\ DOMAIN s = 1..Len(s)
  BY DEF EntriesInOrder
<1>2. /\ v \in Seq(MenuEntries)
      /\ Len(v) = Len(s) + 1 /\ DOMAIN v = 1..(Len(s) + 1)
      /\ \A i \in 2..(Len(s) + 1) : v[i] = s[i - 1]
      /\ v[1] = e
  BY <1>1
<1>3. \A i \in DOMAIN s : s[i].at \in Nat /\ s[i].at < Len(s)
  <2>1. \A i \in DOMAIN s : s[i] \in MenuEntries
    BY <1>1
  <2>2. \A x \in MenuEntries : x.at \in Nat
    BY DEF MenuEntries
  <2> QED BY <2>1, <2>2 DEF EntriesInOrder
<1> HIDE DEF v
<1>4. \A i \in DOMAIN v : v[i].at < Len(v)
  <2> SUFFICES ASSUME NEW i \in DOMAIN v PROVE v[i].at < Len(v)
    OBVIOUS
  <2>1. CASE i = 1
    BY <1>1, <1>2, <2>1
  <2>2. CASE i # 1
    <3>1. i - 1 \in DOMAIN s /\ v[i] = s[i - 1]
      BY <1>1, <1>2, <2>2
    <3> QED BY <1>1, <1>2, <1>3, <3>1
  <2> QED BY <2>1, <2>2
<1>5. \A i, j \in DOMAIN v : i < j /\ ~IsBreak(v[i]) => v[i].at < v[j].at /\ ~IsBreak(v[j])
  <2> SUFFICES ASSUME NEW i \in DOMAIN v, NEW j \in DOMAIN v, i < j, ~IsBreak(v[i])
               PROVE  v[i].at < v[j].at /\ ~IsBreak(v[j])
    OBVIOUS
  <2>1. i # 1
    BY <1>2
  <2>2. /\ i - 1 \in DOMAIN s /\ v[i] = s[i - 1] /\ j - 1 \in DOMAIN s /\ v[j] = s[j - 1]
        /\ i - 1 < j - 1
    BY <1>1, <1>2, <2>1
  <2> QED BY <2>2 DEF EntriesInOrder
<1> QED BY <1>2, <1>4, <1>5 DEF EntriesInOrder, v

\* What is said of the entries that there were and of the new one is said of all.
LEMMA AppendKeepsCaptions ==
  ASSUME NEW s \in Seq(MenuEntries), NEW e \in MenuEntries, NEW captions, NEW renamed,
         EntriesCaptioned(s, captions, renamed),
         e.drawn /\ e.command \in Menus!Commands =>
             /\ e.text # Menus!None
             /\ e.command \notin renamed => captions[e.command] = e.text
  PROVE  EntriesCaptioned(Append(s, e), captions, renamed)
<1> DEFINE v == Append(s, e)
<1>1. \A i \in DOMAIN v : (i \in DOMAIN s /\ v[i] = s[i]) \/ v[i] = e
  OBVIOUS
<1> HIDE DEF v
<1>2. EntriesCaptioned(v, captions, renamed)
  BY <1>1 DEF EntriesCaptioned
<1> QED BY <1>2 DEF v

\* The same at the top.
LEMMA PrependKeepsCaptions ==
  ASSUME NEW s \in Seq(MenuEntries), NEW e \in MenuEntries, NEW captions, NEW renamed,
         EntriesCaptioned(s, captions, renamed), e.command \notin Menus!Commands
  PROVE  EntriesCaptioned(<<e>> \o s, captions, renamed)
<1> DEFINE v == <<e>> \o s
<1>1. <<e>> \in Seq(MenuEntries) /\ Len(<<e>>) = 1 /\ <<e>>[1] = e
  OBVIOUS
<1>2. \A i \in DOMAIN v : (i - 1 \in DOMAIN s /\ v[i] = s[i - 1]) \/ v[i] = e
  BY <1>1
<1> HIDE DEF v
<1>3. EntriesCaptioned(v, captions, renamed)
  BY <1>2 DEF EntriesCaptioned
<1> QED BY <1>3 DEF v

\* Nothing is lost by a caption that is registered for a command: either it is the
\* one that was there or the command counts as renamed.
LEMMA RegisterKeepsCaptions ==
  ASSUME NEW s, NEW captions, NEW renamed, NEW command, NEW text, NEW now,
         EntriesCaptioned(s, captions, renamed), DOMAIN captions = Menus!Commands,
         now = IF captions[command] \in {Menus!None, text} THEN renamed ELSE renamed \cup {command}
  PROVE  EntriesCaptioned(s, [captions EXCEPT ![command] = text], now)
  BY DEF EntriesCaptioned

BuilderFields == {"menu", "target", "draws", "parent"}

MenuInv(w) == MenuTreeInv(w) /\ MenuEntriesInv(w)

\* While a builder works: it was made for a menu there is, and fills one or none.
BuildInv(w) ==
    /\ MenuInv(w)
    /\ BuilderFields \subseteq DOMAIN w.builder
    /\ w.builder.menu \in DOMAIN w.menus
    /\ w.builder.target \in DOMAIN w.menus \cup {Menus!None}

\* v is w with the entries of the menu that is filled, and the captions with them.
IsFilled(v, w, filled, captions, renamed) ==
    /\ MenuFields \subseteq DOMAIN v /\ DOMAIN v.menus = DOMAIN w.menus
    /\ \A k \in DOMAIN w.menus :
           /\ HandleFields \subseteq DOMAIN v.menus[k]
           /\ v.menus[k].parent = w.menus[k].parent
           /\ v.menus[k].background = w.menus[k].background
           /\ v.menus[k].entries = IF k = w.builder.target THEN filled ELSE w.menus[k].entries
    /\ v.captions = captions /\ v.renamed = renamed /\ v.builder = w.builder
    /\ v.failed = w.failed /\ v.plain = w.plain /\ v.current = w.current /\ v.palette = w.palette

\* Filling is safe if what is filled in is, and the rest is with the new captions.
LEMMA FilledKeeps ==
  ASSUME NEW w, NEW v, NEW filled, NEW captions, NEW renamed,
         BuildInv(w), IsFilled(v, w, filled, captions, renamed), DOMAIN captions = Menus!Commands,
         EntriesInOrder(filled), EntriesCaptioned(filled, captions, renamed),
         \A k \in DOMAIN w.menus : EntriesCaptioned(w.menus[k].entries, captions, renamed)
  PROVE  BuildInv(v)
<1>1. MenuTreeInv(v)
  BY MenuTreeKept DEF BuildInv, MenuInv, IsFilled
<1>2. MenuEntriesInv(v)
  <2>1. \A k \in DOMAIN v.menus : /\ EntriesInOrder(v.menus[k].entries)
                                  /\ EntriesCaptioned(v.menus[k].entries, captions, renamed)
    <3> SUFFICES ASSUME NEW k \in DOMAIN w.menus
                 PROVE  /\ EntriesInOrder(v.menus[k].entries)
                        /\ EntriesCaptioned(v.menus[k].entries, captions, renamed)
      BY DEF IsFilled
    <3>1. CASE k = w.builder.target
      BY <3>1 DEF IsFilled
    <3>2. CASE k # w.builder.target
      BY <3>2 DEF IsFilled, BuildInv, MenuInv, MenuEntriesInv
    <3> QED BY <3>1, <3>2
  <2> QED BY <2>1 DEF MenuEntriesInv, IsFilled
<1> QED BY <1>1, <1>2 DEF BuildInv, MenuInv, IsFilled

\* An entry has the number that it is added with.
LEMMA EntryIsMade ==
  ASSUME NEW w, BuildInv(w), w.builder.target # Menus!None, NEW drawn \in BOOLEAN,
         NEW command \in MenuCommands, NEW text \in MenuTexts
  PROVE  LET e == Menus!Entry(w, command, text, drawn) IN
         /\ w.builder.target \in DOMAIN w.menus
         /\ e \in MenuEntries /\ e.at = Len(w.menus[w.builder.target].entries)
         /\ e.command = command /\ e.text = text /\ e.drawn = drawn
<1> DEFINE t == w.builder.target  s == w.menus[t].entries
<1>1. t \in DOMAIN w.menus
  BY DEF BuildInv
<1>2. EntriesInOrder(s)
  BY <1>1 DEF BuildInv, MenuInv, MenuEntriesInv
<1>3. Len(s) \in Nat
  <2>1. s \in Seq(MenuEntries)
    BY <1>2 DEF EntriesInOrder
  <2> HIDE DEF s
  <2> QED BY <2>1
<1> QED BY <1>1, <1>3 DEF Menus!Entry, MenuEntries

\* An entry at the end of the menu that is filled, and its caption.
LEMMA ItemKeeps ==
  ASSUME NEW w, NEW c \in Captions, BuildInv(w), w.builder.target # Menus!None
  PROVE  BuildInv(Menus!Item(w, c)) /\ BuildInv(Menus!CheckItem(w, c))
<1> DEFINE t == w.builder.target
           s == w.menus[t].entries
           drawn == Menus!Draws(w)
           e == Menus!Entry(w, c[1], c[2], drawn)
           v == Menus!Item(w, c)
           captions == IF drawn THEN [w.captions EXCEPT ![c[1]] = c[2]] ELSE w.captions
           renamed == IF drawn /\ w.captions[c[1]] \notin {Menus!None, c[2]}
                      THEN w.renamed \cup {c[1]} ELSE w.renamed
<1>1. /\ drawn \in BOOLEAN /\ c[1] \in Menus!Commands /\ c[1] \in MenuCommands /\ c[2] \in MenuTexts
      /\ c[1] # Menus!Separator /\ c[2] # Menus!None
  BY ProgramAssumption DEF Menus!Draws, Menus!Commands, MenuCommands, MenuTexts
<1>2. /\ t \in DOMAIN w.menus /\ e \in MenuEntries /\ e.at = Len(s)
      /\ e.command = c[1] /\ e.text = c[2] /\ e.drawn = drawn
  <2> HIDE DEF drawn
  <2> QED BY <1>1, EntryIsMade
<1>3. v = Menus!CheckItem(w, c)
  BY DEF Menus!Item, Menus!CheckItem
<1>4. IsFilled(v, w, Append(s, e), captions, renamed)
  <2> HIDE DEF drawn, e
  <2>1. /\ MenuFields \subseteq DOMAIN w /\ \A k \in DOMAIN w.menus : HandleFields \subseteq DOMAIN w.menus[k]
    BY DEF BuildInv, MenuInv, MenuTreeInv, MenusHang
  <2>2. v = IF drawn THEN Menus!RegisterLabel(Menus!Appended(w, e), c[1], c[2]) ELSE Menus!Appended(w, e)
    BY DEF Menus!Item, drawn, e
  <2> DEFINE added == Menus!Appended(w, e)
  <2>3. /\ MenuFields \subseteq DOMAIN added /\ DOMAIN added.menus = DOMAIN w.menus
        /\ \A k \in DOMAIN w.menus :
               added.menus[k] = IF k = t THEN [w.menus[t] EXCEPT !.entries = Append(s, e)] ELSE w.menus[k]
        /\ added.captions = w.captions /\ added.renamed = w.renamed /\ added.builder = w.builder
        /\ added.failed = w.failed /\ added.plain = w.plain
        /\ added.current = w.current /\ added.palette = w.palette
    BY <2>1 DEF Menus!Appended, MenuFields
  <2> HIDE DEF added
  <2>4. /\ MenuFields \subseteq DOMAIN v /\ v.menus = added.menus /\ v.captions = captions
        /\ v.renamed = renamed /\ v.builder = added.builder
        /\ v.failed = added.failed /\ v.plain = added.plain
        /\ v.current = added.current /\ v.palette = added.palette
    BY <2>2, <2>3 DEF Menus!RegisterLabel, MenuFields, added
  <2> HIDE DEF v, captions, renamed
  <2>5. \A k \in DOMAIN w.menus :
            /\ HandleFields \subseteq DOMAIN v.menus[k]
            /\ v.menus[k].parent = w.menus[k].parent
            /\ v.menus[k].background = w.menus[k].background
            /\ v.menus[k].entries = IF k = t THEN Append(s, e) ELSE w.menus[k].entries
    <3> DEFINE more == Append(s, e)
    <3>1. \A k \in DOMAIN w.menus :
              v.menus[k] = IF k = t THEN [w.menus[t] EXCEPT !.entries = more] ELSE w.menus[k]
      BY <2>3, <2>4
    <3> HIDE DEF more
    <3>2. \A k \in DOMAIN w.menus :
              /\ HandleFields \subseteq DOMAIN v.menus[k]
              /\ v.menus[k].parent = w.menus[k].parent
              /\ v.menus[k].background = w.menus[k].background
              /\ v.menus[k].entries = IF k = t THEN more ELSE w.menus[k].entries
      BY <2>1, <3>1 DEF HandleFields
    <3> QED BY <3>2 DEF more
  <2> QED BY <2>3, <2>4, <2>5 DEF IsFilled
<1>5. /\ DOMAIN w.captions = Menus!Commands
      /\ \A k \in DOMAIN w.menus : /\ EntriesInOrder(w.menus[k].entries)
                                   /\ EntriesCaptioned(w.menus[k].entries, w.captions, w.renamed)
  BY DEF BuildInv, MenuInv, MenuEntriesInv
<1>6. /\ DOMAIN captions = Menus!Commands
      /\ \A k \in DOMAIN w.menus : EntriesCaptioned(w.menus[k].entries, captions, renamed)
  <2> HIDE DEF e, v
  <2>1. CASE drawn
    <3>1. renamed = IF w.captions[c[1]] \in {Menus!None, c[2]} THEN w.renamed ELSE w.renamed \cup {c[1]}
      BY <2>1
    <3>2. captions = [w.captions EXCEPT ![c[1]] = c[2]]
      BY <2>1
    <3> HIDE DEF renamed, captions, drawn
    <3> QED BY <1>5, <3>1, <3>2, RegisterKeepsCaptions
  <2>2. CASE ~drawn
    BY <1>5, <2>2
  <2> QED BY <2>1, <2>2
<1>7. EntriesInOrder(Append(s, e))
  <2> HIDE DEF e, s
  <2> QED BY <1>1, <1>2, <1>5, AppendKeepsOrder DEF IsBreak, s
<1>8. EntriesCaptioned(Append(s, e), captions, renamed)
  <2>1. drawn => captions[c[1]] = c[2]
    BY <1>1, <1>5
  <2>2. s \in Seq(MenuEntries) /\ EntriesCaptioned(s, captions, renamed)
    BY <1>2, <1>5, <1>6 DEF EntriesInOrder
  <2> HIDE DEF e, s, captions, renamed, drawn
  <2> QED BY <1>1, <1>2, <2>1, <2>2, AppendKeepsCaptions
<1> HIDE DEF v, captions, renamed, e
<1>9. BuildInv(v)
  BY <1>4, <1>6, <1>7, <1>8, FilledKeeps
<1> QED BY <1>3, <1>9 DEF v

\* A separator, at the top when the host draws it.
LEMMA SeparatorKeeps ==
  ASSUME NEW w, BuildInv(w), w.builder.target # Menus!None
  PROVE  BuildInv(Menus!AddSeparator(w))
<1> DEFINE t == w.builder.target
           s == w.menus[t].entries
           drawn == Menus!Draws(w)
           e == Menus!Entry(w, Menus!Separator, "", drawn)
           v == Menus!AddSeparator(w)
           filled == IF drawn THEN <<e>> \o s ELSE Append(s, e)
<1>1. /\ drawn \in BOOLEAN /\ Menus!Separator \notin Menus!Commands
      /\ Menus!Separator \in MenuCommands /\ "" \in MenuTexts
  BY ProgramAssumption DEF Menus!Draws, MenuCommands, MenuTexts
<1>2. /\ t \in DOMAIN w.menus /\ e \in MenuEntries /\ e.at = Len(s)
      /\ e.command = Menus!Separator /\ e.drawn = drawn
  <2> DEFINE blank == ""
  <2>1. drawn \in BOOLEAN /\ Menus!Separator \in MenuCommands /\ blank \in MenuTexts
    BY <1>1
  <2>2. e = Menus!Entry(w, Menus!Separator, blank, drawn)
    OBVIOUS
  <2> HIDE DEF drawn, blank, e
  <2> QED BY <2>1, <2>2, EntryIsMade
<1>3. IsFilled(v, w, filled, w.captions, w.renamed)
  <2> HIDE DEF drawn, e
  <2>1. /\ MenuFields \subseteq DOMAIN w /\ \A k \in DOMAIN w.menus : HandleFields \subseteq DOMAIN w.menus[k]
    BY DEF BuildInv, MenuInv, MenuTreeInv, MenusHang
  <2>2. v = [w EXCEPT !.menus[t].entries = filled]
    <3>1. CASE drawn
      BY <3>1 DEF Menus!AddSeparator, drawn, e
    <3>2. CASE ~drawn
      <4>1. e = Menus!Entry(w, Menus!Separator, "", FALSE)
        BY <1>1, <3>2 DEF e
      <4> QED BY <3>2, <4>1 DEF Menus!AddSeparator, Menus!Appended, drawn
    <3> QED BY <3>1, <3>2
  <2> HIDE DEF v, filled
  <2> QED BY <1>2, <2>1, <2>2 DEF IsFilled, HandleFields, MenuFields
<1>4. /\ DOMAIN w.captions = Menus!Commands
      /\ \A k \in DOMAIN w.menus : /\ EntriesInOrder(w.menus[k].entries)
                                   /\ EntriesCaptioned(w.menus[k].entries, w.captions, w.renamed)
  BY DEF BuildInv, MenuInv, MenuEntriesInv
<1>5. s \in Seq(MenuEntries) /\ EntriesInOrder(s) /\ EntriesCaptioned(s, w.captions, w.renamed)
  BY <1>2, <1>4 DEF EntriesInOrder
<1>6. EntriesInOrder(filled) /\ EntriesCaptioned(filled, w.captions, w.renamed)
  <2> HIDE DEF e, s, v
  <2>1. CASE drawn
    <3>1. IsBreak(e)
      BY <1>2, <2>1 DEF IsBreak
    <3>2. filled = <<e>> \o s
      BY <2>1
    <3> HIDE DEF filled, drawn
    <3> QED BY <1>1, <1>2, <1>5, <3>1, <3>2, PrependKeepsOrder, PrependKeepsCaptions
  <2>2. CASE ~drawn
    <3>1. ~IsBreak(e)
      BY <1>2, <2>2 DEF IsBreak
    <3>2. filled = Append(s, e)
      BY <2>2
    <3> HIDE DEF filled, drawn
    <3> QED BY <1>1, <1>2, <1>5, <3>1, <3>2, AppendKeepsOrder, AppendKeepsCaptions
  <2> QED BY <2>1, <2>2
<1> HIDE DEF v, filled, e
<1>7. BuildInv(v)
  BY <1>3, <1>4, <1>6, FilledKeeps
<1> QED BY <1>7 DEF v

\* The entry that opens a popup goes to the end.
LEMMA OpenerKeeps ==
  ASSUME NEW w, BuildInv(w), w.builder.target # Menus!None
  PROVE  LET v == Menus!Appended(w, Menus!Entry(w, Menus!Opener, "", FALSE)) IN
         /\ BuildInv(v) /\ DOMAIN v.menus = DOMAIN w.menus
         /\ v.builder = w.builder /\ v.palette = w.palette
<1> DEFINE t == w.builder.target
           s == w.menus[t].entries
           e == Menus!Entry(w, Menus!Opener, "", FALSE)
           v == Menus!Appended(w, e)
           filled == Append(s, e)
<1>1. t \in DOMAIN w.menus /\ e \in MenuEntries /\ e.at = Len(s) /\ e.drawn = FALSE
  <2> DEFINE blank == ""  drawn == FALSE
  <2>1. drawn \in BOOLEAN /\ Menus!Opener \in MenuCommands /\ blank \in MenuTexts
    BY DEF MenuCommands, MenuTexts
  <2>2. e = Menus!Entry(w, Menus!Opener, blank, drawn)
    OBVIOUS
  <2>3. drawn = FALSE
    OBVIOUS
  <2> HIDE DEF drawn, blank, e
  <2> QED BY <2>1, <2>2, <2>3, EntryIsMade
<1>2. /\ DOMAIN w.captions = Menus!Commands
      /\ \A k \in DOMAIN w.menus : /\ EntriesInOrder(w.menus[k].entries)
                                   /\ EntriesCaptioned(w.menus[k].entries, w.captions, w.renamed)
  BY DEF BuildInv, MenuInv, MenuEntriesInv
<1>3. IsFilled(v, w, filled, w.captions, w.renamed)
  <2>1. /\ MenuFields \subseteq DOMAIN w /\ \A k \in DOMAIN w.menus : HandleFields \subseteq DOMAIN w.menus[k]
    BY DEF BuildInv, MenuInv, MenuTreeInv, MenusHang
  <2>2. v = [w EXCEPT !.menus[t].entries = filled]
    BY DEF Menus!Appended
  <2> HIDE DEF v, filled
  <2> QED BY <1>1, <2>1, <2>2 DEF IsFilled, HandleFields, MenuFields
<1>4. s \in Seq(MenuEntries) /\ EntriesInOrder(s) /\ EntriesCaptioned(s, w.captions, w.renamed)
  BY <1>1, <1>2 DEF EntriesInOrder
<1>5. EntriesInOrder(filled) /\ EntriesCaptioned(filled, w.captions, w.renamed)
  <2>1. ~IsBreak(e)
    BY <1>1 DEF IsBreak
  <2> HIDE DEF e, s, v
  <2> QED BY <1>1, <1>4, <2>1, AppendKeepsOrder, AppendKeepsCaptions
<1> HIDE DEF v, filled, e
<1>6. BuildInv(v)
  BY <1>2, <1>3, <1>5, FilledKeeps
<1> QED BY <1>3, <1>6 DEF IsFilled, v, e

\* A popup that there was not before hangs below the menu that was filled, or the
\* one that the builder was made for.
LEMMA PopupKeeps ==
  ASSUME NEW w, NEW handle, BuildInv(w), handle \notin DOMAIN w.menus
  PROVE  BuildInv(Menus!Popup(w, handle))
<1> DEFINE above == IF w.builder.target # Menus!None THEN w.builder.target ELSE w.builder.menu
           brush == IF w.builder.brushed
                    THEN [by |-> Menus!Builder, palette |-> w.palette, dead |-> FALSE]
                    ELSE Menus!NoBrush
           filling == [w EXCEPT !.builder.target = above]
           u == Menus!Appended(filling, Menus!Entry(filling, Menus!Opener, "", FALSE))
           plain == IF w.builder.brushed THEN u.plain ELSE u.plain \cup {handle}
           opened == [u EXCEPT !.menus = Menus!Joined(@, handle, Menus!NewMenu(above, brush)),
                               !.plain = IF w.builder.brushed THEN @ ELSE @ \cup {handle}]
           v == Menus!Popup(w, handle)
<1>0. /\ MenuFields \subseteq DOMAIN w /\ MenuInv(w) /\ BuilderFields \subseteq DOMAIN w.builder
      /\ w.builder.menu \in DOMAIN w.menus /\ Menus!None \notin DOMAIN w.menus
      /\ above \in DOMAIN w.menus
  BY DEF BuildInv, MenuInv, MenuTreeInv, MenusHang
<1>1. CASE handle = Menus!None
  <2>1. v = [w EXCEPT !.builder.target = handle, !.builder.parent = FALSE]
    BY <1>1 DEF Menus!Popup
  <2> HIDE DEF v
  <2>2. /\ MenuFields \subseteq DOMAIN v
        /\ \A f \in MenuFields \ {"builder"} : v[f] = w[f]
        /\ BuilderFields \subseteq DOMAIN v.builder
        /\ v.builder.menu = w.builder.menu /\ v.builder.target = handle
    BY <1>0, <2>1 DEF MenuFields, BuilderFields
  <2>3. /\ v.menus = w.menus /\ v.failed = w.failed /\ v.plain = w.plain
        /\ v.current = w.current /\ v.palette = w.palette
        /\ v.captions = w.captions /\ v.renamed = w.renamed
    BY <2>2 DEF MenuFields
  <2>4. MenuInv(v)
    BY <1>0, <2>2, <2>3 DEF MenuInv, MenuTreeInv, MenuEntriesInv
  <2>5. BuildInv(v)
    BY <1>0, <1>1, <2>2, <2>3, <2>4 DEF BuildInv
  <2> QED BY <2>5 DEF v
<1>2. CASE handle # Menus!None
  <2>1. v = [opened EXCEPT !.builder.target = handle, !.builder.parent = FALSE]
    BY <1>2 DEF Menus!Popup
  <2> HIDE DEF above
  <2>2. /\ MenuFields \subseteq DOMAIN filling
        /\ \A f \in MenuFields \ {"builder"} : filling[f] = w[f]
        /\ BuilderFields \subseteq DOMAIN filling.builder
        /\ filling.builder.menu = w.builder.menu /\ filling.builder.target = above
    BY <1>0 DEF MenuFields, BuilderFields
  <2> HIDE DEF filling
  <2>3. /\ filling.menus = w.menus /\ filling.failed = w.failed /\ filling.plain = w.plain
        /\ filling.current = w.current
        /\ filling.palette = w.palette /\ filling.captions = w.captions /\ filling.renamed = w.renamed
    BY <2>2 DEF MenuFields
  <2>4. MenuInv(filling)
    BY <1>0, <2>2, <2>3 DEF MenuInv, MenuTreeInv, MenuEntriesInv
  <2>5. BuildInv(filling)
    BY <1>0, <2>2, <2>3, <2>4 DEF BuildInv
  <2>6. filling.builder.target # Menus!None
    BY <1>0, <2>2
  <2>7. BuildInv(u) /\ DOMAIN u.menus = DOMAIN w.menus /\ u.builder = filling.builder /\ u.palette = w.palette
    BY <2>3, <2>5, <2>6, OpenerKeeps
  <2> HIDE DEF u
  <2>8. /\ MenuTreeInv(u) /\ MenuEntriesInv(u) /\ MenuFields \subseteq DOMAIN u
        /\ \A k \in DOMAIN u.menus : HandleFields \subseteq DOMAIN u.menus[k]
    BY <2>7 DEF BuildInv, MenuInv, MenuTreeInv, MenusHang
  <2> DEFINE menus == Menus!Joined(u.menus, handle, Menus!NewMenu(above, brush))
  <2>9. /\ MenuFields \subseteq DOMAIN v
        /\ v.menus = menus /\ v.plain = plain
        /\ \A f \in MenuFields \ {"menus", "plain", "builder"} : v[f] = u[f]
        /\ BuilderFields \subseteq DOMAIN v.builder
        /\ v.builder.menu = w.builder.menu /\ v.builder.target = handle
    <3>1. opened = [u EXCEPT !.menus = menus, !.plain = plain]
      BY <2>8 DEF MenuFields
    <3> HIDE DEF menus, plain
    <3>2. v = [u EXCEPT !.menus = menus, !.plain = plain, !.builder = [@ EXCEPT !.target = handle, !.parent = FALSE]]
      BY <2>1, <2>8, <3>1 DEF MenuFields
    <3> HIDE DEF v, opened
    <3> QED BY <2>2, <2>7, <2>8, <3>2 DEF MenuFields, BuilderFields
  <2> HIDE DEF v, opened
  <2>10. /\ v.failed = u.failed /\ v.current = u.current /\ v.palette = u.palette
         /\ v.captions = u.captions /\ v.renamed = u.renamed
    BY <2>9 DEF MenuFields
  <2>11. MenuTreeInv(v)
    <3>1. /\ DOMAIN brush = {"by", "palette", "dead"} /\ brush.by \in {Menus!Builder, Menus!None}
          /\ brush.dead = FALSE /\ (brush.palette = u.palette \/ handle \in v.plain)
      BY <2>7, <2>9 DEF Menus!NoBrush
    <3>2. /\ above \in DOMAIN u.menus \cup {Menus!None} /\ handle \notin DOMAIN u.menus
          /\ v.plain \in {u.plain, u.plain \cup {handle}}
      BY <1>0, <2>7, <2>9
    <3>3. /\ v.menus = Menus!Joined(u.menus, handle, Menus!NewMenu(above, brush))
          /\ MenuFields \subseteq DOMAIN v
      BY <2>9
    <3> HIDE DEF brush, menus, plain
    <3>4. \/ brush.palette = u.palette \/ handle \in v.plain
          \/ handle \notin Menus!Below(v.menus, Menus!Bar)
      BY <3>1
    <3>5. \A k \in DOMAIN u.menus : /\ HandleFields \subseteq DOMAIN u.menus[k]
                                    /\ u.menus[k].parent = u.menus[k].parent
                                    /\ u.menus[k].background = u.menus[k].background
      BY <2>8
    <3> QED BY <1>2, <2>8, <2>10, <3>1, <3>2, <3>3, <3>4, <3>5, MenuAdded
  <2>12. MenuEntriesInv(v)
    <3>1. /\ DOMAIN v.menus = DOMAIN u.menus \cup {handle}
          /\ \A k \in DOMAIN u.menus : v.menus[k] = u.menus[k]
          /\ v.menus[handle].entries = <<>>
      BY <1>0, <2>7, <2>9 DEF Menus!Joined, Menus!NewMenu
    <3>2. EntriesInOrder(<<>>) /\ EntriesCaptioned(<<>>, v.captions, v.renamed)
      BY DEF EntriesInOrder, EntriesCaptioned
    <3> QED BY <2>8, <2>10, <3>1, <3>2 DEF MenuEntriesInv
  <2>13. v.builder.menu \in DOMAIN v.menus /\ v.builder.target \in DOMAIN v.menus
    BY <1>0, <2>7, <2>9 DEF Menus!Joined
  <2>14. BuildInv(v)
    BY <2>9, <2>11, <2>12, <2>13 DEF BuildInv, MenuInv
  <2> QED BY <2>14 DEF v
<1> QED BY <1>1, <1>2

\* Any call on the builder.
LEMMA CalledKeeps ==
  ASSUME NEW w, NEW call \in Menus!Calls, BuildInv(w),
         call.of = "popup" => call.handle \notin DOMAIN w.menus
  PROVE  BuildInv(Menus!Called(w, call))
<1>1. /\ call.of \in {"popup", "item", "check_item", "separator"}
      /\ call.of \in {"item", "check_item"} => call.caption \in Captions
  BY DEF Menus!Calls
<1>2. CASE call.of = "popup"
  BY <1>2, PopupKeeps DEF Menus!Called
<1>3. CASE call.of # "popup" /\ w.builder.target = Menus!None
  <2>1. Menus!Called(w, call) = w
    BY <1>1, <1>3 DEF Menus!Called
  <2> QED BY <2>1
<1>4. CASE call.of = "item" /\ w.builder.target # Menus!None
  <2>1. Menus!Called(w, call) = Menus!Item(w, call.caption)
    BY <1>4 DEF Menus!Called
  <2> QED BY <1>1, <1>4, <2>1, ItemKeeps
<1>5. CASE call.of = "check_item" /\ w.builder.target # Menus!None
  <2>1. Menus!Called(w, call) = Menus!CheckItem(w, call.caption)
    BY <1>5 DEF Menus!Called
  <2> QED BY <1>1, <1>5, <2>1, ItemKeeps
<1>6. CASE call.of = "separator" /\ w.builder.target # Menus!None
  <2>1. Menus!Called(w, call) = Menus!AddSeparator(w)
    BY <1>6 DEF Menus!Called
  <2> QED BY <1>6, <2>1, SeparatorKeeps
<1> QED BY <1>1, <1>2, <1>3, <1>4, <1>5, <1>6

\* A statement that builds: a builder, two calls, and the builder is gone.
LEMMA BuildKeeps ==
  ASSUME MenuInv(win), Menus!Build
  PROVE  MenuInv(win')
<1>1. PICK h \in {Menus!Bar, Menus!Context} \cap DOMAIN win.menus, calls \in Menus!Calls \X Menus!Calls,
              brushed \in BOOLEAN :
        LET made == Menus!MakeBuilder(win, h, brushed)
            built == Menus!Called(Menus!Called(made, calls[1]), calls[2])
        IN /\ calls[1].of = "popup" => calls[1].handle \notin DOMAIN win.menus
           /\ calls[2].of = "popup" => calls[2].handle \notin DOMAIN Menus!Called(made, calls[1]).menus
           /\ win' = [built EXCEPT !.builder = Menus!NoBuilder]
  BY DEF Menus!Build
<1> DEFINE made == Menus!MakeBuilder(win, h, brushed)
           one == Menus!Called(made, calls[1])
           built == Menus!Called(one, calls[2])
<1>2. /\ MenuFields \subseteq DOMAIN win /\ calls[1] \in Menus!Calls /\ calls[2] \in Menus!Calls
  BY DEF MenuInv, MenuTreeInv
<1>3. /\ MenuFields \subseteq DOMAIN made
      /\ \A f \in MenuFields \ {"builder"} : made[f] = win[f]
      /\ BuilderFields \subseteq DOMAIN made.builder /\ made.builder.menu = h /\ made.builder.target = h
  BY <1>2 DEF Menus!MakeBuilder, MenuFields, BuilderFields
<1>4. /\ calls[1].of = "popup" => calls[1].handle \notin DOMAIN win.menus
      /\ calls[2].of = "popup" => calls[2].handle \notin DOMAIN one.menus
      /\ win' = [built EXCEPT !.builder = Menus!NoBuilder]
  BY <1>1
<1> HIDE DEF made
<1>5. /\ made.menus = win.menus /\ made.failed = win.failed /\ made.plain = win.plain
      /\ made.current = win.current
      /\ made.palette = win.palette /\ made.captions = win.captions /\ made.renamed = win.renamed
  BY <1>3 DEF MenuFields
<1>6. MenuInv(made)
  BY <1>3, <1>5 DEF MenuInv, MenuTreeInv, MenuEntriesInv
<1>7. BuildInv(made)
  BY <1>3, <1>5, <1>6 DEF BuildInv
<1>8. BuildInv(one)
  BY <1>2, <1>4, <1>5, <1>7, CalledKeeps
<1> HIDE DEF one
<1>9. BuildInv(built)
  BY <1>2, <1>4, <1>8, CalledKeeps
<1> HIDE DEF built
<1>10. MenuFields \subseteq DOMAIN built
  BY <1>9 DEF BuildInv, MenuInv, MenuTreeInv
<1>11. /\ MenuFields \subseteq DOMAIN win'
       /\ win'.menus = built.menus /\ win'.failed = built.failed /\ win'.plain = built.plain
       /\ win'.current = built.current
       /\ win'.palette = built.palette /\ win'.captions = built.captions /\ win'.renamed = built.renamed
  BY <1>4, <1>10 DEF MenuFields
<1> QED BY <1>9, <1>11 DEF BuildInv, MenuInv, MenuTreeInv, MenuEntriesInv

\* Brushes do not touch the entries.
LEMMA PaletteKeepsEntries ==
  ASSUME NEW w, NEW h, NEW made \in BOOLEAN, MenuFields \subseteq DOMAIN w, MenusHang(w.menus),
         MenuEntriesInv(w)
  PROVE  MenuEntriesInv(Menus!ApplyPalette(w, h, made))
<1> DEFINE v == Menus!ApplyPalette(w, h, made)
<1>1. /\ DOMAIN v.menus = DOMAIN w.menus
      /\ v.captions = w.captions /\ v.renamed = w.renamed
  BY DEF Menus!ApplyPalette, Menus!ApplyMenubarPalette, Menus!Deleted, MenuFields
<1>2. \A k \in DOMAIN w.menus : v.menus[k].entries = w.menus[k].entries
  <2> DEFINE deleted == Menus!Deleted(w.menus, h)
             brush == [by |-> h, palette |-> w.palette, dead |-> FALSE]
  <2>1. /\ DOMAIN deleted = DOMAIN w.menus
        /\ \A k \in DOMAIN w.menus : HandleFields \subseteq DOMAIN deleted[k]
                                     /\ deleted[k].entries = w.menus[k].entries
    BY DEF Menus!Deleted, HandleFields, MenusHang
  <2>2. v.menus = IF made THEN Menus!ApplyMenubarPalette(deleted, h, brush) ELSE deleted
    BY DEF Menus!ApplyPalette, MenuFields
  <2> HIDE DEF v, deleted, brush
  <2> QED BY <2>1, <2>2 DEF Menus!ApplyMenubarPalette, HandleFields
<1> HIDE DEF v
<1>3. MenuEntriesInv(v)
  BY <1>1, <1>2 DEF MenuEntriesInv
<1> QED BY <1>3 DEF v

\* The bar alone, without a brush.
LEMMA MenuStarted == Menus!Init => MenuInv(win)
<1> SUFFICES ASSUME Menus!Init PROVE MenuInv(win)
  OBVIOUS
<1>1. /\ MenuFields \subseteq DOMAIN win /\ win.current = FALSE
      /\ DOMAIN win.captions = Menus!Commands
      /\ win.menus = [h \in {Menus!Bar} |-> Menus!NewMenu(Menus!None, Menus!NoBrush)]
  BY DEF Menus!Init, MenuFields
<1>2. /\ DOMAIN win.menus = {Menus!Bar} /\ HandleFields \subseteq DOMAIN win.menus[Menus!Bar]
      /\ win.menus[Menus!Bar].parent = Menus!None /\ win.menus[Menus!Bar].entries = <<>>
      /\ win.menus[Menus!Bar].background = Menus!NoBrush
  BY <1>1 DEF Menus!NewMenu, HandleFields
<1>3. /\ {"by", "palette", "dead"} \subseteq DOMAIN Menus!NoBrush
      /\ Menus!NoBrush.by = Menus!None /\ Menus!NoBrush.dead = FALSE
  BY DEF Menus!NoBrush
<1>4. Menus!None \notin {Menus!Bar, Menus!Context}
  BY DEF Menus!None, Menus!Bar, Menus!Context
<1>5. EntriesInOrder(<<>>) /\ EntriesCaptioned(<<>>, win.captions, win.renamed)
  BY DEF EntriesInOrder, EntriesCaptioned
<1>6. MenusHang(win.menus) /\ BrushesHang(win.menus, win.failed)
  BY <1>2, <1>3, <1>4 DEF MenusHang, BrushesHang
<1> QED BY <1>1, <1>2, <1>5, <1>6 DEF MenuInv, MenuTreeInv, MenuEntriesInv

\* Whatever is applied, built, made and destroyed keeps the invariant.
LEMMA MenuStep == MenuInv(win) /\ Menus!Next => MenuInv(win')
<1> SUFFICES ASSUME MenuInv(win), Menus!Next PROVE MenuInv(win')
  OBVIOUS
<1>0. /\ MenuFields \subseteq DOMAIN win /\ MenuTreeInv(win) /\ MenuEntriesInv(win)
      /\ MenusHang(win.menus) /\ BrushesHang(win.menus, win.failed)
  BY DEF MenuInv, MenuTreeInv
<1>1. CASE Menus!SetPalette
  <2>1. /\ MenuFields \subseteq DOMAIN win' /\ win'.menus = win.menus /\ win'.failed = win.failed
        /\ win'.current = FALSE /\ win'.captions = win.captions /\ win'.renamed = win.renamed
    BY <1>0, <1>1 DEF Menus!SetPalette, MenuFields
  <2> QED BY <1>0, <2>1 DEF MenuInv, MenuTreeInv, MenuEntriesInv
<1>2. CASE Menus!EnableOwnerDraw
  <2>1. /\ MenuFields \subseteq DOMAIN win' /\ win'.menus = win.menus /\ win'.failed = win.failed
        /\ win'.plain = win.plain /\ win'.current = win.current /\ win'.palette = win.palette
        /\ win'.captions = win.captions /\ win'.renamed = win.renamed
    BY <1>0, <1>2 DEF Menus!EnableOwnerDraw, MenuFields
  <2> QED BY <1>0, <2>1 DEF MenuInv, MenuTreeInv, MenuEntriesInv
<1>3. CASE Menus!ApplyToBar
  <2>1. PICK made \in BOOLEAN :
           win' = [Menus!ApplyPalette(win, Menus!Bar, made) EXCEPT !.current = made]
    BY <1>3 DEF Menus!ApplyToBar
  <2> DEFINE v == Menus!ApplyPalette(win, Menus!Bar, made)
  <2>2. MenuTreeInv([win EXCEPT !.current = FALSE])
    BY <1>0 DEF MenuTreeInv, MenuFields
  <2>3. /\ MenuTreeInv([v EXCEPT !.current = FALSE]) /\ MenuFields \subseteq DOMAIN v
        /\ made => \A k \in Menus!Below(v.menus, Menus!Bar) : v.menus[k].background.palette = v.palette
    BY <1>0, <2>2, ApplyPaletteKeeps
  <2>4. MenuEntriesInv(v)
    BY <1>0, PaletteKeepsEntries
  <2> HIDE DEF v
  <2>5. win' = [v EXCEPT !.current = made]
    BY <2>1 DEF v
  <2>6. /\ MenuFields \subseteq DOMAIN win' /\ win'.menus = v.menus /\ win'.failed = v.failed
        /\ win'.plain = v.plain /\ win'.palette = v.palette /\ win'.captions = v.captions /\ win'.renamed = v.renamed
        /\ win'.current = made
    BY <2>3, <2>5 DEF MenuFields
  <2>7. MenusHang(v.menus) /\ BrushesHang(v.menus, v.failed)
    BY <2>3 DEF MenuTreeInv, MenuFields
  <2> QED BY <2>3, <2>4, <2>6, <2>7 DEF MenuInv, MenuTreeInv, MenuEntriesInv
<1>4. CASE Menus!MakePopup
  <2> DEFINE w == [win EXCEPT !.menus = Menus!Joined(@, Menus!Context,
                                            Menus!NewMenu(Menus!None, Menus!NoBrush))]
  <2>1. PICK made \in BOOLEAN : win' = Menus!ApplyPalette(w, Menus!Context, made)
    BY <1>4 DEF Menus!MakePopup
  <2> DEFINE v == Menus!ApplyPalette(w, Menus!Context, made)
  <2>2. /\ MenuFields \subseteq DOMAIN w
        /\ w.menus = Menus!Joined(win.menus, Menus!Context, Menus!NewMenu(Menus!None, Menus!NoBrush))
        /\ w.failed = win.failed /\ w.plain = win.plain
        /\ w.current = win.current /\ w.palette = win.palette
        /\ w.captions = win.captions /\ w.renamed = win.renamed
    BY <1>0 DEF MenuFields
  <2> HIDE DEF w
  <2>3. /\ Menus!Context \notin DOMAIN win.menus /\ Menus!Context # Menus!None
        /\ Menus!Context # Menus!Bar
    BY <1>4 DEF Menus!MakePopup, Menus!Context, Menus!None, Menus!Bar
  <2>4. /\ DOMAIN w.menus = DOMAIN win.menus \cup {Menus!Context}
        /\ \A k \in DOMAIN win.menus : w.menus[k] = win.menus[k]
        /\ w.menus[Menus!Context].parent = Menus!None /\ w.menus[Menus!Context].entries = <<>>
    BY <2>2, <2>3 DEF Menus!Joined, Menus!NewMenu
  <2>5. Menus!Context \notin Menus!Below(w.menus, Menus!Bar)
    <3> DEFINE below == Menus!Below(win.menus, Menus!Bar)
    <3>1. Menus!Closed(win.menus, Menus!Bar, below) /\ below \subseteq DOMAIN win.menus
      BY BelowIsClosed
    <3> HIDE DEF below
    <3>2. Menus!Closed(w.menus, Menus!Bar, below)
      BY <1>0, <2>3, <2>4, <3>1 DEF Menus!Closed, MenusHang
    <3> QED BY <2>3, <3>1, <3>2, BelowIsLeast
  <2>6. MenuTreeInv(w)
    <3> DEFINE brush == Menus!NoBrush
    <3>1. /\ DOMAIN brush = {"by", "palette", "dead"} /\ brush.by \in {Menus!Builder, Menus!None}
          /\ brush.dead = FALSE
      BY DEF Menus!NoBrush
    <3>2. \A k \in DOMAIN win.menus : HandleFields \subseteq DOMAIN win.menus[k]
      BY <1>0 DEF MenusHang
    <3>3. w.menus = Menus!Joined(win.menus, Menus!Context, Menus!NewMenu(Menus!None, brush))
      BY <2>2
    <3> HIDE DEF brush
    <3> QED BY <1>0, <2>2, <2>3, <2>5, <3>1, <3>2, <3>3, MenuAdded
  <2>7. MenuEntriesInv(w)
    <3>1. EntriesInOrder(<<>>) /\ EntriesCaptioned(<<>>, win.captions, win.renamed)
      BY DEF EntriesInOrder, EntriesCaptioned
    <3> QED BY <1>0, <2>2, <2>4, <3>1 DEF MenuEntriesInv
  <2>8. MenuTreeInv([w EXCEPT !.current = FALSE])
    BY <2>6 DEF MenuTreeInv, MenuFields
  <2>9. /\ MenuTreeInv([v EXCEPT !.current = FALSE]) /\ MenuFields \subseteq DOMAIN v
        /\ v.current = w.current /\ v.palette = w.palette
        /\ \A k \in DOMAIN w.menus : v.menus[k].background.palette
                                        \in {w.menus[k].background.palette, w.palette}
        /\ Menus!Below(v.menus, Menus!Bar) = Menus!Below(w.menus, Menus!Bar)
        /\ \A k \in w.plain \ v.plain : v.menus[k].background.palette = v.palette
    BY <2>2, <2>8, ApplyPaletteKeeps
  <2>10. MenuEntriesInv(v)
    <3>1. MenusHang(w.menus)
      BY <2>6 DEF MenuTreeInv
    <3> QED BY <2>2, <2>7, <3>1, PaletteKeepsEntries
  <2> HIDE DEF v
  <2>11. MenusHang(v.menus) /\ BrushesHang(v.menus, v.failed)
    BY <2>9 DEF MenuTreeInv, MenuFields
  <2>12. v.current => \A k \in Menus!Below(v.menus, Menus!Bar) \ v.plain :
                         v.menus[k].background.palette = v.palette
    <3>1. Menus!Below(w.menus, Menus!Bar) \subseteq DOMAIN w.menus
      BY BelowIsClosed
    <3>2. w.current => \A k \in Menus!Below(w.menus, Menus!Bar) \ w.plain :
                          w.menus[k].background.palette = w.palette
      BY <2>6 DEF MenuTreeInv
    <3> QED BY <2>9, <3>1, <3>2
  <2>13. win' = v
    BY <2>1 DEF v
  <2> QED BY <2>9, <2>10, <2>11, <2>12, <2>13 DEF MenuInv, MenuTreeInv
<1>5. CASE Menus!Reset
  <2>1. MenuTreeInv(win')
    BY <1>0, <1>5, ResetKeeps
  <2>2. /\ DOMAIN win'.menus \subseteq DOMAIN win.menus
        /\ \A k \in DOMAIN win'.menus : win'.menus[k].entries = win.menus[k].entries
        /\ win'.captions = win.captions /\ win'.renamed = win.renamed
    <3> DEFINE gone == Menus!Below(win.menus, Menus!Context)
    <3>1. /\ win'.menus = [k \in DOMAIN win.menus \ gone |-> Menus!Deleted(win.menus, Menus!Context)[k]]
          /\ win'.captions = win.captions /\ win'.renamed = win.renamed
      BY <1>0, <1>5 DEF Menus!Reset, Menus!Restrict, MenuFields
    <3> HIDE DEF gone
    <3> QED BY <1>0, <3>1 DEF Menus!Deleted, MenusHang, HandleFields
  <2> QED BY <1>0, <2>1, <2>2 DEF MenuInv, MenuEntriesInv
<1>6. CASE Menus!Build
  BY <1>6, BuildKeeps
<1> QED BY <1>1, <1>2, <1>3, <1>4, <1>5, <1>6 DEF Menus!Next

\* What the invariant says of the properties of the menus.
LEMMA MenuInvImplies ==
  MenuInv(win) => Menus!ItemsArePainted /\ Menus!BrushesLive /\ Menus!ThemesAgree
<1> SUFFICES ASSUME MenuInv(win) PROVE Menus!ItemsArePainted /\ Menus!BrushesLive /\ Menus!ThemesAgree
  OBVIOUS
<1>1. Menus!ItemsArePainted
  BY DEF MenuInv, MenuEntriesInv, EntriesInOrder, EntriesCaptioned, IsBreak, Menus!ItemsArePainted
<1>2. Menus!BrushesLive
  BY DEF MenuInv, MenuTreeInv, BrushesHang, Menus!BrushesLive
<1>3. Menus!ThemesAgree
  BY DEF MenuInv, MenuTreeInv, Menus!ThemesAgree
<1> QED BY <1>1, <1>2, <1>3

-----------------------------------------------------------------------------
(* All programs                                                            *)

ProgramInv ==
    /\ program = "panels" => PanelInv
    /\ program = "workbench" => WorkbenchInv
    /\ program = "settings" => SettingsInv
    /\ program = "settings form" => FormInv
    /\ program = "dark studio" => StudioInv
    /\ program = "theme demo" => ThemeInv
    /\ program = "component gallery" => GalleryInv
    /\ program = "tiles" => TileInv
    /\ program = "playground" => PlayInv
    /\ program = "resource gallery" => ResourceInv
    /\ program = "dialog tour" => TourInv
    /\ program = "scroll bar" => ThumbInv
    /\ program = "slider" => RailInv
    /\ program = "menu" => MenuInv(win)

\* Each program starts in its invariant.
LEMMA ProgramStarted == ProgramInit => ProgramInv
<1> SUFFICES ASSUME ProgramInit PROVE ProgramInv
  OBVIOUS
<1>1. program = "panels" => PanelInv
  <2>1. program = "panels" => Panels!Init
    BY DEF ProgramInit
  <2> QED BY <2>1, PanelsStarted
<1>2. program = "workbench" => WorkbenchInv
  <2>1. program = "workbench" => Workbench!Init
    BY DEF ProgramInit
  <2> QED BY <2>1, WorkbenchStarted
<1>3. program = "settings" => SettingsInv
  <2>1. program = "settings" => Settings!Init
    BY DEF ProgramInit
  <2> QED BY <2>1, SettingsStarted
<1>4. program = "settings form" => FormInv
  <2>1. program = "settings form" => Form!Init
    BY DEF ProgramInit
  <2> QED BY <2>1, FormStarted
<1>5. program = "dark studio" => StudioInv
  <2>1. program = "dark studio" => Studio!Init
    BY DEF ProgramInit
  <2> QED BY <2>1, StudioStarted
<1>6. program = "theme demo" => ThemeInv
  <2>1. program = "theme demo" => Theme!Init
    BY DEF ProgramInit
  <2> QED BY <2>1, ThemeStarted
<1>7. program = "component gallery" => GalleryInv
  <2>1. program = "component gallery" => Gallery!Init
    BY DEF ProgramInit
  <2> QED BY <2>1, GalleryStarted
<1>8. program = "tiles" => TileInv
  <2>1. program = "tiles" => Tile!Init
    BY DEF ProgramInit
  <2> QED BY <2>1, TileStarted
<1>9. program = "playground" => PlayInv
  <2>1. program = "playground" => Play!Init
    BY DEF ProgramInit
  <2> QED BY <2>1, PlayStarted
<1>10. program = "resource gallery" => ResourceInv
  <2>1. program = "resource gallery" => Resources!Init
    BY DEF ProgramInit
  <2> QED BY <2>1, ResourceStarted
<1>11. program = "dialog tour" => TourInv
  <2>1. program = "dialog tour" => Tour!Init
    BY DEF ProgramInit
  <2> QED BY <2>1, TourStarted
<1>12. program = "scroll bar" => ThumbInv
  <2>1. program = "scroll bar" => Thumb!Init
    BY DEF ProgramInit
  <2> QED BY <2>1, ThumbStarted
<1>13. program = "slider" => RailInv
  <2>1. program = "slider" => Rail!Init
    BY DEF ProgramInit
  <2> QED BY <2>1, RailStarted
<1>14. program = "menu" => MenuInv(win)
  <2>1. program = "menu" => Menus!Init
    BY DEF ProgramInit
  <2> QED BY <2>1, MenuStarted
<1> QED BY <1>1, <1>2, <1>3, <1>4, <1>5, <1>6, <1>7, <1>8, <1>9, <1>10, <1>11, <1>12, <1>13, <1>14
        DEF ProgramInv

\* A step is one of the program that runs, which stays the same one.
LEMMA ProgramStep == ProgramInv /\ ProgramNext => ProgramInv' /\ ProgramRepaints
<1> SUFFICES ASSUME ProgramInv, ProgramNext PROVE ProgramInv' /\ ProgramRepaints
  OBVIOUS
<1>0. program' = program
  BY DEF ProgramNext
<1>1. program = "panels" => PanelInv' /\ Panels!Repainted
  <2>1. program = "panels" => PanelInv /\ Panels!Next
    BY DEF ProgramInv, ProgramNext
  <2> QED BY <2>1, PanelsStep
<1>2. program = "workbench" => WorkbenchInv' /\ Workbench!Repainted
  <2>1. program = "workbench" => WorkbenchInv /\ Workbench!Next
    BY DEF ProgramInv, ProgramNext
  <2> QED BY <2>1, WorkbenchStep
<1>3. program = "settings" => SettingsInv' /\ Settings!Repainted
  <2>1. program = "settings" => SettingsInv /\ Settings!Next
    BY DEF ProgramInv, ProgramNext
  <2> QED BY <2>1, SettingsStep, SettingsRepaints
<1>4. program = "settings form" => FormInv' /\ Form!Repainted
  <2>1. program = "settings form" => FormInv /\ Form!Next
    BY DEF ProgramInv, ProgramNext
  <2> QED BY <2>1, FormStep
<1>5. program = "dark studio" => StudioInv' /\ Studio!Repainted
  <2>1. program = "dark studio" => StudioInv /\ Studio!Next
    BY DEF ProgramInv, ProgramNext
  <2> QED BY <2>1, StudioStep
<1>6. program = "theme demo" => ThemeInv' /\ Theme!Repainted
  <2>1. program = "theme demo" => ThemeInv /\ Theme!Next
    BY DEF ProgramInv, ProgramNext
  <2> QED BY <2>1, ThemeStep
<1>7. program = "component gallery" => GalleryInv' /\ Gallery!Repainted
  <2>1. program = "component gallery" => GalleryInv /\ Gallery!Next
    BY DEF ProgramInv, ProgramNext
  <2> QED BY <2>1, GalleryStep
<1>8. program = "tiles" => TileInv' /\ Tile!Repainted
  <2>1. program = "tiles" => TileInv /\ Tile!Next
    BY DEF ProgramInv, ProgramNext
  <2> QED BY <2>1, TileStep, TileRepaints
<1>9. program = "playground" => PlayInv' /\ Play!Repainted
  <2>1. program = "playground" => PlayInv /\ Play!Next
    BY DEF ProgramInv, ProgramNext
  <2> QED BY <2>1, PlayStep
<1>10. program = "resource gallery" => ResourceInv' /\ Resources!Repainted
  <2>1. program = "resource gallery" => ResourceInv /\ Resources!Next
    BY DEF ProgramInv, ProgramNext
  <2> QED BY <2>1, ResourceStep
<1>11. program = "dialog tour" => TourInv' /\ Tour!Repainted
  <2>1. program = "dialog tour" => TourInv /\ Tour!Next
    BY DEF ProgramInv, ProgramNext
  <2> QED BY <2>1, TourStep
<1>12. program = "scroll bar" => ThumbInv' /\ Thumb!Repainted
  <2>1. program = "scroll bar" => ThumbInv /\ Thumb!Next
    BY DEF ProgramInv, ProgramNext
  <2> QED BY <2>1, ThumbStep
<1>13. program = "slider" => RailInv' /\ Rail!Repainted
  <2>1. program = "slider" => RailInv /\ Rail!Next
    BY DEF ProgramInv, ProgramNext
  <2> QED BY <2>1, RailStep
<1>14. program = "menu" => MenuInv(win')
  <2>1. program = "menu" => MenuInv(win) /\ Menus!Next
    BY DEF ProgramInv, ProgramNext
  <2> QED BY <2>1, MenuStep
<1>15. ProgramInv'
  BY <1>0, <1>1, <1>2, <1>3, <1>4, <1>5, <1>6, <1>7, <1>8, <1>9, <1>10, <1>11, <1>12, <1>13, <1>14
     DEF ProgramInv
<1>16. ProgramRepaints
  BY <1>1, <1>2, <1>3, <1>4, <1>5, <1>6, <1>7, <1>8, <1>9, <1>10, <1>11, <1>12, <1>13
     DEF ProgramRepaints
<1> QED BY <1>15, <1>16

\* A step that changes nothing keeps everything.
LEMMA ProgramStutters ==
  ProgramInv /\ UNCHANGED <<program, board, brokerVars, win>> => ProgramInv'
<1> SUFFICES ASSUME ProgramInv, program' = program, win' = win PROVE ProgramInv'
  OBVIOUS
<1> USE DEF ProgramInv
<1>1. (program = "panels" => PanelInv)' /\ (program = "workbench" => WorkbenchInv)'
  BY DEF PanelInv, WorkbenchInv, Panels!HoverEnds, Workbench!HoverEnds
<1>2. (program = "settings" => SettingsInv)' /\ (program = "settings form" => FormInv)'
  BY DEF SettingsInv, Settings!CleanIsStored, Settings!ThemesAgree, FormInv, Form!HoverEnds
<1>3. (program = "dark studio" => StudioInv)' /\ (program = "theme demo" => ThemeInv)'
  BY DEF StudioInv, Studio!ThemesAgree, ThemeInv, Theme!ThemesAgree
<1>4. (program = "component gallery" => GalleryInv)' /\ (program = "tiles" => TileInv)'
  BY DEF GalleryInv, Gallery!ThemesAgree, TileInv, Tile!PressIsHeld, Tile!HoverEnds, Tile!StatusIsTrue
<1>5. (program = "playground" => PlayInv)' /\ (program = "resource gallery" => ResourceInv)'
  BY DEF PlayInv, Play!ThemesAgree, Play!StatusIsTrue, ResourceInv, Resources!ThemesAgree,
         Resources!HoverEnds
<1>6. (program = "dialog tour" => TourInv)'
  BY DEF TourInv, Tour!DialogIsRouted, Tour!StatusIsTrue, Tour!HoverEnds, Tour!ThemesAgree
<1>7. (program = "scroll bar" => ThumbInv)' /\ (program = "slider" => RailInv)'
  BY DEF ThumbInv, RailInv
<1>8. (program = "menu" => MenuInv(win))'
  OBVIOUS
<1> QED BY <1>1, <1>2, <1>3, <1>4, <1>5, <1>6, <1>7, <1>8

\* Every program stays in its invariant.
THEOREM ProgramInvariance == ProgramSpec => []ProgramInv
<1>1. ProgramInit => ProgramInv
  BY ProgramStarted
<1>2. ProgramInv /\ [ProgramNext]_<<program, board, brokerVars, win>> => ProgramInv'
  BY ProgramStep, ProgramStutters
<1> QED BY <1>1, <1>2, PTL DEF ProgramSpec

\* Settings that are shown as saved are what a restart would read, whenever the
\* process crashed before and whatever the file then held, unless the last write
\* failed.  The theme is stored with them; that a restart shows it is not claimed.
THEOREM SavedIsStored == ProgramSpec => []CleanIsStored
<1>1. ProgramInv => CleanIsStored
  BY DEF ProgramInv, CleanIsStored, SettingsInv
<1> QED BY <1>1, ProgramInvariance, PTL

\* A tile is pressed only while it has the focus, so that the key that is released
\* finds the tile that it pressed.
THEOREM PressesAreHeld == ProgramSpec => []PressIsHeld
<1>1. ProgramInv => PressIsHeld
  BY DEF ProgramInv, PressIsHeld, TileInv
<1> QED BY <1>1, ProgramInvariance, PTL

\* The status bars say what is so.
THEOREM StatusesAreTrue == ProgramSpec => []StatusIsTrue
<1>1. ProgramInv => StatusIsTrue
  BY DEF ProgramInv, StatusIsTrue, TileInv, PlayInv, TourInv
<1> QED BY <1>1, ProgramInvariance, PTL

\* The keys of the loop go to the modeless dialog exactly while it lives.
THEOREM DialogsAreRouted == ProgramSpec => []DialogIsRouted
<1>1. ProgramInv => DialogIsRouted
  BY DEF ProgramInv, DialogIsRouted, TourInv
<1> QED BY <1>1, ProgramInvariance, PTL

\* In six programs, what looks pointed at is still to be told that the pointer left,
\* or the system refused the request for it (TrackMouseEvent returned FALSE).
THEOREM HoversEnd == ProgramSpec => []HoverEnds
<1>1. ProgramInv => HoverEnds
  BY DEF ProgramInv, HoverEnds, PanelInv, WorkbenchInv, FormInv, TileInv, ResourceInv, TourInv
<1> QED BY <1>1, ProgramInvariance, PTL

\* In seven programs the broker, the window and its controls are in one theme, and
\* the menus that open from a bar in that of the bar: the window of the dark studio
\* until its pill is pressed, and the popups for which there was a brush.
THEOREM ProgramsAgree == ProgramSpec => []ThemesAgree
<1>1. ProgramInv => ThemesAgree
  BY MenuInvImplies DEF ProgramInv, ThemesAgree, SettingsInv, StudioInv, ThemeInv, GalleryInv,
                        PlayInv, ResourceInv, TourInv
<1> QED BY <1>1, ProgramInvariance, PTL

\* No menu is painted with a brush that was deleted, unless none could be made
\* in its place.
THEOREM MenuBrushesLive == ProgramSpec => []BrushesLive
<1>1. ProgramInv => BrushesLive
  BY MenuInvImplies DEF ProgramInv, BrushesLive
<1> QED BY <1>1, ProgramInvariance, PTL

\* The host of a menu finds the caption of what it is asked to draw, and menus
\* keep the order in which they were built.
THEOREM MenuItemsArePainted == ProgramSpec => []ItemsArePainted
<1>1. ProgramInv => ItemsArePainted
  BY MenuInvImplies DEF ProgramInv, ItemsArePainted
<1> QED BY <1>1, ProgramInvariance, PTL

\* In every program, what changes on a surface is repainted by the handler that
\* changes it.
THEOREM WindowsAreRepainted == ProgramSpec => WindowsRepainted
<1>1. ProgramInv /\ [ProgramNext]_<<program, board, brokerVars, win>> => [ProgramRepaints]_win
  BY ProgramStep
<1> QED BY <1>1, ProgramInvariance, PTL DEF ProgramSpec, WindowsRepainted

-----------------------------------------------------------------------------
(* The dark studio's lines of code.  What is proved of CodeTokens for a    *)
(* line (CodeTokensProofs) holds of the line of the program.               *)

CodeInv == program = "code" => win \in Seq(Code!Characters)

\* The editor appends characters, or starts another line.
LEMMA CodeInvariance == ProgramSpec => []CodeInv
<1>1. ProgramInit => CodeInv
  <2>1. <<>> \in Seq(Code!Characters)
    OBVIOUS
  <2> QED BY <2>1 DEF ProgramInit, CodeInv, Code!Init
<1>2. CodeInv /\ [ProgramNext]_<<program, board, brokerVars, win>> => CodeInv'
  <2> SUFFICES ASSUME CodeInv, [ProgramNext]_<<program, board, brokerVars, win>>,
                      program' = "code"
               PROVE  win' \in Seq(Code!Characters)
    BY DEF CodeInv
  <2>1. program = "code"
    BY DEF ProgramNext
  <2>2. win \in Seq(Code!Characters)
    BY <2>1 DEF CodeInv
  <2>3. CASE Code!Next
    <3>1. CASE win' = <<>>
      BY <3>1
    <3>2. CASE \E c \in Code!Characters : win' = Append(win, c)
      BY <2>2, <3>2
    <3> QED BY <2>3, <3>1, <3>2 DEF Code!Next
  <2>4. CASE UNCHANGED win
    BY <2>2, <2>4
  <2> QED BY <2>1, <2>3, <2>4 DEF ProgramNext
<1> QED BY <1>1, <1>2, PTL DEF ProgramSpec

\* Every line of code is read as its characters say, however long it is: the
\* tokens cover it once, strings end where they should, words are whole.
THEOREM LinesAreRead == ProgramSpec => []LineIsRead
<1>1. Reading!LineIsRead <=> Code!LineIsRead
  BY DEF Reading!LineIsRead, Reading!Tokens, Reading!TokenEnd, Reading!StringEnd,
         Reading!FirstFrom, Reading!IsComment, Reading!Escaped, Reading!Quotes,
         Reading!Single, Reading!Double, Reading!Characters,
         Code!LineIsRead, Code!Tokens, Code!TokenEnd, Code!StringEnd,
         Code!FirstFrom, Code!IsComment, Code!Escaped, Code!Quotes,
         Code!Single, Code!Double, Code!Characters
<1>2. win \in Seq(Reading!Characters) => Reading!LineIsRead
  BY Reading!TypedLineIsRead
<1>3. Reading!Characters = Code!Characters
  BY DEF Reading!Characters, Code!Characters, Reading!Quotes, Code!Quotes,
         Reading!Single, Code!Single, Reading!Double, Code!Double
<1>4. CodeInv => LineIsRead
  BY <1>1, <1>2, <1>3 DEF CodeInv, LineIsRead
<1> QED BY <1>4, CodeInvariance, PTL
=============================================================================
