------------------------ MODULE DictationSessionProofs ------------------------
(***************************************************************************)
(* What holds of every dictation session, for any number of refiners, any  *)
(* depth of handlers that call back, and any number of unanswered          *)
(* deliveries: the microphone, the settings, the speech, the refiners, the *)
(* review and the receipt stay the session's own.                          *)
(***************************************************************************)
EXTENDS DictationSession, SequenceTheorems, TLAPS

(* The frames of a stack, wherever they are. *)
FramesOf(stack) == {stack[i] : i \in DOMAIN stack}

(* The frames that are the session's only way on: at most one of them waits. *)
StartFrames == {"started", "showPopup", "captured"}
GoneFrames == {"failStartup", "speechFailed", "beginRefinement", "walk", "startRefiner"}
OnlyOne == StartFrames \cup GoneFrames \cup {"walkOn", "refine", "prepareNext", "deliver"}
Single(stack) ==
    \A i, j \in DOMAIN stack : stack[i] \in OnlyOne /\ stack[j] \in OnlyOne => i = j

(* Frames that run at once, before anything else can. *)
AtOnce == {"speech", "speechFailed", "refiner"}
OnTop(stack) == \A i \in DOMAIN stack : stack[i] \in AtOnce => i = 1

Live == {"Starting", "Listening", "Paused", "Stopping"}
SpeechGone == speech.started => speech.phase = "Idle"

(* What a frame finds that is not overtaken: the state it was pushed in. *)
FrameFits(f) ==
    /\ f \in StartFrames =>
         state = "Starting" /\ ~speech.started /\ speech.phase = "Starting" /\ microphone = "Off"
    /\ f \in GoneFrames => SpeechGone
    /\ f = "failStartup" => state = "Starting"
    /\ f = "speechFailed" => state \in Live
    /\ f = "startFollowUp" => state = "Reviewing" /\ followingUp
    /\ f \in {"resumed", "startMicrophone"} => state = "Listening"
    /\ f = "proceed" => state \in {"Paused", "Stopping"} /\ microphone = "Off"
    /\ f = "beginRefinement" => state = "Stopping" /\ microphone = "Off"
    /\ f \in {"walk", "startRefiner"} =>
         /\ state \in {"Stopping", "Refining"} /\ microphone = "Off"
         /\ followingUp => edits
    /\ f \in {"walkOn", "refine", "prepareNext", "refiner"} => state = "Refining"
    /\ f \in {"startRefiner", "walkOn", "refine", "prepareNext"} => refiners > 0
    /\ f = "refiner" => job = "refining"
    /\ f = "replace" => state = "Reviewing"
    /\ f = "deliver" => state = "Delivering" /\ ~awaited /\ ~completing

FramesFit == \A f \in FramesOf(calls) : FrameFits(f)

(* The callbacks that are awaited. *)
PendingFits ==
    /\ "popup" \in pending \/ "target" \in pending =>
         /\ state = "Starting" /\ ~speech.started /\ speech.phase = "Starting"
         /\ microphone = "Off" /\ FramesOf(calls) \cap OnlyOne = {}
    /\ ~({"popup", "target"} \subseteq pending)
    /\ "check" \in pending => state = "Reviewing"

(* What microphoneChanged() and listeningChanged() last told is so. *)
Told == (held <=> Holds(microphone, state)) /\ (listening <=> state \in {"Listening", "Paused"})

MicrophoneFits ==
    /\ (microphone = "Off") <=> (audio = "off")
    /\ state \notin {"Starting", "Listening", "Stopping"} => microphone = "Off"
    /\ state = "Starting" /\ microphone # "Off" => speech.started
    /\ "announced" \in FramesOf(calls) \/ Told

SpeechFits ==
    /\ speech.started /\ speech.phase # "Idle" => speech.phase = state
    /\ ~speech.started => speech.phase \in {"Idle", "Starting"}
    /\ speech.stopped /\ speech.phase # "Idle" => speech.phase = "Stopping" /\ microphone = "Off"
    /\ state \in Live /\ speech.phase # state => FramesOf(calls) \cap GoneFrames # {}

RefinementFits ==
    /\ job # "none" => state = "Refining" /\ FramesOf(calls) \cap OnlyOne = {} /\ refiners > 0
    /\ state = "Refining" => refining

ReviewFits ==
    /\ review = "up" => state = "Reviewing"
    /\ state = "Reviewing" => review # "none" /\ (followingUp => "startFollowUp" \in FramesOf(calls))
    /\ followingUp =>
         /\ state \in Active
         /\ state \in {"Listening", "Paused", "Stopping", "Refining"}
              \/ (state = "Starting" /\ speech.started) => selection
         /\ state = "Refining" => edits

DeliveryFits ==
    /\ completing => state = "Delivering" /\ delivered /\ ~awaited /\ unanswered = 0
    /\ awaited => state = "Delivering" /\ delivered
    /\ state # "Delivering" \/ "deliver" \in FramesOf(calls) => unanswered < MaxUnanswered

Inv ==
    /\ TypeOK
    /\ Single(calls) /\ OnTop(calls) /\ FramesFit /\ PendingFits
    /\ MicrophoneFits /\ SpeechFits /\ RefinementFits /\ ReviewFits /\ DeliveryFits
    /\ state \in Active => settings

-----------------------------------------------------------------------------
(* The stack: its frames, and what pushing, returning and overtaking leave.  *)

(* Frames that a session's moving on leaves as they are, and that fit        *)
(* wherever it has moved to.                                                 *)
Anywhere == {"handlers", "announced", "overtaken", "stopMicrophone", "resumePausedMedia"}

(* The frames of an empty stack and of the short ones the code pushes. *)
LEMMA NoFrames == <<>> \in Seq(Frames) /\ FramesOf(<<>>) = {} /\ Single(<<>>)
BY DEF FramesOf, Single

LEMMA OneFrame ==
    ASSUME NEW f
    PROVE  FramesOf(<<f>>) = {f} /\ Single(<<f>>)
<1>1. DOMAIN <<f>> = {1} /\ <<f>>[1] = f
  OBVIOUS
<1> QED BY <1>1 DEF FramesOf, Single

LEMMA TwoFrames ==
    ASSUME NEW f, NEW g
    PROVE  /\ FramesOf(<<f, g>>) = {f, g}
           /\ f \notin OnlyOne \/ g \notin OnlyOne => Single(<<f, g>>)
<1>1. DOMAIN <<f, g>> = {1, 2} /\ <<f, g>>[1] = f /\ <<f, g>>[2] = g
  OBVIOUS
<1>2. FramesOf(<<f, g>>) = {f, g}
  BY <1>1 DEF FramesOf
<1>3. f \notin OnlyOne \/ g \notin OnlyOne => Single(<<f, g>>)
  BY <1>1 DEF Single
<1> QED BY <1>2, <1>3

(* A stack pushed on another. *)
LEMMA PushedFrames ==
    ASSUME NEW top \in Seq(Frames), NEW stack \in Seq(Frames)
    PROVE  /\ top \o stack \in Seq(Frames)
           /\ FramesOf(top \o stack) = FramesOf(top) \cup FramesOf(stack)
           /\ Single(top) /\ Single(stack)
                /\ (FramesOf(top) \cap OnlyOne = {} \/ FramesOf(stack) \cap OnlyOne = {})
              => Single(top \o stack)
           /\ OnTop(top) /\ FramesOf(stack) \cap AtOnce = {} => OnTop(top \o stack)
<1> DEFINE whole == top \o stack
<1>1. whole \in Seq(Frames) /\ Len(whole) = Len(top) + Len(stack)
  OBVIOUS
<1>2. \A i \in 1..Len(top) : whole[i] = top[i]
  OBVIOUS
<1>3. \A i \in 1..Len(whole) : i > Len(top) => i - Len(top) \in 1..Len(stack) /\ whole[i] = stack[i - Len(top)]
  OBVIOUS
<1>4. \A i \in 1..Len(stack) : Len(top) + i \in 1..Len(whole) /\ whole[Len(top) + i] = stack[i]
  OBVIOUS
<1>5. DOMAIN whole = 1..Len(whole) /\ DOMAIN top = 1..Len(top) /\ DOMAIN stack = 1..Len(stack)
  BY <1>1
<1>6. Len(top) \in Nat /\ Len(stack) \in Nat
  OBVIOUS
<1> HIDE DEF whole
<1>7. FramesOf(whole) = FramesOf(top) \cup FramesOf(stack)
  <2>1. ASSUME NEW i \in DOMAIN whole PROVE whole[i] \in FramesOf(top) \cup FramesOf(stack)
    <3>1. CASE i <= Len(top)
      BY <3>1, <1>1, <1>2, <1>5, <1>6 DEF FramesOf
    <3>2. CASE i > Len(top)
      BY <3>2, <1>3, <1>5, <1>6 DEF FramesOf
    <3> QED BY <3>1, <3>2, <1>1, <1>5, <1>6
  <2>2. ASSUME NEW i \in DOMAIN top PROVE top[i] \in FramesOf(whole)
    <3>1. i \in DOMAIN whole
      BY <1>1, <1>5, <1>6
    <3> QED BY <3>1, <1>2, <1>5 DEF FramesOf
  <2>3. ASSUME NEW i \in DOMAIN stack PROVE stack[i] \in FramesOf(whole)
    BY <1>4, <1>5 DEF FramesOf
  <2> QED BY <2>1, <2>2, <2>3 DEF FramesOf
<1>8. ASSUME Single(top), Single(stack), FramesOf(top) \cap OnlyOne = {} \/ FramesOf(stack) \cap OnlyOne = {}
      PROVE  Single(whole)
  <2> SUFFICES ASSUME NEW i \in DOMAIN whole, NEW j \in DOMAIN whole,
                      whole[i] \in OnlyOne, whole[j] \in OnlyOne
               PROVE  i = j
    BY DEF Single
  <2>1. CASE i <= Len(top) /\ j <= Len(top)
    <3>1. i \in DOMAIN top /\ j \in DOMAIN top /\ whole[i] = top[i] /\ whole[j] = top[j]
      BY <2>1, <1>1, <1>2, <1>5, <1>6
    <3> QED BY <3>1, <1>8 DEF Single
  <2>2. CASE i > Len(top) /\ j > Len(top)
    <3>1. /\ i - Len(top) \in DOMAIN stack /\ whole[i] = stack[i - Len(top)]
          /\ j - Len(top) \in DOMAIN stack /\ whole[j] = stack[j - Len(top)]
      BY <2>2, <1>1, <1>3, <1>5
    <3>2. i - Len(top) = j - Len(top)
      BY <3>1, <1>8 DEF Single
    <3> QED BY <3>2, <1>1, <1>5, <1>6
  <2>3. ASSUME NEW k \in DOMAIN whole, NEW l \in DOMAIN whole, k <= Len(top), l > Len(top),
               whole[k] \in OnlyOne, whole[l] \in OnlyOne
        PROVE  FALSE
    <3>1. k \in DOMAIN top /\ whole[k] = top[k]
      BY <2>3, <1>1, <1>2, <1>5, <1>6
    <3>2. l - Len(top) \in DOMAIN stack /\ whole[l] = stack[l - Len(top)]
      BY <2>3, <1>1, <1>3, <1>5
    <3>3. whole[k] \in FramesOf(top) /\ whole[l] \in FramesOf(stack)
      BY <3>1, <3>2 DEF FramesOf
    <3> QED BY <3>3, <2>3, <1>8
  <2> QED BY <2>1, <2>2, <2>3, <1>1, <1>5, <1>6
<1>9. ASSUME OnTop(top), FramesOf(stack) \cap AtOnce = {} PROVE OnTop(whole)
  <2> SUFFICES ASSUME NEW i \in DOMAIN whole, whole[i] \in AtOnce PROVE i = 1
    BY DEF OnTop
  <2>1. CASE i <= Len(top)
    <3>1. i \in DOMAIN top /\ whole[i] = top[i]
      BY <2>1, <1>1, <1>2, <1>5, <1>6
    <3> QED BY <3>1, <1>9 DEF OnTop
  <2>2. CASE i > Len(top)
    <3>1. i - Len(top) \in DOMAIN stack /\ whole[i] = stack[i - Len(top)]
      BY <2>2, <1>1, <1>3, <1>5
    <3> QED BY <3>1, <1>9 DEF FramesOf
  <2> QED BY <2>1, <2>2, <1>1, <1>5, <1>6
<1> QED BY <1>1, <1>7, <1>8, <1>9 DEF whole

(* What runs, and what waits below it. *)
LEMMA RunningFrame ==
    ASSUME calls \in Seq(Frames), Single(calls), OnTop(calls), NEW f, Running(f)
    PROVE  /\ f \in FramesOf(calls)
           /\ Tail(calls) \in Seq(Frames)
           /\ FramesOf(calls) = {f} \cup FramesOf(Tail(calls))
           /\ Single(Tail(calls)) /\ OnTop(Tail(calls))
           /\ FramesOf(Tail(calls)) \cap AtOnce = {}
           /\ f \in OnlyOne => FramesOf(Tail(calls)) \cap OnlyOne = {}
<1>1. calls # <<>> /\ calls[1] = f
  BY DEF Running
<1>2. /\ Tail(calls) \in Seq(Frames) /\ DOMAIN Tail(calls) = 1..(Len(calls) - 1)
      /\ DOMAIN calls = 1..Len(calls) /\ Len(calls) \in Nat \ {0}
      /\ \A i \in DOMAIN Tail(calls) : i \in Nat \ {0} /\ i + 1 \in DOMAIN calls /\ Tail(calls)[i] = calls[i + 1]
  BY <1>1
<1>3. FramesOf(calls) = {f} \cup FramesOf(Tail(calls))
  <2>1. ASSUME NEW i \in DOMAIN calls PROVE calls[i] \in {f} \cup FramesOf(Tail(calls))
    <3>1. CASE i = 1
      BY <3>1, <1>1
    <3>2. CASE i # 1
      <4>1. i - 1 \in DOMAIN Tail(calls) /\ (i - 1) + 1 = i
        BY <3>2, <1>2
      <4> QED BY <4>1, <1>2 DEF FramesOf
    <3> QED BY <3>1, <3>2
  <2>2. ASSUME NEW i \in DOMAIN Tail(calls) PROVE Tail(calls)[i] \in FramesOf(calls)
    BY <1>2 DEF FramesOf
  <2>3. f \in FramesOf(calls)
    BY <1>1, <1>2 DEF FramesOf
  <2> QED BY <2>1, <2>2, <2>3 DEF FramesOf
<1>4. Single(Tail(calls))
  <2> SUFFICES ASSUME NEW i \in DOMAIN Tail(calls), NEW j \in DOMAIN Tail(calls),
                      Tail(calls)[i] \in OnlyOne, Tail(calls)[j] \in OnlyOne
               PROVE  i = j
    BY DEF Single
  <2>1. i + 1 = j + 1
    BY <1>2 DEF Single
  <2> QED BY <2>1, <1>2
<1>5. \A i \in DOMAIN Tail(calls) : Tail(calls)[i] \notin AtOnce
  <2> SUFFICES ASSUME NEW i \in DOMAIN Tail(calls), Tail(calls)[i] \in AtOnce PROVE FALSE
    OBVIOUS
  <2>1. i + 1 = 1
    BY <1>2 DEF OnTop
  <2> QED BY <2>1, <1>2
<1>6. ASSUME f \in OnlyOne, NEW i \in DOMAIN Tail(calls), Tail(calls)[i] \in OnlyOne PROVE FALSE
  <2>1. i + 1 = 1
    BY <1>1, <1>2, <1>6 DEF Single
  <2> QED BY <2>1, <1>2
<1>7. OnTop(Tail(calls)) /\ FramesOf(Tail(calls)) \cap AtOnce = {}
  BY <1>5 DEF FramesOf, OnTop
<1>8. f \in OnlyOne => FramesOf(Tail(calls)) \cap OnlyOne = {}
  BY <1>6 DEF FramesOf
<1> QED BY <1>2, <1>3, <1>4, <1>7, <1>8

(* The calls that are past are marked where they wait. *)
LEMMA OvertakenFrames ==
    ASSUME NEW stack \in Seq(Frames), NEW guarded
    PROVE  /\ Overtake(stack, guarded) \in Seq(Frames)
           /\ FramesOf(Overtake(stack, guarded)) \subseteq (FramesOf(stack) \ guarded) \cup {"overtaken"}
           /\ FramesOf(stack) \ guarded \subseteq FramesOf(Overtake(stack, guarded))
           /\ Single(stack) => Single(Overtake(stack, guarded))
<1> DEFINE past == Overtake(stack, guarded)
<1>1. /\ DOMAIN past = DOMAIN stack /\ DOMAIN stack = 1..Len(stack) /\ Len(stack) \in Nat
      /\ \A i \in DOMAIN stack : past[i] = IF stack[i] \in guarded THEN "overtaken" ELSE stack[i]
  BY DEF Overtake
<1>2. \A i \in 1..Len(stack) : past[i] \in Frames
  BY <1>1 DEF Frames
<1>3. past \in Seq(Frames)
  <2>1. past = [i \in 1..Len(stack) |-> past[i]]
    BY <1>1 DEF Overtake
  <2> HIDE DEF past
  <2> QED BY <1>1, <1>2, <2>1, IsASeq
<1> HIDE DEF past
<1>4. Single(stack) => Single(past)
  <2>1. "overtaken" \notin OnlyOne
    BY DEF OnlyOne, StartFrames, GoneFrames
  <2> QED BY <1>1, <2>1 DEF Single
<1>5. FramesOf(past) \subseteq (FramesOf(stack) \ guarded) \cup {"overtaken"}
  BY <1>1 DEF FramesOf
<1>6. FramesOf(stack) \ guarded \subseteq FramesOf(past)
  BY <1>1 DEF FramesOf
<1> QED BY <1>3, <1>4, <1>5, <1>6 DEF past

(* A session that has moved on to next, with the frames fs to go on with. *)
MovedOn(next, fs) ==
    /\ state' = next /\ awaited' = FALSE /\ pending' = {}
    /\ calls' \in Seq(Frames) /\ Single(calls)' /\ OnTop(calls)'
    /\ FramesOf(calls)' \subseteq Anywhere \cup fs
    /\ fs \cup {"announced"} \subseteq FramesOf(calls)'

LEMMA PushedMovesOn ==
    ASSUME NEW frames \in Seq(Frames), NEW past \in Seq(Frames),
           Single(frames), FramesOf(frames) \cap AtOnce = {}, Single(past),
           FramesOf(past) \subseteq Anywhere,
           calls' = <<"handlers", "announced">> \o frames \o past
    PROVE  /\ calls' \in Seq(Frames) /\ Single(calls)' /\ OnTop(calls)'
           /\ FramesOf(calls)' \subseteq Anywhere \cup FramesOf(frames)
           /\ FramesOf(frames) \cup {"announced"} \subseteq FramesOf(calls)'
<1> DEFINE telling == <<"handlers", "announced">>
<1>1. telling \in Seq(Frames)
  BY DEF Frames
<1>2. FramesOf(telling) = {"handlers", "announced"} /\ Single(telling)
  BY TwoFrames DEF OnlyOne, StartFrames, GoneFrames
<1>3. FramesOf(telling) \cap OnlyOne = {} /\ FramesOf(telling) \cap AtOnce = {}
  BY <1>2 DEF OnlyOne, StartFrames, GoneFrames, AtOnce
<1>4. FramesOf(past) \cap OnlyOne = {} /\ FramesOf(past) \cap AtOnce = {}
  BY DEF OnlyOne, StartFrames, GoneFrames, AtOnce, Anywhere
<1> DEFINE top == telling \o frames
<1>5. OnTop(telling)
  BY <1>3 DEF OnTop, FramesOf
<1>6. top \in Seq(Frames) /\ FramesOf(top) = FramesOf(telling) \cup FramesOf(frames) /\ Single(top) /\ OnTop(top)
  BY <1>1, <1>2, <1>3, <1>5, PushedFrames
<1>7. calls' = top \o past
  OBVIOUS
<1> HIDE DEF top, telling
<1>8. /\ calls' \in Seq(Frames) /\ FramesOf(calls') = FramesOf(top) \cup FramesOf(past)
      /\ Single(calls') /\ OnTop(calls')
  BY <1>4, <1>6, <1>7, PushedFrames
<1>9. FramesOf(calls)' = FramesOf(calls') /\ (Single(calls)' <=> Single(calls')) /\ (OnTop(calls)' <=> OnTop(calls'))
  BY DEF FramesOf, Single, OnTop
<1> QED BY <1>2, <1>6, <1>8, <1>9 DEF Anywhere

(* setState(), where no walk waits and no popup is awaited. *)
LEMMA StateMovesOn ==
    ASSUME TypeOK, NEW next, NEW frames \in Seq(Frames), NEW stack \in Seq(Frames),
           Single(frames), FramesOf(frames) \cap AtOnce = {}, Single(stack),
           FramesOf(stack) \cap AtOnce = {}, FramesOf(stack) \cap WalkGuarded = {},
           "popup" \notin pending, setState(next, frames, stack)
    PROVE  MovedOn(next, FramesOf(frames))
<1> DEFINE past == Overtake(stack, StepGuarded)
<1>1. /\ past \in Seq(Frames) /\ Single(past)
      /\ FramesOf(past) \subseteq (FramesOf(stack) \ StepGuarded) \cup {"overtaken"}
  BY OvertakenFrames
<1>2. FramesOf(stack) \subseteq Frames
  BY DEF FramesOf
<1>3. FramesOf(past) \subseteq Anywhere \ {"announced"}
  BY <1>1, <1>2 DEF Frames, StepGuarded, WalkGuarded, AtOnce, Anywhere
<1>4. calls' = <<"handlers", "announced">> \o frames \o past /\ pending' = {}
  BY DEF setState, TypeOK, Callbacks
<1> HIDE DEF past
<1> QED BY <1>1, <1>3, <1>4, PushedMovesOn DEF MovedOn, setState

(* setState() with a new generation. *)
LEMMA StateMovesOnAfresh ==
    ASSUME TypeOK, NEW next, NEW frames \in Seq(Frames), NEW stack \in Seq(Frames),
           Single(frames), FramesOf(frames) \cap AtOnce = {}, Single(stack),
           FramesOf(stack) \cap AtOnce = {}, setStateAfresh(next, frames, stack)
    PROVE  /\ MovedOn(next, FramesOf(frames))
<1> DEFINE guarded == StepGuarded \cup GenerationGuarded \cup WalkGuarded
           past == Overtake(stack, guarded)
<1>1. /\ past \in Seq(Frames) /\ Single(past)
      /\ FramesOf(past) \subseteq (FramesOf(stack) \ guarded) \cup {"overtaken"}
  BY OvertakenFrames
<1>2. FramesOf(stack) \subseteq Frames
  BY DEF FramesOf
<1>3. FramesOf(past) \subseteq Anywhere \ {"announced"}
  BY <1>1, <1>2 DEF Frames, StepGuarded, WalkGuarded, AtOnce, Anywhere
<1>4. calls' = <<"handlers", "announced">> \o frames \o past /\ pending' = {}
  BY DEF setStateAfresh
<1> HIDE DEF past
<1> QED BY <1>1, <1>3, <1>4, PushedMovesOn DEF MovedOn, setStateAfresh

(* The four ways setState() is called. *)
LEMMA MovesOnAlone ==
    ASSUME TypeOK, NEW next, NEW stack \in Seq(Frames), Single(stack),
           FramesOf(stack) \cap AtOnce = {},
           \/ setStateAfresh(next, <<>>, stack)
           \/ FramesOf(stack) \cap WalkGuarded = {} /\ "popup" \notin pending
                /\ setState(next, <<>>, stack)
    PROVE  MovedOn(next, {})
<1>1. MovedOn(next, FramesOf(<<>>))
  <2>1. FramesOf(<<>>) \cap AtOnce = {}
    BY NoFrames
  <2> QED BY <2>1, NoFrames, StateMovesOn, StateMovesOnAfresh
<1> QED BY <1>1, NoFrames DEF MovedOn

LEMMA MovesOnWith ==
    ASSUME TypeOK, NEW next, NEW stack \in Seq(Frames), Single(stack),
           FramesOf(stack) \cap AtOnce = {}, NEW f \in Frames \ AtOnce,
           \/ setStateAfresh(next, <<f>>, stack)
           \/ FramesOf(stack) \cap WalkGuarded = {} /\ "popup" \notin pending
                /\ setState(next, <<f>>, stack)
    PROVE  MovedOn(next, {f})
<1>1. <<f>> \in Seq(Frames) /\ FramesOf(<<f>>) = {f} /\ Single(<<f>>)
  BY OneFrame
<1>2. MovedOn(next, FramesOf(<<f>>))
  <2>1. FramesOf(<<f>>) \cap AtOnce = {}
    BY <1>1
  <2> QED BY <1>1, <2>1, StateMovesOn, StateMovesOnAfresh
<1> QED BY <1>1, <1>2 DEF MovedOn

LEMMA MovesOnWithTwo ==
    ASSUME TypeOK, NEW next, NEW stack \in Seq(Frames), Single(stack),
           FramesOf(stack) \cap AtOnce = {}, NEW f \in Frames \ AtOnce, NEW g \in Frames \ AtOnce,
           f \notin OnlyOne, FramesOf(stack) \cap WalkGuarded = {}, "popup" \notin pending,
           setState(next, <<f, g>>, stack)
    PROVE  MovedOn(next, {f, g})
<1>1. <<f, g>> \in Seq(Frames) /\ FramesOf(<<f, g>>) = {f, g} /\ Single(<<f, g>>)
  BY TwoFrames
<1>2. MovedOn(next, FramesOf(<<f, g>>))
  <2>1. FramesOf(<<f, g>>) \cap AtOnce = {}
    BY <1>1
  <2> QED BY <1>1, <2>1, StateMovesOn
<1> QED BY <1>1, <1>2 DEF MovedOn

(* The same for the calls alone. *)
LEMMA PushedOne ==
    ASSUME NEW f \in Frames, NEW stack \in Seq(Frames), Single(stack),
           FramesOf(stack) \cap AtOnce = {}, f \notin OnlyOne \/ FramesOf(stack) \cap OnlyOne = {}
    PROVE  /\ <<f>> \o stack \in Seq(Frames)
           /\ FramesOf(<<f>> \o stack) = {f} \cup FramesOf(stack)
           /\ Single(<<f>> \o stack) /\ OnTop(<<f>> \o stack)
<1>1. <<f>> \in Seq(Frames) /\ FramesOf(<<f>>) = {f} /\ Single(<<f>>)
  BY OneFrame
<1>3. OnTop(<<f>>)
  BY DEF OnTop
<1>2. FramesOf(<<f>>) \cap OnlyOne = {} \/ FramesOf(stack) \cap OnlyOne = {}
  BY <1>1
<1> QED BY <1>1, <1>2, <1>3, PushedFrames

LEMMA PushedTwo ==
    ASSUME NEW f \in Frames \ OnlyOne, NEW g \in Frames \ AtOnce, NEW stack \in Seq(Frames), Single(stack),
           FramesOf(stack) \cap AtOnce = {}, g \notin OnlyOne \/ FramesOf(stack) \cap OnlyOne = {}
    PROVE  /\ <<f, g>> \o stack \in Seq(Frames)
           /\ FramesOf(<<f, g>> \o stack) = {f, g} \cup FramesOf(stack)
           /\ Single(<<f, g>> \o stack) /\ OnTop(<<f, g>> \o stack)
<1>1. <<f, g>> \in Seq(Frames) /\ FramesOf(<<f, g>>) = {f, g} /\ Single(<<f, g>>)
  BY TwoFrames
<1>2. FramesOf(<<f, g>>) \cap OnlyOne = {} \/ FramesOf(stack) \cap OnlyOne = {}
  BY <1>1
<1>3. OnTop(<<f, g>>)
  BY DEF OnTop
<1> QED BY <1>1, <1>2, <1>3, PushedFrames

-----------------------------------------------------------------------------
(* A session that moves on, and one whose calls only go on.                  *)

(* What the speech is where no session dictates. *)
SpeechRests ==
    /\ SpeechGone
    /\ ~speech.started => speech.phase \in {"Idle", "Starting"}
    /\ speech.stopped => speech.phase = "Idle"

(* After setState() nothing is awaited, and whatever waits on the stack fits *)
(* the new state if what the caller does after does.                         *)
LEMMA MovedOnFits ==
    ASSUME NEW next, NEW fs, MovedOn(next, fs), TypeOK', \A f \in fs : FrameFits(f)',
           MicrophoneFits', SpeechFits', RefinementFits', ReviewFits', DeliveryFits',
           next \in Active => settings'
    PROVE  Inv'
<1>1. FramesFit'
  <2> SUFFICES ASSUME NEW f \in FramesOf(calls)' PROVE FrameFits(f)'
    BY DEF FramesFit
  <2>1. CASE f \in fs
    BY <2>1
  <2>2. CASE f \notin fs
    <3>1. f \in Anywhere
      BY <2>2 DEF MovedOn
    <3> QED BY <3>1 DEF Anywhere, FrameFits, StartFrames, GoneFrames
  <2> QED BY <2>1, <2>2
<1>2. PendingFits' /\ (state \in Active => settings)'
  BY DEF PendingFits, MovedOn
<1>3. Single(calls)' /\ OnTop(calls)'
  BY DEF MovedOn
<1> QED BY <1>1, <1>2, <1>3 DEF Inv

(* failSession() and failSelectionEdit(), from a stack no walk waits on. *)
LEMMA FailedFits ==
    ASSUME Inv, state \in Live \cup {"Refining"}, "popup" \notin pending,
           NEW stack \in Seq(Frames), Single(stack), FramesOf(stack) \cap AtOnce = {},
           FramesOf(stack) \cap WalkGuarded = {},
           NEW target \in BOOLEAN, NEW pipeline \in BOOLEAN, NEW refines \in BOOLEAN,
           FailSessionWith(target, pipeline, refines, stack),
           speech' \in Speeches, SpeechRests', job' = "none",
           UNCHANGED <<text, listening, refiners, deliveryVars>>
    PROVE  Inv'
<1> DEFINE next == IF followingUp THEN "Reviewing" ELSE "Error"
<1> USE DEF Live
<1>1. setState(next, <<>>, stack)
  BY DEF FailSessionWith
<1>2. MovedOn(next, {})
  BY <1>1, MovesOnAlone DEF Inv
<1>3. /\ microphone' = "Off" /\ audio' = "off" /\ held' \in BOOLEAN /\ media' = FALSE
  BY DEF Inv, MicrophoneFits, TypeOK, FailSessionWith, abortMicrophone, Holds
<1>4. ~completing /\ unanswered < MaxUnanswered /\ review # "up"
  BY DEF Inv, DeliveryFits, ReviewFits
<1>5. state' = next /\ awaited' = FALSE /\ pending' = {} /\ calls' \in Seq(Frames)
  BY <1>2 DEF MovedOn
<1>6. /\ refiners' = refiners /\ text' = text /\ listening' = listening
      /\ completing' = completing /\ unanswered' = unanswered /\ delivered' = delivered
  BY DEF deliveryVars
<1>7. IF followingUp
      THEN review' = "up" /\ settings' = TRUE /\ selection' = TRUE /\ edits' = TRUE /\ refining' = FALSE
      ELSE review' = "none" /\ settings' = FALSE /\ selection' = target /\ edits' = pipeline
           /\ refining' = refines
  BY <1>4 DEF FailSessionWith, followingUp, Inv, TypeOK
<1>8. next \in States
  BY DEF States
<1> HIDE DEF next
<1>9. TypeOK'
  BY <1>3, <1>4, <1>5, <1>6, <1>7, <1>8 DEF Inv, TypeOK
<1>10. next # "Reviewing" => ~followingUp
  BY DEF next
<1>11. next \in {"Reviewing", "Error"} /\ (next = "Reviewing" <=> followingUp)
  BY DEF next
<1>12. MicrophoneFits'
  BY <1>2, <1>3, <1>5, <1>11 DEF MicrophoneFits, MovedOn
<1>13. SpeechFits'
  BY <1>5, <1>11 DEF SpeechFits, SpeechRests, SpeechGone
<1>14. RefinementFits' /\ DeliveryFits'
  BY <1>4, <1>5, <1>6, <1>11 DEF RefinementFits, DeliveryFits
<1>15. ReviewFits' /\ (next \in Active => settings')
  BY <1>5, <1>7, <1>11 DEF ReviewFits, followingUp, Active
<1> QED BY <1>2, <1>9, <1>12, <1>13, <1>14, <1>15, MovedOnFits

(* deliverFinal(). *)
LEMMA DeliverFinalFits ==
    ASSUME Inv, state \in {"Stopping", "Refining", "Reviewing"}, microphone = "Off",
           NEW stack \in Seq(Frames), Single(stack), FramesOf(stack) \cap AtOnce = {},
           FramesOf(stack) \cap WalkGuarded = {},
           deliverFinal(stack), SpeechRests, review' = "none", job' = "none",
           settings' \in BOOLEAN, selection' \in BOOLEAN, edits' \in BOOLEAN,
           UNCHANGED <<text, microphoneVars, listening, media, speech, refiners, deliveryVars>>
    PROVE  Inv'
<1>1. "popup" \notin pending
  BY DEF Inv, PendingFits
<1>2. "deliver" \in Frames \ AtOnce
  BY DEF Frames, AtOnce
<1>5. setState("Delivering", <<"deliver">>, stack)
  BY DEF deliverFinal
<1>6. MovedOn("Delivering", {"deliver"})
  BY <1>1, <1>2, <1>5, MovesOnWith DEF Inv
<1>7. ~completing /\ unanswered < MaxUnanswered
  BY DEF Inv, DeliveryFits
<1>8. state' = "Delivering" /\ awaited' = FALSE /\ pending' = {} /\ calls' \in Seq(Frames)
  BY <1>6 DEF MovedOn
<1>9. /\ refiners' = refiners /\ text' = text /\ listening' = listening /\ media' = media
      /\ speech' = speech /\ microphone' = microphone /\ audio' = audio /\ held' = held
      /\ completing' = completing /\ unanswered' = unanswered /\ delivered' = delivered
      /\ refining' = FALSE
  BY DEF deliveryVars, microphoneVars, deliverFinal
<1>10. TypeOK'
  BY <1>8, <1>9 DEF Inv, TypeOK, States
<1>11. MicrophoneFits'
  BY <1>6, <1>8, <1>9 DEF MicrophoneFits, MovedOn, Inv
<1>12. SpeechFits'
  BY <1>8, <1>9 DEF SpeechFits, SpeechRests, SpeechGone, Live
<1>13. RefinementFits' /\ DeliveryFits' /\ ReviewFits'
  BY <1>7, <1>8, <1>9 DEF RefinementFits, DeliveryFits, ReviewFits, followingUp
<1>14. FrameFits("deliver")'
  BY <1>7, <1>8, <1>9 DEF FrameFits, StartFrames, GoneFrames
<1> QED BY <1>6, <1>10, <1>11, <1>12, <1>13, <1>14, MovedOnFits DEF Active

(* A step of the calls alone: the session stays where it is, frames return,  *)
(* and those pushed, fs, fit.                                                *)
WentOn(fs) ==
    /\ calls' \in Seq(Frames) /\ Single(calls)' /\ OnTop(calls)'
    /\ FramesOf(calls)' \subseteq FramesOf(calls) \cup fs
    /\ fs \cap OnlyOne = {} \/ FramesOf(calls) \cap OnlyOne # {}
    /\ "deliver" \notin fs
    /\ "startFollowUp" \in FramesOf(calls) => "startFollowUp" \in FramesOf(calls)'
    /\ state \in Live /\ speech.phase # state => FramesOf(calls)' \cap GoneFrames # {}

LEMMA GoingOnFits ==
    ASSUME Inv, TypeOK', NEW fs, WentOn(fs), \A f \in fs : FrameFits(f)',
           "announced" \in FramesOf(calls)' \/ Told' \/ ((Told => Told') /\ "announced" \notin FramesOf(calls)),
           edits' = edits \/ state = "Starting",
           UNCHANGED <<state, settings, selection, review, microphone, audio, speech, refinementVars,
                       deliveryVars, awaited, pending>>
    PROVE  Inv'
<1>1. /\ state' = state /\ settings' = settings /\ selection' = selection
      /\ review' = review /\ microphone' = microphone /\ audio' = audio /\ speech' = speech
      /\ refining' = refining /\ refiners' = refiners /\ job' = job /\ completing' = completing
      /\ unanswered' = unanswered /\ delivered' = delivered /\ awaited' = awaited /\ pending' = pending
  BY DEF refinementVars, deliveryVars
<1>2. FramesFit'
  <2> SUFFICES ASSUME NEW f \in FramesOf(calls)' PROVE FrameFits(f)'
    BY DEF FramesFit
  <2>1. CASE f \in fs
    BY <2>1
  <2>2. CASE f \notin fs
    <3>1. FrameFits(f)
      BY <2>2 DEF Inv, FramesFit, WentOn
    <3> QED BY <3>1, <1>1 DEF FrameFits, SpeechGone, followingUp
  <2> QED BY <2>1, <2>2
<1>3. job # "none" => FramesOf(calls)' \cap OnlyOne = {}
  BY DEF Inv, RefinementFits, WentOn
<1>4. "popup" \in pending \/ "target" \in pending => FramesOf(calls)' \cap OnlyOne = {}
  BY DEF Inv, PendingFits, WentOn
<1>5. PendingFits' /\ RefinementFits'
  BY <1>1, <1>3, <1>4 DEF Inv, PendingFits, RefinementFits
<1>6. MicrophoneFits'
  BY <1>1 DEF Inv, MicrophoneFits, Told, WentOn
<1>7. SpeechFits'
  BY <1>1 DEF Inv, SpeechFits, Live, WentOn
<1>8. ReviewFits'
  BY <1>1 DEF Inv, ReviewFits, followingUp, Active, WentOn
<1>9. DeliveryFits'
  BY <1>1 DEF Inv, DeliveryFits, WentOn
<1> QED BY <1>1, <1>2, <1>5, <1>6, <1>7, <1>8, <1>9 DEF Inv, Active, WentOn

-----------------------------------------------------------------------------
(* The code that only goes on.                                               *)

(* A frame that has nothing more to do. *)
LEMMA ReturnFits ==
    ASSUME Inv, Return,
           \/ Announced \/ OvertakenReturns \/ HandlersReturn \/ SpeechReturns \/ RefinerReturns
           \/ ResumePausedMedia
    PROVE  Inv'
<1>1. PICK f \in {"announced", "overtaken", "handlers", "speech", "refiner", "resumePausedMedia"} : Running(f)
  BY DEF Announced, OvertakenReturns, HandlersReturn, SpeechReturns, RefinerReturns, ResumePausedMedia
<1>2. /\ FramesOf(calls) = {f} \cup FramesOf(Tail(calls)) /\ Tail(calls) \in Seq(Frames)
      /\ Single(Tail(calls)) /\ OnTop(Tail(calls))
  BY <1>1, RunningFrame DEF Inv, TypeOK
<1>3. calls' = Tail(calls)
  BY DEF Return
<1>4. /\ calls' \in Seq(Frames) /\ Single(calls)' /\ OnTop(calls)'
      /\ FramesOf(calls) = {f} \cup FramesOf(calls)'
  BY <1>2, <1>3
<1>5. /\ UNCHANGED <<state, settings, selection, edits, review, microphone, audio, speech,
                     refinementVars, deliveryVars, awaited, pending, text>>
      /\ held' \in BOOLEAN /\ listening' \in BOOLEAN /\ media' \in BOOLEAN
      /\ Told' \/ (f # "announced" /\ (Told => Told'))
  <2>1. CASE Announced
    <3>1. Holds(microphone, state) \in BOOLEAN
      BY DEF Holds
    <3>2. /\ held' = Holds(microphone, state) /\ listening' = (state \in {"Listening", "Paused"})
          /\ microphone' = microphone /\ state' = state
      BY <2>1 DEF Announced
    <3>3. held' \in BOOLEAN /\ (held' <=> Holds(microphone, state))
      BY <3>1, <3>2, Zenon
    <3>4. listening' \in BOOLEAN /\ (listening' <=> state \in {"Listening", "Paused"})
      <4> DEFINE hears == state \in {"Listening", "Paused"}
      <4>1. hears \in BOOLEAN /\ listening' = hears
        BY <3>2
      <4> HIDE DEF hears
      <4>2. listening' \in BOOLEAN /\ (listening' <=> hears)
        BY <4>1, Zenon
      <4> QED BY <4>2 DEF hears
    <3>5. Told'
      BY <3>2, <3>3, <3>4 DEF Told
    <3> QED BY <2>1, <3>3, <3>4, <3>5 DEF Announced, runVars, Inv, TypeOK
  <2>2. CASE OvertakenReturns \/ HandlersReturn \/ SpeechReturns \/ RefinerReturns \/ ResumePausedMedia
    <3>1. f # "announced"
      BY <1>1, <2>2 DEF Running, OvertakenReturns, HandlersReturn, SpeechReturns, RefinerReturns,
         ResumePausedMedia
    <3>2. UNCHANGED <<state, settings, selection, edits, review, microphone, audio, held, listening,
                      speech, refinementVars, deliveryVars, awaited, pending, text>>
      BY <2>2 DEF runVars, microphoneVars, OvertakenReturns, HandlersReturn, SpeechReturns,
         RefinerReturns, ResumePausedMedia
    <3>3. Told => Told'
      BY <3>2 DEF Told
    <3>4. media' \in {media, FALSE}
      BY <2>2 DEF OvertakenReturns, HandlersReturn, SpeechReturns, RefinerReturns, ResumePausedMedia
    <3> QED BY <3>1, <3>2, <3>3, <3>4 DEF Inv, TypeOK
  <2> QED BY <2>1, <2>2
<1>6. TypeOK'
  BY <1>4, <1>5 DEF Inv, TypeOK, refinementVars, deliveryVars
<1>7. f \notin GoneFrames /\ f # "startFollowUp"
  BY <1>1 DEF GoneFrames
<1>8. state \in Live /\ speech.phase # state => FramesOf(calls)' \cap GoneFrames # {}
  BY <1>4, <1>7 DEF Inv, SpeechFits
<1>9. "announced" \in FramesOf(calls)' \/ Told' \/ ((Told => Told') /\ "announced" \notin FramesOf(calls))
  BY <1>4, <1>5
<1>10. WentOn({})
  BY <1>4, <1>7, <1>8 DEF WentOn
<1> QED BY <1>5, <1>6, <1>9, <1>10, GoingOnFits

(* Words that arrive. *)
LEMMA TextArrivesFits ==
    ASSUME Inv, TextArrives
    PROVE  Inv'
<1>1. /\ UNCHANGED <<state, settings, selection, review, microphone, audio, speech, refinementVars,
                     deliveryVars, awaited, pending>>
      /\ edits' = edits /\ held' = held /\ listening' = listening /\ calls' = calls
      /\ text' \in BOOLEAN /\ media' = media
  BY DEF TextArrives, runVars, microphoneVars
<1>2. TypeOK'
  BY <1>1 DEF Inv, TypeOK, refinementVars, deliveryVars
<1>3. FramesOf(calls)' = FramesOf(calls)
  BY <1>1
<1>4. WentOn({})
  BY <1>1, <1>3 DEF WentOn, Inv, TypeOK, SpeechFits
<1>5. Told => Told'
  BY <1>1 DEF Told
<1> QED BY <1>1, <1>2, <1>3, <1>4, <1>5, GoingOnFits

(* Two frames take the place of the one that ran: the same way on, if it was *)
(* the session's only one.                                                   *)
LEMMA GoesOnFits ==
    ASSUME Inv, TypeOK', NEW f, Running(f), NEW g \in Frames \ OnlyOne, NEW h \in Frames \ AtOnce,
           GoOn(<<g, h>>), FrameFits(g)', FrameFits(h)', h \in OnlyOne => f \in OnlyOne,
           f \in GoneFrames => h \in GoneFrames \/ ~(state \in Live /\ speech.phase # state),
           f \notin {"startFollowUp", "announced"}, h # "deliver", g # "deliver",
           edits' = edits \/ state = "Starting",
           UNCHANGED <<state, settings, selection, review, microphoneVars, listening, speech,
                       refinementVars, deliveryVars, awaited, pending>>
    PROVE  Inv'
<1>1. /\ FramesOf(calls) = {f} \cup FramesOf(Tail(calls)) /\ Tail(calls) \in Seq(Frames)
      /\ Single(Tail(calls)) /\ FramesOf(Tail(calls)) \cap AtOnce = {}
      /\ f \in OnlyOne => FramesOf(Tail(calls)) \cap OnlyOne = {}
  BY RunningFrame DEF Inv, TypeOK
<1>2. calls' = <<g, h>> \o Tail(calls)
  BY DEF GoOn
<1>3. /\ calls' \in Seq(Frames) /\ Single(calls)' /\ OnTop(calls)'
      /\ FramesOf(calls)' = {g, h} \cup FramesOf(Tail(calls))
  <2>1. h \notin OnlyOne \/ FramesOf(Tail(calls)) \cap OnlyOne = {}
    BY <1>1
  <2> DEFINE stack == Tail(calls)
  <2>2. /\ stack \in Seq(Frames) /\ Single(stack) /\ FramesOf(stack) \cap AtOnce = {}
        /\ h \notin OnlyOne \/ FramesOf(stack) \cap OnlyOne = {}
    BY <1>1, <2>1
  <2> HIDE DEF stack
  <2>3. /\ <<g, h>> \o stack \in Seq(Frames)
        /\ FramesOf(<<g, h>> \o stack) = {g, h} \cup FramesOf(stack)
        /\ Single(<<g, h>> \o stack) /\ OnTop(<<g, h>> \o stack)
    BY <2>2, PushedTwo, Zenon
  <2>4. calls' = <<g, h>> \o stack
    BY <1>2 DEF stack
  <2>5. /\ calls' \in Seq(Frames) /\ Single(calls)' /\ OnTop(calls)'
        /\ FramesOf(calls)' = {g, h} \cup FramesOf(stack)
    BY <2>3, <2>4
  <2> QED BY <2>5 DEF stack
<1>4. \A k \in {g, h} : FrameFits(k)'
  OBVIOUS
<1>5. state \in Live /\ speech.phase # state => FramesOf(calls)' \cap GoneFrames # {}
  BY <1>1, <1>3 DEF Inv, SpeechFits
<1>6. {g, h} \cap OnlyOne = {} \/ FramesOf(calls) \cap OnlyOne # {}
  BY <1>1
<1>7. WentOn({g, h})
  BY <1>1, <1>3, <1>5, <1>6 DEF WentOn
<1>8. /\ UNCHANGED <<state, settings, selection, review, microphone, audio, speech, refinementVars,
                     deliveryVars, awaited, pending>>
      /\ Told => Told'
  BY DEF microphoneVars, Told
<1>9. "announced" \in FramesOf(calls)' \/ Told' \/ ((Told => Told') /\ "announced" \notin FramesOf(calls))
  BY <1>1, <1>3, <1>8
<1> QED BY <1>4, <1>7, <1>8, <1>9, GoingOnFits

LEMMA ResumedFits ==
    ASSUME Inv, Resumed
    PROVE  Inv'
<1>1. Running("resumed") /\ GoOn(<<"speech", "startMicrophone">>)
  BY DEF Resumed
<1>2. FrameFits("resumed") /\ calls \in Seq(Frames)
  BY <1>1, RunningFrame DEF Inv, TypeOK, FramesFit
<1>3. /\ UNCHANGED <<state, settings, selection, review, microphoneVars, listening, speech,
                     refinementVars, deliveryVars, awaited, pending>>
      /\ edits' = edits /\ text' = text /\ media' = media
  BY DEF Resumed, runVars
<1>4. FrameFits("speech")' /\ FrameFits("startMicrophone")'
  BY <1>2, <1>3 DEF FrameFits, StartFrames, GoneFrames
<1>5. "speech" \in Frames \ OnlyOne /\ "startMicrophone" \in Frames \ AtOnce
      /\ "startMicrophone" \notin OnlyOne /\ "resumed" \notin GoneFrames
  BY DEF Frames, OnlyOne, StartFrames, GoneFrames, AtOnce
<1>6. calls' \in Seq(Frames)
  BY <1>1, <1>5, RunningFrame, PushedTwo DEF GoOn, Inv, TypeOK
<1>7. TypeOK'
  BY <1>3, <1>6 DEF Inv, TypeOK, microphoneVars, refinementVars, deliveryVars
<1> QED BY <1>1, <1>3, <1>4, <1>5, <1>7, GoesOnFits

LEMMA ReadyFits ==
    ASSUME Inv, Ready
    PROVE  Inv'
<1>1. PICK f \in {"walk", "walkOn"} : Running(f)
  BY DEF Ready, Walking
<1>2. FrameFits(f) /\ calls \in Seq(Frames) /\ refiners > 0
  BY <1>1, RunningFrame DEF Inv, TypeOK, FramesFit, Ready, Walking
<1>3. /\ UNCHANGED <<state, settings, selection, review, microphoneVars, listening, speech,
                     refinementVars, deliveryVars, awaited, pending>>
      /\ edits' = edits /\ text' = text /\ media' = media
  BY DEF Ready, runVars
<1>4. state = "Refining" => SpeechGone /\ microphone = "Off" /\ (followingUp => edits)
  BY DEF Inv, TypeOK, Speeches, SpeechFits, SpeechGone, MicrophoneFits, ReviewFits
<1>5. SpeechGone /\ microphone = "Off" /\ (followingUp => edits) /\ state \in {"Stopping", "Refining"}
  BY <1>1, <1>2, <1>4 DEF FrameFits, GoneFrames
<1>6. FrameFits("handlers")' /\ FrameFits("startRefiner")'
  BY <1>2, <1>3, <1>5 DEF FrameFits, StartFrames, GoneFrames, SpeechGone, followingUp, refinementVars,
     microphoneVars
<1>7. "handlers" \in Frames \ OnlyOne /\ "startRefiner" \in Frames \ AtOnce
      /\ f \in OnlyOne /\ "startRefiner" \in GoneFrames
  BY <1>1 DEF Frames, OnlyOne, StartFrames, GoneFrames, AtOnce
<1>8. GoOn(<<"handlers", "startRefiner">>)
  BY DEF Ready
<1>9. calls' \in Seq(Frames)
  BY <1>1, <1>7, <1>8, RunningFrame, PushedTwo DEF GoOn, Inv, TypeOK
<1>10. TypeOK'
  BY <1>3, <1>9 DEF Inv, TypeOK, microphoneVars, refinementVars, deliveryVars
<1> QED BY <1>1, <1>3, <1>6, <1>7, <1>8, <1>10, GoesOnFits

LEMMA speechChainExhaustedFits ==
    ASSUME Inv, speechChainExhausted
    PROVE  Inv'
<1>1. Running("speechFailed") /\ GoOn(<<"handlers", "failStartup">>) /\ state = "Starting"
  BY DEF speechChainExhausted
<1>2. FrameFits("speechFailed") /\ calls \in Seq(Frames)
  BY <1>1, RunningFrame DEF Inv, TypeOK, FramesFit
<1>3. /\ UNCHANGED <<state, settings, selection, review, microphoneVars, listening, speech,
                     refinementVars, deliveryVars, awaited, pending>>
      /\ edits' = edits /\ text' = text /\ media' = media
  BY DEF speechChainExhausted, runVars
<1>4. FrameFits("handlers")' /\ FrameFits("failStartup")'
  BY <1>1, <1>2, <1>3 DEF FrameFits, StartFrames, GoneFrames, SpeechGone
<1>5. "handlers" \in Frames \ OnlyOne /\ "failStartup" \in Frames \ AtOnce
      /\ "speechFailed" \in OnlyOne /\ "failStartup" \in GoneFrames
  BY DEF Frames, OnlyOne, StartFrames, GoneFrames, AtOnce
<1>6. calls' \in Seq(Frames)
  BY <1>1, <1>5, RunningFrame, PushedTwo DEF GoOn, Inv, TypeOK
<1>7. TypeOK'
  BY <1>3, <1>6 DEF Inv, TypeOK, microphoneVars, refinementVars, deliveryVars
<1> QED BY <1>1, <1>3, <1>4, <1>5, <1>7, GoesOnFits

LEMMA ClearTranscriptFits ==
    ASSUME Inv, ClearTranscript
    PROVE  Inv'
<1>1. Running("started") /\ GoOn(<<"handlers", "showPopup">>)
  BY DEF ClearTranscript
<1>2. FrameFits("started") /\ calls \in Seq(Frames)
  BY <1>1, RunningFrame DEF Inv, TypeOK, FramesFit
<1>3. /\ UNCHANGED <<state, settings, selection, review, microphoneVars, listening, speech,
                     refinementVars, deliveryVars, awaited, pending>>
      /\ edits' \in BOOLEAN /\ text' \in BOOLEAN /\ media' = media
  BY DEF ClearTranscript, runVars
<1>4. state = "Starting" /\ ~speech.started /\ speech.phase = "Starting" /\ microphone = "Off"
  BY <1>2 DEF FrameFits, StartFrames
<1>5. FrameFits("handlers")' /\ FrameFits("showPopup")'
  BY <1>3, <1>4 DEF FrameFits, StartFrames, GoneFrames, microphoneVars
<1>6. "handlers" \in Frames \ OnlyOne /\ "showPopup" \in Frames \ AtOnce
      /\ "started" \in OnlyOne /\ "started" \notin GoneFrames
  BY DEF Frames, OnlyOne, StartFrames, GoneFrames, AtOnce
<1>7. calls' \in Seq(Frames)
  BY <1>1, <1>6, RunningFrame, PushedTwo DEF GoOn, Inv, TypeOK
<1>8. TypeOK'
  BY <1>3, <1>7 DEF Inv, TypeOK, microphoneVars, refinementVars, deliveryVars
<1> QED BY <1>1, <1>3, <1>4, <1>5, <1>6, <1>8, GoesOnFits

-----------------------------------------------------------------------------
(* The stack as an action leaves it. *)
CallsAre(fs) ==
    /\ calls' \in Seq(Frames) /\ Single(calls)' /\ OnTop(calls)'
    /\ FramesOf(calls)' = fs

LEMMA Runs ==
    ASSUME Inv, NEW f, Running(f)
    PROVE  /\ Tail(calls) \in Seq(Frames) /\ Single(Tail(calls))
           /\ FramesOf(calls) = {f} \cup FramesOf(Tail(calls))
           /\ FramesOf(Tail(calls)) \cap AtOnce = {}
           /\ f \in OnlyOne => FramesOf(Tail(calls)) \cap OnlyOne = {}
           /\ FrameFits(f)
<1>1. f \in FramesOf(calls)
  BY RunningFrame DEF Inv, TypeOK
<1> QED BY <1>1, RunningFrame DEF Inv, TypeOK, FramesFit

LEMMA Returned ==
    ASSUME Inv, NEW f, Running(f), Return
    PROVE  CallsAre(FramesOf(Tail(calls)))
<1>1. Tail(calls) \in Seq(Frames) /\ Single(Tail(calls)) /\ OnTop(Tail(calls))
  BY RunningFrame DEF Inv, TypeOK
<1> QED BY <1>1 DEF Return, CallsAre

LEMMA Pushed ==
    ASSUME NEW stack \in Seq(Frames), Single(stack), FramesOf(stack) \cap AtOnce = {},
           NEW g \in Frames, g \notin OnlyOne \/ FramesOf(stack) \cap OnlyOne = {},
           calls' = <<g>> \o stack
    PROVE  CallsAre({g} \cup FramesOf(stack))
<1>1. /\ <<g>> \o stack \in Seq(Frames)
      /\ FramesOf(<<g>> \o stack) = {g} \cup FramesOf(stack)
      /\ Single(<<g>> \o stack) /\ OnTop(<<g>> \o stack)
  BY PushedOne, Zenon
<1> QED BY <1>1 DEF CallsAre

LEMMA PushedBoth ==
    ASSUME NEW stack \in Seq(Frames), Single(stack), FramesOf(stack) \cap AtOnce = {},
           NEW g \in Frames \ OnlyOne, NEW h \in Frames \ AtOnce,
           h \notin OnlyOne \/ FramesOf(stack) \cap OnlyOne = {},
           calls' = <<g, h>> \o stack
    PROVE  CallsAre({g, h} \cup FramesOf(stack))
<1>1. /\ <<g, h>> \o stack \in Seq(Frames)
      /\ FramesOf(<<g, h>> \o stack) = {g, h} \cup FramesOf(stack)
      /\ Single(<<g, h>> \o stack) /\ OnTop(<<g, h>> \o stack)
  BY PushedTwo, Zenon
<1> QED BY <1>1 DEF CallsAre

LEMMA WentOnWith ==
    ASSUME Inv, NEW f, Running(f), NEW g \in Frames, g \in OnlyOne => f \in OnlyOne, GoOn(<<g>>)
    PROVE  CallsAre({g} \cup FramesOf(Tail(calls)))
<1> DEFINE stack == Tail(calls)
<1>1. /\ stack \in Seq(Frames) /\ Single(stack) /\ FramesOf(stack) \cap AtOnce = {}
      /\ g \notin OnlyOne \/ FramesOf(stack) \cap OnlyOne = {}
  BY Runs
<1>2. calls' = <<g>> \o stack
  BY DEF GoOn
<1> HIDE DEF stack
<1>3. CallsAre({g} \cup FramesOf(stack))
  BY <1>1, <1>2, Pushed
<1> QED BY <1>3 DEF stack

LEMMA WentOnWithTwo ==
    ASSUME Inv, NEW f, Running(f), NEW g \in Frames \ OnlyOne, NEW h \in Frames \ AtOnce,
           h \in OnlyOne => f \in OnlyOne, GoOn(<<g, h>>)
    PROVE  CallsAre({g, h} \cup FramesOf(Tail(calls)))
<1> DEFINE stack == Tail(calls)
<1>1. /\ stack \in Seq(Frames) /\ Single(stack) /\ FramesOf(stack) \cap AtOnce = {}
      /\ h \notin OnlyOne \/ FramesOf(stack) \cap OnlyOne = {}
  BY Runs
<1>2. calls' = <<g, h>> \o stack
  BY DEF GoOn
<1> HIDE DEF stack
<1>3. CallsAre({g, h} \cup FramesOf(stack))
  BY <1>1, <1>2, PushedBoth
<1> QED BY <1>3 DEF stack

LEMMA FreeFrames ==
    ASSUME Free
    PROVE  /\ calls \in Seq(Frames) /\ Single(calls) /\ FramesOf(calls) = {}
           /\ FramesOf(calls) \cap AtOnce = {} /\ FramesOf(calls) \cap OnlyOne = {}
BY NoFrames DEF Free

(* A handler or the event loop calls, and a report comes in its call. *)
LEMMA CallFrames ==
    ASSUME Inv, MayCall
    PROVE  calls \in Seq(Frames) /\ Single(calls) /\ FramesOf(calls) \cap AtOnce = {}
<1>1. CASE Free
  BY <1>1, FreeFrames
<1>2. CASE Running("handlers")
  <2>1. "handlers" \notin AtOnce
    BY DEF AtOnce
  <2> QED BY <1>2, <2>1, Runs DEF Inv, TypeOK
<1> QED BY <1>1, <1>2 DEF MayCall, Handling

LEMMA BelowFrames ==
    ASSUME Inv, NEW f, In(f)
    PROVE  /\ Below(f) \in Seq(Frames) /\ Single(Below(f)) /\ FramesOf(Below(f)) \cap AtOnce = {}
           /\ FramesOf(Below(f)) \subseteq FramesOf(calls)
           /\ FramesOf(calls) \subseteq {f} \cup FramesOf(Below(f))
<1>1. CASE Running(f)
  BY <1>1, Runs DEF Below
<1>2. CASE Free /\ ~Running(f)
  BY <1>2, FreeFrames DEF Below
<1> QED BY <1>1, <1>2 DEF In

-----------------------------------------------------------------------------
(* The walk of the refinement chain. *)

(* A refiner is left behind, and the walk goes on. *)
LEMMA PassedFits ==
    ASSUME Inv, state \in {"Stopping", "Refining"}, SpeechGone, microphone = "Off",
           followingUp => edits, refiners > 0, refiners' = refiners - 1, job' = "none",
           NEW fs, fs \subseteq FramesOf(calls), fs \cap OnlyOne = {}, fs \cap AtOnce = {},
           CallsAre({"handlers", "walk"} \cup fs) \/ CallsAre({"walk"} \cup fs),
           "startFollowUp" \in FramesOf(calls) => "startFollowUp" \in fs,
           "announced" \in FramesOf(calls) => "announced" \in fs,
           UNCHANGED <<state, runVars, review, text, microphoneVars, listening, media, speech,
                       refining, deliveryVars, awaited, pending>>
    PROVE  Inv'
<1>1. /\ state' = state /\ settings' = settings /\ selection' = selection /\ edits' = edits
      /\ review' = review /\ text' = text /\ microphone' = microphone /\ audio' = audio /\ held' = held
      /\ listening' = listening /\ media' = media /\ speech' = speech /\ refining' = refining
      /\ completing' = completing /\ unanswered' = unanswered /\ delivered' = delivered
      /\ awaited' = awaited /\ pending' = pending
  BY DEF runVars, microphoneVars, deliveryVars
<1>2. /\ calls' \in Seq(Frames) /\ Single(calls)' /\ OnTop(calls)'
      /\ "walk" \in FramesOf(calls)' /\ fs \subseteq FramesOf(calls)'
      /\ FramesOf(calls)' \subseteq {"handlers", "walk"} \cup fs
  BY DEF CallsAre
<1>3. TypeOK'
  <2>1. refiners' \in 0..Refiners
    BY RefinersAssumption DEF Inv, TypeOK
  <2> QED BY <1>1, <1>2, <2>1 DEF Inv, TypeOK
<1>4. FramesFit'
  <2> SUFFICES ASSUME NEW f \in FramesOf(calls)' PROVE FrameFits(f)'
    BY DEF FramesFit
  <2>1. CASE f \in {"handlers", "walk"}
    BY <2>1, <1>1 DEF FrameFits, StartFrames, GoneFrames, SpeechGone, followingUp
  <2>2. CASE f \in fs
    <3>1. FrameFits(f) /\ f \notin OnlyOne /\ f # "refiner"
      BY <2>2 DEF Inv, FramesFit, AtOnce
    <3> QED BY <3>1, <1>1 DEF FrameFits, OnlyOne, StartFrames, GoneFrames, SpeechGone, followingUp
  <2> QED BY <2>1, <2>2, <1>2
<1>5. PendingFits'
  BY <1>1 DEF Inv, PendingFits
<1>6. MicrophoneFits'
  BY <1>1, <1>2 DEF Inv, MicrophoneFits, Told
<1>7. SpeechFits'
  <2>1. "walk" \in FramesOf(calls)' \cap GoneFrames
    BY <1>2 DEF GoneFrames
  <2> QED BY <1>1, <2>1 DEF Inv, SpeechFits
<1>8. RefinementFits'
  BY <1>1 DEF Inv, RefinementFits
<1>9. ReviewFits'
  BY <1>1 DEF Inv, ReviewFits, followingUp, Active
<1>10. DeliveryFits'
  BY <1>1 DEF Inv, DeliveryFits
<1> QED BY <1>1, <1>2, <1>3, <1>4, <1>5, <1>6, <1>7, <1>8, <1>9, <1>10 DEF Inv, Active

(* While refining, the speech and the microphone are through. *)
LEMMA RefiningRests ==
    ASSUME Inv, state \in {"Refining", "Reviewing"}
    PROVE  /\ microphone = "Off" /\ SpeechGone /\ SpeechRests
           /\ state = "Refining" /\ followingUp => edits
           /\ "popup" \notin pending /\ "target" \notin pending
<1>1. speech.phase \in {"Idle", "Starting", "Listening", "Paused", "Stopping"}
  BY DEF Inv, TypeOK, Speeches
<1> QED BY <1>1 DEF Inv, MicrophoneFits, SpeechFits, SpeechGone, SpeechRests, ReviewFits, PendingFits

LEMMA WalkFits ==
    ASSUME Inv, PassOver \/ PrepareNext
    PROVE  Inv'
<1>1. PICK f \in {"walk", "walkOn", "prepareNext"} : Running(f)
  BY DEF PassOver, PrepareNext, Walking
<1>2. /\ FramesOf(calls) = {f} \cup FramesOf(Tail(calls)) /\ f \in OnlyOne
      /\ FramesOf(Tail(calls)) \cap OnlyOne = {} /\ FramesOf(Tail(calls)) \cap AtOnce = {} /\ FrameFits(f)
  BY <1>1, Runs DEF OnlyOne, GoneFrames
<1>3. state \in {"Stopping", "Refining"} /\ SpeechGone /\ microphone = "Off" /\ (followingUp => edits)
  BY <1>1, <1>2, RefiningRests DEF FrameFits, GoneFrames
<1>4. refiners > 0 /\ refiners' = refiners - 1
  BY <1>1, <1>2 DEF FrameFits, PassOver, PrepareNext, Walking, Running
<1>5. job' = "none"
  BY <1>2 DEF Inv, RefinementFits, PassOver, PrepareNext
<1>6. CallsAre({"handlers", "walk"} \cup FramesOf(Tail(calls))) \/ CallsAre({"walk"} \cup FramesOf(Tail(calls)))
  <2>1. "handlers" \in Frames \ OnlyOne /\ "walk" \in Frames \ AtOnce
    BY DEF Frames, OnlyOne, StartFrames, GoneFrames, AtOnce
  <2>2. CASE PassOver
    BY <1>1, <1>2, <2>1, <2>2, WentOnWithTwo DEF PassOver
  <2>3. CASE PrepareNext
    BY <1>1, <1>2, <2>1, <2>3, WentOnWith DEF PrepareNext
  <2> QED BY <2>2, <2>3
<1>7. UNCHANGED <<state, runVars, review, text, microphoneVars, listening, media, speech,
                  refining, deliveryVars, awaited, pending>>
  BY DEF PassOver, PrepareNext
<1>8. f # "startFollowUp" /\ f # "announced"
  BY <1>1
<1> QED BY <1>2, <1>3, <1>4, <1>5, <1>6, <1>7, <1>8, PassedFits

LEMMA PreparationEndsFits ==
    ASSUME Inv, PreparationEnds
    PROVE  Inv'
<1>1. Free /\ job # "none" /\ job' = "none"
  BY DEF PreparationEnds
<1>2. state = "Refining" /\ refiners > 0
  BY <1>1 DEF Inv, RefinementFits
<1>3. SpeechGone /\ microphone = "Off" /\ (followingUp => edits)
  BY <1>2, RefiningRests
<1>4. FramesOf(calls) = {} /\ calls = <<>>
  BY <1>1, FreeFrames DEF Free
<1>5. /\ "handlers" \in Frames \ OnlyOne /\ "walk" \in Frames \ AtOnce
      /\ "startRefiner" \in Frames \ AtOnce /\ "walkOn" \in Frames \ AtOnce
  BY DEF Frames, OnlyOne, StartFrames, GoneFrames, AtOnce
<1>6. UNCHANGED <<state, runVars, review, text, microphoneVars, listening, media, speech,
                  refining, deliveryVars, awaited, pending>>
  BY DEF PreparationEnds
<1>7. CASE refiners' = refiners - 1 /\ calls' = <<"handlers", "walk">>
  <2>1. calls' = <<"handlers", "walk">> \o calls
    BY <1>4, <1>7
  <2>2. CallsAre({"handlers", "walk"} \cup FramesOf(calls))
    BY <1>1, <1>5, <2>1, FreeFrames, PushedBoth
  <2> QED BY <1>1, <1>2, <1>3, <1>4, <1>6, <1>7, <2>2, PassedFits
<1>8. CASE /\ refiners' = refiners
           /\ calls' = IF job = "resolving" THEN <<"walkOn">> ELSE <<"handlers", "startRefiner">>
  <2>1. CallsAre({"walkOn"}) \/ CallsAre({"handlers", "startRefiner"})
    <3>1. CASE job = "resolving"
      <4>1. calls' = <<"walkOn">> \o calls
        BY <1>4, <1>8, <3>1
      <4>2. CallsAre({"walkOn"} \cup FramesOf(calls))
        BY <1>1, <1>5, <4>1, FreeFrames, Pushed
      <4> QED BY <1>4, <4>2 DEF CallsAre
    <3>2. CASE job # "resolving"
      <4>1. calls' = <<"handlers", "startRefiner">> \o calls
        BY <1>4, <1>8, <3>2
      <4>2. CallsAre({"handlers", "startRefiner"} \cup FramesOf(calls))
        BY <1>1, <1>5, <4>1, FreeFrames, PushedBoth
      <4> QED BY <1>4, <4>2 DEF CallsAre
    <3> QED BY <3>1, <3>2
  <2>2. /\ state' = state /\ settings' = settings /\ selection' = selection /\ edits' = edits
        /\ review' = review /\ text' = text /\ microphone' = microphone /\ audio' = audio /\ held' = held
        /\ listening' = listening /\ media' = media /\ speech' = speech /\ refining' = refining
        /\ completing' = completing /\ unanswered' = unanswered /\ delivered' = delivered
        /\ awaited' = awaited /\ pending' = pending
    BY <1>6 DEF runVars, microphoneVars, deliveryVars
  <2>3. TypeOK' /\ Single(calls)' /\ OnTop(calls)' /\ (state \in Active => settings)'
    BY <1>1, <1>8, <2>1, <2>2 DEF CallsAre, Inv, TypeOK, Active
  <2>4. FramesFit'
    BY <1>2, <1>3, <1>8, <2>1, <2>2 DEF CallsAre, FramesFit, FrameFits, StartFrames, GoneFrames, SpeechGone,
       followingUp
  <2>5. PendingFits' /\ RefinementFits' /\ DeliveryFits'
    BY <1>1, <1>2, <2>1, <2>2 DEF Inv, PendingFits, RefinementFits, DeliveryFits, CallsAre
  <2>6. MicrophoneFits' /\ SpeechFits' /\ ReviewFits'
    BY <1>2, <1>4, <2>1, <2>2 DEF Inv, MicrophoneFits, Told, SpeechFits, ReviewFits, followingUp, Live, Active, CallsAre
  <2> QED BY <2>3, <2>4, <2>5, <2>6 DEF Inv
<1> QED BY <1>7, <1>8 DEF PreparationEnds

LEMMA RefineFits ==
    ASSUME Inv, Refine
    PROVE  Inv'
<1>1. Running("refine") /\ GoOn(<<"refiner">>) /\ job' = "refining"
  BY DEF Refine
<1>2. /\ FramesOf(calls) = {"refine"} \cup FramesOf(Tail(calls)) /\ FrameFits("refine")
      /\ FramesOf(Tail(calls)) \cap OnlyOne = {}
  BY <1>1, Runs DEF OnlyOne
<1>3. "refiner" \in Frames /\ "refiner" \notin OnlyOne /\ "refine" \notin GoneFrames
  BY DEF Frames, OnlyOne, StartFrames, GoneFrames
<1>4. CallsAre({"refiner"} \cup FramesOf(Tail(calls)))
  BY <1>1, <1>3, WentOnWith
<1>5. state = "Refining" /\ refiners > 0
  BY <1>2 DEF FrameFits
<1>6. /\ state' = state /\ settings' = settings /\ selection' = selection /\ edits' = edits
      /\ review' = review /\ text' = text /\ microphone' = microphone /\ audio' = audio /\ held' = held
      /\ listening' = listening /\ media' = media /\ speech' = speech /\ refining' = refining
      /\ refiners' = refiners
      /\ completing' = completing /\ unanswered' = unanswered /\ delivered' = delivered
      /\ awaited' = awaited /\ pending' = pending
  BY DEF Refine, runVars, microphoneVars, deliveryVars
<1>7. TypeOK' /\ Single(calls)' /\ OnTop(calls)' /\ (state \in Active => settings)'
  BY <1>1, <1>4, <1>6 DEF CallsAre, Inv, TypeOK, Active
<1>8. FramesFit'
  <2> SUFFICES ASSUME NEW f \in FramesOf(calls)' PROVE FrameFits(f)'
    BY DEF FramesFit
  <2>1. CASE f = "refiner"
    BY <2>1, <1>1, <1>5, <1>6 DEF FrameFits, StartFrames, GoneFrames
  <2>2. CASE f \in FramesOf(Tail(calls))
    <3>1. FrameFits(f) /\ f \notin OnlyOne
      BY <2>2, <1>2 DEF Inv, FramesFit
    <3> QED BY <3>1, <1>1, <1>6 DEF FrameFits, OnlyOne, StartFrames, GoneFrames, SpeechGone, followingUp
  <2> QED BY <2>1, <2>2, <1>4 DEF CallsAre
<1>9. PendingFits' /\ RefinementFits' /\ DeliveryFits'
  BY <1>2, <1>3, <1>4, <1>5, <1>6 DEF Inv, PendingFits, RefinementFits, DeliveryFits, CallsAre
<1>10. MicrophoneFits' /\ SpeechFits' /\ ReviewFits'
  BY <1>2, <1>4, <1>5, <1>6 DEF Inv, MicrophoneFits, Told, SpeechFits, ReviewFits, followingUp, Live, Active, CallsAre
<1> QED BY <1>7, <1>8, <1>9, <1>10 DEF Inv

-----------------------------------------------------------------------------
(* The start. *)

LEMMA startFollowUpFits ==
    ASSUME Inv, startFollowUp
    PROVE  Inv'
<1>1. state = "Reviewing" /\ review' = "following" /\ MayCall
      /\ calls' = <<"handlers", "startFollowUp">> \o calls
  BY DEF startFollowUp
<1>2. "handlers" \in Frames \ OnlyOne /\ "startFollowUp" \in Frames \ AtOnce /\ "startFollowUp" \notin OnlyOne
  BY DEF Frames, OnlyOne, StartFrames, GoneFrames, AtOnce
<1>3. CallsAre({"handlers", "startFollowUp"} \cup FramesOf(calls))
  BY <1>1, <1>2, CallFrames, PushedBoth
<1>4. /\ state' = state /\ settings' = settings /\ selection' = selection /\ edits' = edits
      /\ text' = text /\ microphone' = microphone /\ audio' = audio /\ held' = held
      /\ listening' = listening /\ media' = media /\ speech' = speech /\ refining' = refining
      /\ refiners' = refiners /\ job' = job
      /\ completing' = completing /\ unanswered' = unanswered /\ delivered' = delivered
      /\ awaited' = awaited /\ pending' = pending
  BY DEF startFollowUp, runVars, microphoneVars, refinementVars, deliveryVars
<1>5. TypeOK' /\ Single(calls)' /\ OnTop(calls)' /\ (state \in Active => settings)'
  BY <1>1, <1>3, <1>4 DEF CallsAre, Inv, TypeOK, Active
<1>6. FramesFit'
  <2> SUFFICES ASSUME NEW f \in FramesOf(calls)' PROVE FrameFits(f)'
    BY DEF FramesFit
  <2>1. CASE f \in {"handlers", "startFollowUp"}
    BY <2>1, <1>1, <1>4 DEF FrameFits, StartFrames, GoneFrames, followingUp
  <2>2. CASE f \in FramesOf(calls)
    BY <2>2, <1>1, <1>4 DEF Inv, FramesFit, FrameFits, StartFrames, GoneFrames, SpeechGone, followingUp
  <2> QED BY <2>1, <2>2, <1>3 DEF CallsAre
<1>7. PendingFits' /\ RefinementFits' /\ DeliveryFits'
  BY <1>1, <1>2, <1>3, <1>4 DEF Inv, PendingFits, RefinementFits, DeliveryFits, CallsAre
<1>8. MicrophoneFits' /\ SpeechFits' /\ ReviewFits'
  BY <1>1, <1>3, <1>4 DEF Inv, MicrophoneFits, Told, SpeechFits, ReviewFits, followingUp, Live, Active, CallsAre
<1> QED BY <1>5, <1>6, <1>7, <1>8 DEF Inv

(* The start's way on, and the callbacks it waits for: one of them at most.  *)
LEMMA StartGoesOnFits ==
    ASSUME Inv, state = "Starting", ~speech.started, speech.phase = "Starting", microphone = "Off",
           NEW fs, fs \subseteq FramesOf(calls), fs \cap OnlyOne = {},
           "announced" \in FramesOf(calls) => "announced" \in fs,
           NEW way \in {{}, {"handlers"}, {"captured"}, {"handlers", "captured"}},
           CallsAre(way \cup fs),
           pending' \subseteq Callbacks, ~({"popup", "target"} \subseteq pending'),
           "check" \in pending' => "check" \in pending,
           ("popup" \in pending' \/ "target" \in pending') => "captured" \notin way,
           UNCHANGED <<state, runVars, review, text, microphoneVars, listening, media, speech,
                       refinementVars, deliveryVars, awaited>>
    PROVE  Inv'
<1>1. /\ state' = state /\ settings' = settings /\ selection' = selection /\ edits' = edits
      /\ review' = review /\ text' = text /\ microphone' = microphone /\ audio' = audio /\ held' = held
      /\ listening' = listening /\ media' = media /\ speech' = speech /\ refining' = refining
      /\ refiners' = refiners /\ job' = job
      /\ completing' = completing /\ unanswered' = unanswered /\ delivered' = delivered
      /\ awaited' = awaited
  BY DEF runVars, microphoneVars, refinementVars, deliveryVars
<1>2. TypeOK' /\ Single(calls)' /\ OnTop(calls)' /\ (state \in Active => settings)'
  BY <1>1 DEF CallsAre, Inv, TypeOK, Active
<1>3. FramesFit'
  <2> SUFFICES ASSUME NEW f \in FramesOf(calls)' PROVE FrameFits(f)'
    BY DEF FramesFit
  <2>1. CASE f \in {"handlers", "captured"}
    BY <2>1, <1>1 DEF FrameFits, StartFrames, GoneFrames
  <2>2. CASE f \in FramesOf(calls)
    BY <2>2, <1>1 DEF Inv, FramesFit, FrameFits, StartFrames, GoneFrames, SpeechGone, followingUp
  <2> QED BY <2>1, <2>2 DEF CallsAre
<1>4. FramesOf(calls)' \cap OnlyOne \subseteq way
  BY DEF CallsAre
<1>5. "handlers" \notin OnlyOne
  BY DEF OnlyOne, StartFrames, GoneFrames
<1>6. PendingFits'
  BY <1>1, <1>4, <1>5 DEF Inv, PendingFits
<1>7. RefinementFits' /\ DeliveryFits' /\ ReviewFits' /\ SpeechFits'
  BY <1>1 DEF Inv, RefinementFits, DeliveryFits, ReviewFits, SpeechFits, followingUp, Active
<1>8. MicrophoneFits'
  BY <1>1 DEF Inv, MicrophoneFits, Told, CallsAre
<1> QED BY <1>2, <1>3, <1>6, <1>7, <1>8 DEF Inv

LEMMA ShowPopupFits ==
    ASSUME Inv, ShowPopup
    PROVE  Inv'
<1>1. Running("showPopup") /\ GoOn(<<"handlers">>) /\ pending' = pending \cup {"popup"}
  BY DEF ShowPopup
<1>2. /\ FrameFits("showPopup") /\ FramesOf(calls) = {"showPopup"} \cup FramesOf(Tail(calls))
      /\ FramesOf(Tail(calls)) \cap OnlyOne = {}
  BY <1>1, Runs DEF OnlyOne, StartFrames
<1>3. state = "Starting" /\ ~speech.started /\ speech.phase = "Starting" /\ microphone = "Off"
  BY <1>2 DEF FrameFits, StartFrames
<1>4. "handlers" \in Frames /\ "handlers" \notin OnlyOne /\ "showPopup" \in OnlyOne
  BY DEF Frames, OnlyOne, StartFrames, GoneFrames
<1>5. CallsAre({"handlers"} \cup FramesOf(Tail(calls)))
  BY <1>1, <1>4, WentOnWith
<1>6. "target" \notin pending
  BY <1>2, <1>4 DEF Inv, PendingFits
<1>7. pending' \subseteq Callbacks
  BY <1>1 DEF Inv, TypeOK, Callbacks
<1>8. UNCHANGED <<state, runVars, review, text, microphoneVars, listening, media, speech,
                  refinementVars, deliveryVars, awaited>>
  BY DEF ShowPopup
<1> DEFINE way == {"handlers"}
<1>9. way \in {{}, {"handlers"}, {"captured"}, {"handlers", "captured"}} /\ "captured" \notin way
      /\ CallsAre(way \cup FramesOf(Tail(calls)))
  BY <1>5
<1> HIDE DEF way
<1> QED BY <1>1, <1>2, <1>3, <1>6, <1>7, <1>8, <1>9, StartGoesOnFits

LEMMA StartAnswerFits ==
    ASSUME Inv, continueStartupAfterPopup \/ TargetCaptured
    PROVE  Inv'
<1>1. UNCHANGED <<state, runVars, review, text, microphoneVars, listening, media, speech,
                  refinementVars, deliveryVars, awaited>>
  BY DEF continueStartupAfterPopup, TargetCaptured
<1>2. "popup" \in pending \/ "target" \in pending
  BY DEF continueStartupAfterPopup, TargetCaptured
<1>3. /\ state = "Starting" /\ ~speech.started /\ speech.phase = "Starting" /\ microphone = "Off"
      /\ FramesOf(calls) \cap OnlyOne = {} /\ ~({"popup", "target"} \subseteq pending)
  BY <1>2 DEF Inv, PendingFits
<1>4. MayCall
  BY DEF continueStartupAfterPopup, TargetCaptured, MayCall
<1>5. calls \in Seq(Frames) /\ Single(calls) /\ FramesOf(calls) \cap AtOnce = {}
  BY <1>4, CallFrames
<1>6. /\ "handlers" \in Frames \ OnlyOne /\ "captured" \in Frames \ AtOnce
  BY DEF Frames, OnlyOne, StartFrames, GoneFrames, AtOnce
<1>7. /\ pending' \in {pending \ {"popup"}, pending \ {"target"}, (pending \ {"popup"}) \cup {"target"}}
      /\ \/ calls' = calls
         \/ pending' \in {pending \ {"popup"}, pending \ {"target"}}
            /\ (calls' = <<"captured">> \o calls \/ calls' = <<"handlers", "captured">> \o calls)
            /\ "popup" \notin pending' /\ "target" \notin pending'
  <2>1. CASE TargetCaptured
    <3>1. calls' = <<"captured">> \o calls
      BY <2>1 DEF TargetCaptured, Free
    <3> QED BY <2>1, <3>1, <1>3 DEF TargetCaptured
  <2>2. CASE continueStartupAfterPopup
    BY <2>2, <1>3 DEF continueStartupAfterPopup
  <2> QED BY <2>1, <2>2
<1>8. pending' \subseteq Callbacks
  BY <1>7 DEF Inv, TypeOK, Callbacks
<1>9. ~({"popup", "target"} \subseteq pending') /\ ("check" \in pending' => "check" \in pending)
  BY <1>3, <1>7
<1>10. CASE calls' = calls
  <2> DEFINE way == {}
  <2>1. way \in {{}, {"handlers"}, {"captured"}, {"handlers", "captured"}} /\ "captured" \notin way
        /\ CallsAre(way \cup FramesOf(calls))
    BY <1>10, <1>5 DEF Inv, TypeOK, CallsAre
  <2> HIDE DEF way
  <2> QED BY <1>1, <1>3, <1>8, <1>9, <2>1, StartGoesOnFits
<1>11. CASE /\ calls' = <<"captured">> \o calls \/ calls' = <<"handlers", "captured">> \o calls
            /\ "popup" \notin pending' /\ "target" \notin pending'
  <2>1. PICK way \in {{"captured"}, {"handlers", "captured"}} : CallsAre(way \cup FramesOf(calls))
    <3>1. CASE calls' = <<"captured">> \o calls
      <4>1. CallsAre({"captured"} \cup FramesOf(calls))
        BY <3>1, <1>3, <1>5, <1>6, Pushed
      <4> QED BY <4>1
    <3>2. CASE calls' = <<"handlers", "captured">> \o calls
      <4>1. CallsAre({"handlers", "captured"} \cup FramesOf(calls))
        BY <3>2, <1>3, <1>5, <1>6, PushedBoth
      <4> QED BY <4>1
    <3> QED BY <1>11, <3>1, <3>2
  <2>2. way \in {{}, {"handlers"}, {"captured"}, {"handlers", "captured"}}
    BY <2>1
  <2> QED BY <1>1, <1>3, <1>8, <1>9, <1>11, <2>1, <2>2, StartGoesOnFits
<1> QED BY <1>7, <1>10, <1>11

LEMMA continueStartupWithTargetFits ==
    ASSUME Inv, continueStartupWithTarget
    PROVE  Inv'
<1>1. Running("captured")
  BY DEF continueStartupWithTarget
<1>2. /\ FrameFits("captured") /\ FramesOf(calls) = {"captured"} \cup FramesOf(Tail(calls))
      /\ FramesOf(Tail(calls)) \cap OnlyOne = {} /\ FramesOf(Tail(calls)) \cap AtOnce = {}
      /\ "captured" \in OnlyOne
  BY <1>1, Runs DEF OnlyOne, StartFrames
<1>3. state = "Starting" /\ ~speech.started /\ speech.phase = "Starting" /\ microphone = "Off"
  BY <1>2 DEF FrameFits, StartFrames
<1>4. "popup" \notin pending /\ "target" \notin pending /\ ~speech.stopped
  BY <1>2, <1>3 DEF Inv, PendingFits, SpeechFits
<1>5. /\ state' = state /\ settings' = settings /\ edits' = edits
      /\ review' = review /\ text' = text /\ microphone' = microphone /\ audio' = audio /\ held' = held
      /\ listening' = listening /\ refining' = refining
      /\ completing' = completing /\ unanswered' = unanswered /\ delivered' = delivered
      /\ awaited' = awaited /\ pending' = pending
      /\ selection' \in BOOLEAN /\ (followingUp => selection')
  BY DEF continueStartupWithTarget, microphoneVars, deliveryVars
<1>6. "speech" \in Frames /\ "speech" \notin OnlyOne /\ "handlers" \in Frames \ OnlyOne
      /\ "failStartup" \in Frames \ AtOnce
  BY DEF Frames, OnlyOne, StartFrames, GoneFrames, AtOnce
<1>7. /\ media' \in BOOLEAN /\ refiners' \in 0..Refiners /\ job' \in {"none", job}
      /\ speech' \in Speeches /\ speech'.phase = "Starting" /\ ~speech'.stopped
      /\ \/ CallsAre({"speech"} \cup FramesOf(Tail(calls))) /\ speech'.started
         \/ CallsAre({"handlers", "failStartup"} \cup FramesOf(Tail(calls))) /\ ~speech'.started
  <2>1. CASE /\ refiners' \in 0..Refiners /\ job' = "none" /\ media' \in {media, TRUE}
             /\ speech' = [speech EXCEPT !.started = TRUE]
             /\ GoOn(<<"speech">>)
    <3>1. CallsAre({"speech"} \cup FramesOf(Tail(calls)))
      BY <1>1, <1>6, <2>1, WentOnWith
    <3>2. /\ speech' \in Speeches /\ speech'.phase = speech.phase /\ speech'.stopped = speech.stopped
          /\ speech'.started
      BY <2>1 DEF Inv, TypeOK, Speeches
    <3> QED BY <1>3, <1>4, <2>1, <3>1, <3>2 DEF Inv, TypeOK
  <2>2. CASE GoOn(<<"handlers", "failStartup">>) /\ UNCHANGED <<refiners, job, media, speech>>
    <3>1. CallsAre({"handlers", "failStartup"} \cup FramesOf(Tail(calls)))
      BY <1>1, <1>2, <1>6, <2>2, WentOnWithTwo
    <3> QED BY <1>3, <1>4, <2>2, <3>1 DEF Inv, TypeOK
  <2> QED BY <2>1, <2>2 DEF continueStartupWithTarget
<1>8. TypeOK' /\ Single(calls)' /\ OnTop(calls)' /\ (state \in Active => settings)'
  BY <1>5, <1>7 DEF CallsAre, Inv, TypeOK, Active
<1>9. FramesFit'
  <2> SUFFICES ASSUME NEW f \in FramesOf(calls)' PROVE FrameFits(f)'
    BY DEF FramesFit
  <2>1. CASE f \in {"speech", "handlers"}
    BY <2>1 DEF FrameFits, StartFrames, GoneFrames
  <2>2. CASE f = "failStartup" /\ ~speech'.started
    BY <2>2, <1>3, <1>5 DEF FrameFits, StartFrames, GoneFrames, SpeechGone
  <2>3. CASE f \in FramesOf(Tail(calls))
    <3>1. FrameFits(f) /\ f \notin OnlyOne /\ f \notin AtOnce
      BY <2>3, <1>2 DEF Inv, FramesFit
    <3> QED BY <3>1, <1>5, <1>7 DEF FrameFits, OnlyOne, StartFrames, GoneFrames, AtOnce, followingUp
  <2> QED BY <2>1, <2>2, <2>3, <1>7 DEF CallsAre
<1>10. PendingFits' /\ RefinementFits' /\ DeliveryFits'
  BY <1>2, <1>3, <1>4, <1>5, <1>7 DEF Inv, PendingFits, RefinementFits, DeliveryFits
<1>11. MicrophoneFits'
  BY <1>2, <1>3, <1>5, <1>7 DEF Inv, MicrophoneFits, Told, CallsAre
<1>12. SpeechFits' /\ ReviewFits'
  BY <1>3, <1>4, <1>5, <1>7 DEF Inv, SpeechFits, ReviewFits, followingUp, Active
<1> QED BY <1>8, <1>9, <1>10, <1>11, <1>12 DEF Inv

-----------------------------------------------------------------------------
(* The microphone, and what the speech reports. *)

(* The microphone starts: for a session that listens, or whose speech was    *)
(* started, so that nothing waits that needs it off.                         *)
LEMMA MicrophoneStartsFits ==
    ASSUME Inv, StartsMicrophone, calls' \in Seq(Frames), Single(calls)', OnTop(calls)',
           NEW f \in {"startMicrophone", "speech", "none"},
           FramesOf(calls)' \subseteq FramesOf(calls), FramesOf(calls) \subseteq {f} \cup FramesOf(calls)',
           \/ state = "Listening" /\ speech' = speech
           \/ microphone # "Off" /\ speech' = speech
           \/ /\ state = "Starting" /\ speech.phase = "Starting" /\ speech.started
              /\ speech' = [speech EXCEPT !.asked = TRUE],
           UNCHANGED <<state, runVars, review, text, listening, media, refinementVars,
                       deliveryVars, awaited, pending>>
    PROVE  Inv'
<1>1. /\ state' = state /\ settings' = settings /\ selection' = selection /\ edits' = edits
      /\ review' = review /\ text' = text /\ microphone' = "Starting" /\ audio' = "starting" /\ held' = TRUE
      /\ listening' = listening /\ media' = media /\ refining' = refining
      /\ refiners' = refiners /\ job' = job
      /\ completing' = completing /\ unanswered' = unanswered /\ delivered' = delivered
      /\ awaited' = awaited /\ pending' = pending
  BY DEF StartsMicrophone, runVars, refinementVars, deliveryVars
<1>2. /\ speech' \in Speeches /\ speech'.phase = speech.phase /\ speech'.started = speech.started
      /\ speech'.stopped = speech.stopped
  BY DEF Inv, TypeOK, Speeches
<1>3. TypeOK' /\ (state \in Active => settings)'
  BY <1>1, <1>2 DEF Inv, TypeOK, Active
<1>4. /\ state \in {"Starting", "Listening", "Stopping"}
      /\ state = "Starting" => speech.started
      /\ state = "Stopping" => microphone # "Off"
  BY DEF Inv, MicrophoneFits, TypeOK, States
<1>5. FramesFit'
  <2> SUFFICES ASSUME NEW g \in FramesOf(calls)' PROVE FrameFits(g)'
    BY DEF FramesFit
  <2>1. FrameFits(g)
    BY DEF Inv, FramesFit
  <2> QED BY <2>1, <1>1, <1>2, <1>4 DEF FrameFits, StartFrames, GoneFrames, SpeechGone, followingUp
<1>6. PendingFits' /\ RefinementFits' /\ DeliveryFits'
  BY <1>1, <1>4 DEF Inv, PendingFits, RefinementFits, DeliveryFits
<1>7. MicrophoneFits'
  <2>1. f # "announced"
    OBVIOUS
  <2>2. Holds("Starting", state)
    BY DEF Holds
  <2>3. Told => Told'
    BY <1>1, <2>2 DEF Told
  <2>4. ("announced" \in FramesOf(calls) \/ Told)'
    BY <2>1, <2>3 DEF Inv, MicrophoneFits
  <2> QED BY <1>1, <1>2, <1>4, <2>4 DEF MicrophoneFits
<1>8. SpeechFits'
  <2>1. f \notin GoneFrames
    BY DEF GoneFrames
  <2>2. FramesOf(calls) \cap GoneFrames # {} => FramesOf(calls)' \cap GoneFrames # {}
    BY <2>1
  <2>3. ~(speech.stopped /\ speech.phase # "Idle")
    BY <1>4 DEF Inv, SpeechFits
  <2> QED BY <1>1, <1>2, <2>2, <2>3 DEF Inv, SpeechFits
<1>9. ReviewFits'
  <2>1. "startFollowUp" \in FramesOf(calls) => "startFollowUp" \in FramesOf(calls)'
    OBVIOUS
  <2> QED BY <1>1, <1>2, <2>1 DEF Inv, ReviewFits, followingUp, Active
<1> QED BY <1>3, <1>5, <1>6, <1>7, <1>8, <1>9 DEF Inv

LEMMA StartMicrophoneFits ==
    ASSUME Inv, StartMicrophone
    PROVE  Inv'
<1>1. Running("startMicrophone") /\ StartsMicrophone /\ Return
  BY DEF StartMicrophone
<1>2. CallsAre(FramesOf(Tail(calls)))
  BY <1>1, Returned
<1>3. FrameFits("startMicrophone") /\ FramesOf(calls) = {"startMicrophone"} \cup FramesOf(Tail(calls))
  BY <1>1, Runs
<1>4. state = "Listening"
  BY <1>3 DEF FrameFits
<1>5. /\ calls' \in Seq(Frames) /\ Single(calls)' /\ OnTop(calls)'
      /\ FramesOf(calls)' \subseteq FramesOf(calls)
      /\ FramesOf(calls) \subseteq {"startMicrophone"} \cup FramesOf(calls)'
  BY <1>2, <1>3 DEF CallsAre
<1>6. UNCHANGED <<state, runVars, review, text, listening, media, refinementVars,
                  deliveryVars, awaited, pending>> /\ speech' = speech
  BY DEF StartMicrophone
<1> QED BY <1>1, <1>4, <1>5, <1>6, MicrophoneStartsFits

LEMMA UndoPauseFits ==
    ASSUME Inv, UndoPause
    PROVE  Inv'
<1>1. microphone # "Off" /\ StartsMicrophone
  BY DEF UndoPause
<1>2. UNCHANGED <<state, runVars, review, text, listening, media, refinementVars,
                  deliveryVars, awaited, pending>> /\ speech' = speech /\ calls' = calls
  BY DEF UndoPause
<1>3. /\ calls' \in Seq(Frames) /\ Single(calls)' /\ OnTop(calls)'
      /\ FramesOf(calls)' \subseteq FramesOf(calls)
      /\ FramesOf(calls) \subseteq {"none"} \cup FramesOf(calls)'
  BY <1>2 DEF Inv, TypeOK
<1> QED BY <1>1, <1>2, <1>3, MicrophoneStartsFits

LEMMA readyToListenFits ==
    ASSUME Inv, readyToListen
    PROVE  Inv'
<1>1. /\ In("speech") /\ StartsMicrophone /\ calls' = Below("speech")
      /\ speech.phase = "Starting" /\ speech.started /\ speech' = [speech EXCEPT !.asked = TRUE]
  BY DEF readyToListen
<1>2. state = "Starting"
  BY <1>1 DEF Inv, SpeechFits
<1>3. OnTop(Below("speech"))
  BY <1>1, BelowFrames DEF OnTop, FramesOf
<1>4. /\ calls' \in Seq(Frames) /\ Single(calls)' /\ OnTop(calls)'
      /\ FramesOf(calls)' \subseteq FramesOf(calls)
      /\ FramesOf(calls) \subseteq {"speech"} \cup FramesOf(calls)'
  BY <1>1, <1>3, BelowFrames
<1>5. UNCHANGED <<state, runVars, review, text, listening, media, refinementVars,
                  deliveryVars, awaited, pending>>
  BY DEF readyToListen
<1> QED BY <1>1, <1>2, <1>4, <1>5, MicrophoneStartsFits

(* The speech changes in place and frames take its place: where it is told   *)
(* its stop, and where it has ended or failed, with the way on pushed.       *)
LEMMA SpeechMovesFits ==
    ASSUME Inv, speech.started \/ speech'.phase = speech.phase, speech' \in Speeches,
           speech'.started = speech.started,
           NEW fs, fs \subseteq FramesOf(calls), FramesOf(calls) \subseteq {"speech", "proceed"} \cup fs,
           NEW way \in {"speech", "beginRefinement", "speechFailed"}, CallsAre({way} \cup fs),
           way = "speech" => speech'.phase = speech.phase,
           way # "speech" => speech.started /\ speech.phase # "Idle" /\ speech'.phase = "Idle",
           way = "beginRefinement" => state = "Stopping" /\ microphone = "Off",
           speech'.stopped /\ speech'.phase # "Idle" => speech'.phase = "Stopping" /\ microphone = "Off",
           UNCHANGED <<state, runVars, review, text, microphoneVars, listening, media,
                       refinementVars, deliveryVars, awaited, pending>>
    PROVE  Inv'
<1>1. /\ state' = state /\ settings' = settings /\ selection' = selection /\ edits' = edits
      /\ review' = review /\ text' = text /\ microphone' = microphone /\ audio' = audio /\ held' = held
      /\ listening' = listening /\ media' = media /\ refining' = refining
      /\ refiners' = refiners /\ job' = job
      /\ completing' = completing /\ unanswered' = unanswered /\ delivered' = delivered
      /\ awaited' = awaited /\ pending' = pending
  BY DEF runVars, microphoneVars, refinementVars, deliveryVars
<1>2. TypeOK' /\ Single(calls)' /\ OnTop(calls)' /\ (state \in Active => settings)'
  BY <1>1 DEF CallsAre, Inv, TypeOK, Active
<1>3. way # "speech" => state \in Live /\ speech.phase = state
  BY DEF Inv, TypeOK, Speeches, SpeechFits, Live
<1>4. FramesFit'
  <2> SUFFICES ASSUME NEW f \in FramesOf(calls)' PROVE FrameFits(f)'
    BY DEF FramesFit
  <2>1. CASE f = way
    BY <2>1, <1>1, <1>3 DEF FrameFits, StartFrames, GoneFrames, SpeechGone
  <2>2. CASE f \in fs
    <3>1. FrameFits(f)
      BY <2>2 DEF Inv, FramesFit
    <3>2. f \in StartFrames \cup GoneFrames => speech'.phase = speech.phase
      BY <3>1 DEF FrameFits, SpeechGone
    <3> QED BY <3>1, <3>2, <1>1 DEF FrameFits, SpeechGone, followingUp
  <2> QED BY <2>1, <2>2 DEF CallsAre
<1>5. PendingFits' /\ RefinementFits' /\ DeliveryFits'
  <2>1. "speech" \notin OnlyOne
    BY DEF OnlyOne, StartFrames, GoneFrames
  <2>2. way = "speech" => FramesOf(calls)' \cap OnlyOne \subseteq FramesOf(calls)
    BY <2>1 DEF CallsAre
  <2>3. FramesOf(calls) \cap OnlyOne = {} /\ way = "speech" => FramesOf(calls)' \cap OnlyOne = {}
    BY <2>2, <2>1
  <2>4. "deliver" \in FramesOf(calls)' => "deliver" \in FramesOf(calls)
    BY DEF CallsAre
  <2> QED BY <1>1, <1>3, <2>3, <2>4 DEF Inv, PendingFits, RefinementFits, DeliveryFits, Live
<1>6. MicrophoneFits'
  <2>1. "announced" \in FramesOf(calls) => "announced" \in FramesOf(calls)'
    BY DEF CallsAre
  <2> QED BY <1>1, <2>1 DEF Inv, MicrophoneFits, Told
<1>7. SpeechFits'
  <2>1. way = "speech" \/ FramesOf(calls)' \cap GoneFrames # {}
    BY DEF CallsAre, GoneFrames
  <2>2. way = "speech" /\ FramesOf(calls) \cap GoneFrames # {} => FramesOf(calls)' \cap GoneFrames # {}
    BY DEF CallsAre, GoneFrames
  <2> QED BY <1>1, <2>1, <2>2 DEF Inv, SpeechFits
<1>8. ReviewFits'
  <2>1. "startFollowUp" \in FramesOf(calls) => "startFollowUp" \in FramesOf(calls)'
    BY DEF CallsAre
  <2> QED BY <1>1, <2>1 DEF Inv, ReviewFits, followingUp, Active
<1> QED BY <1>2, <1>4, <1>5, <1>6, <1>7, <1>8 DEF Inv

LEMMA ProceedFits ==
    ASSUME Inv, Proceed
    PROVE  Inv'
<1>1. Running("proceed") /\ GoOn(<<"speech">>)
      /\ speech' = [speech EXCEPT !.stopped = (speech.phase = "Stopping")]
  BY DEF Proceed
<1>2. FrameFits("proceed") /\ FramesOf(calls) = {"proceed"} \cup FramesOf(Tail(calls))
  BY <1>1, Runs
<1>3. "speech" \in Frames /\ "speech" \notin OnlyOne
  BY DEF Frames, OnlyOne, StartFrames, GoneFrames
<1>4. CallsAre({"speech"} \cup FramesOf(Tail(calls)))
  BY <1>1, <1>3, WentOnWith
<1>5. microphone = "Off"
  BY <1>2 DEF FrameFits
<1>6. /\ speech' \in Speeches /\ speech'.phase = speech.phase /\ speech'.started = speech.started
      /\ speech'.stopped => speech.phase = "Stopping"
  BY <1>1 DEF Inv, TypeOK, Speeches
<1>7. UNCHANGED <<state, runVars, review, text, microphoneVars, listening, media,
                  refinementVars, deliveryVars, awaited, pending>>
  BY DEF Proceed
<1> QED BY <1>2, <1>4, <1>5, <1>6, <1>7, SpeechMovesFits

(* Where the speech was started and still runs, no way on waits but its own. *)
LEMMA SpeakingFrames ==
    ASSUME Inv, speech.started, speech.phase # "Idle"
    PROVE  FramesOf(calls) \cap OnlyOne = {} /\ state = speech.phase /\ state \in Live
<1>1. state = speech.phase /\ state \in Live
  BY DEF Inv, TypeOK, Speeches, SpeechFits, Live
<1>2. ASSUME NEW f \in FramesOf(calls), f \in OnlyOne PROVE FALSE
  <2>1. FrameFits(f)
    BY DEF Inv, FramesFit
  <2> QED BY <1>1, <1>2, <2>1 DEF FrameFits, OnlyOne, SpeechGone, Live
<1> QED BY <1>1, <1>2

LEMMA SpeechEndedFits ==
    ASSUME Inv, SpeechEnded
    PROVE  Inv'
<1>1. /\ In("speech") /\ speech.phase = "Stopping" /\ speech.stopped
      /\ speech' = [speech EXCEPT !.phase = "Idle"]
      /\ calls' = <<"beginRefinement">> \o Below("speech")
  BY DEF SpeechEnded
<1>2. speech.started /\ microphone = "Off"
  BY <1>1 DEF Inv, SpeechFits
<1>3. FramesOf(calls) \cap OnlyOne = {} /\ state = "Stopping"
  BY <1>1, <1>2, SpeakingFrames
<1>4. /\ Below("speech") \in Seq(Frames) /\ Single(Below("speech")) /\ FramesOf(Below("speech")) \cap AtOnce = {}
      /\ FramesOf(Below("speech")) \subseteq FramesOf(calls)
      /\ FramesOf(calls) \subseteq {"speech"} \cup FramesOf(Below("speech"))
  BY <1>1, BelowFrames
<1>5. CallsAre({"beginRefinement"} \cup FramesOf(Below("speech")))
  <2>1. "beginRefinement" \in Frames /\ FramesOf(Below("speech")) \cap OnlyOne = {}
    BY <1>3, <1>4 DEF Frames
  <2> QED BY <1>1, <1>4, <2>1, Pushed
<1>6. speech' \in Speeches /\ speech'.phase = "Idle" /\ speech'.started = speech.started
  BY <1>1 DEF Inv, TypeOK, Speeches
<1>7. UNCHANGED <<state, runVars, review, text, microphoneVars, listening, media,
                  refinementVars, deliveryVars, awaited, pending>>
  BY DEF SpeechEnded
<1> QED BY <1>1, <1>2, <1>3, <1>4, <1>5, <1>6, <1>7, SpeechMovesFits

LEMMA SpeechFailsFits ==
    ASSUME Inv, SpeechFails
    PROVE  Inv'
<1>1. /\ In("speech") \/ Handling
      /\ speech.phase # "Idle" /\ speech.started /\ speech' = [speech EXCEPT !.phase = "Idle"]
      /\ calls' = <<"speechFailed">> \o Below("speech")
  BY DEF SpeechFails
<1>2. FramesOf(calls) \cap OnlyOne = {}
  BY <1>1, SpeakingFrames
<1>3. /\ Below("speech") \in Seq(Frames) /\ Single(Below("speech")) /\ FramesOf(Below("speech")) \cap AtOnce = {}
      /\ FramesOf(Below("speech")) \subseteq FramesOf(calls)
      /\ FramesOf(calls) \subseteq {"speech"} \cup FramesOf(Below("speech"))
  <2>1. CASE In("speech")
    BY <2>1, BelowFrames
  <2>2. CASE Handling
    <3>1. Below("speech") = calls
      BY <2>2 DEF Handling, Running, Below
    <3> QED BY <2>2, <3>1, CallFrames DEF MayCall
  <2> QED BY <1>1, <2>1, <2>2
<1>4. CallsAre({"speechFailed"} \cup FramesOf(Below("speech")))
  <2>1. "speechFailed" \in Frames /\ FramesOf(Below("speech")) \cap OnlyOne = {}
    BY <1>2, <1>3 DEF Frames
  <2> QED BY <1>1, <1>3, <2>1, Pushed
<1>5. speech' \in Speeches /\ speech'.phase = "Idle" /\ speech'.started = speech.started
  BY <1>1 DEF Inv, TypeOK, Speeches
<1>6. UNCHANGED <<state, runVars, review, text, microphoneVars, listening, media,
                  refinementVars, deliveryVars, awaited, pending>>
  BY DEF SpeechFails
<1> QED BY <1>1, <1>3, <1>4, <1>5, <1>6, SpeechMovesFits

-----------------------------------------------------------------------------
(* Starting afresh, failing, and the microphone's answers. *)

(* Where no dictation is under way, the speech rests and the microphone is   *)
(* off.                                                                      *)
LEMMA OutsideRests ==
    ASSUME Inv, state \notin Live
    PROVE  /\ microphone = "Off" /\ audio = "off" /\ SpeechRests
           /\ "popup" \notin pending /\ "target" \notin pending
<1>1. speech.phase \in {"Idle", "Starting", "Listening", "Paused", "Stopping"}
  BY DEF Inv, TypeOK, Speeches
<1> QED BY <1>1 DEF Inv, MicrophoneFits, SpeechFits, SpeechGone, SpeechRests, PendingFits, Live

(* While the session listens or is paused, its speech does, unless it has    *)
(* just failed; and no walk waits.                                           *)
LEMMA HearingFrames ==
    ASSUME Inv, state \in {"Listening", "Paused"}, ~Running("speechFailed")
    PROVE  /\ speech.phase = state /\ ~speech.stopped
           /\ FramesOf(calls) \cap (WalkGuarded \cup GoneFrames) = {}
           /\ "popup" \notin pending /\ "target" \notin pending
<1>1. ASSUME NEW f \in FramesOf(calls), f \in WalkGuarded \cup GoneFrames PROVE FALSE
  <2>1. FrameFits(f)
    BY DEF Inv, FramesFit
  <2>2. f = "speechFailed"
    BY <1>1, <2>1 DEF FrameFits, WalkGuarded, GoneFrames
  <2>3. PICK i \in DOMAIN calls : calls[i] = "speechFailed"
    BY <2>2 DEF FramesOf
  <2>4. i = 1
    BY <2>3 DEF Inv, OnTop, AtOnce
  <2> QED BY <2>3, <2>4 DEF Running, Inv, TypeOK
<1>2. speech.phase = state
  BY <1>1 DEF Inv, SpeechFits, Live
<1>3. ~speech.stopped
  BY <1>2 DEF Inv, SpeechFits
<1>4. "popup" \notin pending /\ "target" \notin pending
  BY DEF Inv, PendingFits
<1> QED BY <1>1, <1>2, <1>3, <1>4

(* While the session's only way on waits, nothing refines and no popup is    *)
(* awaited.                                                                  *)
LEMMA OnlyWayOn ==
    ASSUME Inv, NEW f \in OnlyOne, Running(f)
    PROVE  /\ job = "none" /\ "popup" \notin pending /\ "target" \notin pending
           /\ FramesOf(Tail(calls)) \cap OnlyOne = {} /\ FramesOf(Tail(calls)) \cap WalkGuarded = {}
<1>1. f \in FramesOf(calls) /\ FramesOf(Tail(calls)) \cap OnlyOne = {}
  BY Runs
<1>2. WalkGuarded \subseteq OnlyOne
  BY DEF WalkGuarded, OnlyOne, GoneFrames
<1> QED BY <1>1, <1>2 DEF Inv, RefinementFits, PendingFits

LEMMA StartSessionFits ==
    ASSUME Inv, NEW stack \in Seq(Frames), Single(stack), FramesOf(stack) \cap AtOnce = {},
           StartSessionOn(stack)
    PROVE  Inv'
<1>1. /\ mayStart /\ state \notin Live
  BY DEF StartSessionOn, mayStart, Live
<1>2. microphone = "Off" /\ audio = "off"
  BY <1>1, OutsideRests
<1>3. "started" \in Frames \ AtOnce
  BY DEF Frames, AtOnce
<1>4. MovedOn("Starting", {"started"})
  BY <1>3, MovesOnWith DEF StartSessionOn, Inv
<1>5. state' = "Starting" /\ awaited' = FALSE /\ pending' = {} /\ calls' \in Seq(Frames)
  BY <1>4 DEF MovedOn
<1>6. /\ speech' \in Speeches /\ speech'.phase = "Starting" /\ ~speech'.started /\ ~speech'.stopped
  BY DEF StartSessionOn, NoSpeech, Speeches
<1>7. /\ completing' = FALSE /\ settings' = TRUE /\ selection' = FALSE /\ refining' = FALSE
      /\ refiners' = 0 /\ job' = "none" /\ delivered' = FALSE
      /\ review' = review /\ edits' = edits /\ text' = text /\ microphone' = microphone
      /\ audio' = audio /\ held' = held /\ listening' = listening /\ media' = media
      /\ unanswered' = unanswered
  BY DEF StartSessionOn, microphoneVars
<1>8. unanswered < MaxUnanswered /\ review # "up"
  BY <1>1, SessionBoundsAssumption DEF mayStart, Inv, DeliveryFits, ReviewFits, followingUp
<1>9. TypeOK'
  <2>1. refiners' \in 0..Refiners
    BY <1>7, RefinersAssumption
  <2>2. /\ completing' \in BOOLEAN /\ settings' \in BOOLEAN /\ selection' \in BOOLEAN
        /\ refining' \in BOOLEAN /\ delivered' \in BOOLEAN /\ awaited' \in BOOLEAN
    BY <1>5, <1>7
  <2>3. /\ review' = review /\ edits' = edits /\ text' = text /\ microphone' = microphone
        /\ audio' = audio /\ held' = held /\ listening' = listening /\ media' = media
        /\ unanswered' = unanswered /\ job' = "none"
    BY <1>7
  <2>4. state' \in States /\ pending' \subseteq Callbacks
    BY <1>5 DEF States
  <2> QED BY <1>5, <1>6, <2>1, <2>2, <2>3, <2>4 DEF Inv, TypeOK
<1>10. MicrophoneFits'
  BY <1>2, <1>4, <1>5, <1>7 DEF MicrophoneFits, MovedOn
<1>11. SpeechFits' /\ RefinementFits'
  BY <1>5, <1>6, <1>7 DEF SpeechFits, RefinementFits
<1>12. ReviewFits' /\ DeliveryFits'
  BY <1>5, <1>6, <1>7, <1>8 DEF ReviewFits, DeliveryFits, followingUp, Active
<1>13. FrameFits("started")'
  BY <1>2, <1>5, <1>6, <1>7 DEF FrameFits, StartFrames, GoneFrames
<1> QED BY <1>4, <1>7, <1>9, <1>10, <1>11, <1>12, <1>13, MovedOnFits

LEMMA StartFits ==
    ASSUME Inv, startSession \/ StartFollowUp
    PROVE  Inv'
<1>1. CASE startSession
  BY <1>1, CallFrames, StartSessionFits DEF startSession
<1>2. CASE StartFollowUp
  <2>1. Running("startFollowUp") /\ StartSessionOn(Tail(calls))
    BY <1>2 DEF StartFollowUp
  <2> QED BY <2>1, Runs, StartSessionFits
<1> QED BY <1>1, <1>2

LEMMA FailStartupFits ==
    ASSUME Inv, FailStartup
    PROVE  Inv'
<1>1. Running("failStartup") /\ FailSessionWith(selection, edits, refining, Tail(calls))
      /\ UNCHANGED <<text, listening, refiners, deliveryVars>> /\ speech' = speech /\ job' = job
  BY DEF FailStartup, failSession
<1>2. FrameFits("failStartup") /\ Tail(calls) \in Seq(Frames) /\ Single(Tail(calls))
      /\ FramesOf(Tail(calls)) \cap AtOnce = {}
  BY <1>1, Runs
<1>3. /\ job = "none" /\ "popup" \notin pending /\ FramesOf(Tail(calls)) \cap WalkGuarded = {}
  BY <1>1, OnlyWayOn DEF OnlyOne, GoneFrames
<1>4. state = "Starting" /\ SpeechGone
  BY <1>2 DEF FrameFits, GoneFrames
<1>5. SpeechRests' /\ speech' \in Speeches
  BY <1>1, <1>4 DEF SpeechRests, SpeechGone, Inv, SpeechFits, TypeOK
<1>6. selection \in BOOLEAN /\ edits \in BOOLEAN /\ refining \in BOOLEAN
  BY DEF Inv, TypeOK
<1>7. state \in Live \cup {"Refining"} /\ job' = "none"
  BY <1>1, <1>3, <1>4 DEF Live
<1> QED BY <1>1, <1>2, <1>3, <1>5, <1>6, <1>7, FailedFits

(* The stop of a session that listens: the speech's stop waits for the       *)
(* microphone's.                                                             *)
LEMMA StopFromListeningFits ==
    ASSUME Inv, state = "Listening", ~Running("speechFailed"),
           calls \in Seq(Frames), FramesOf(calls) \cap AtOnce = {},
           StopFromListening(calls),
           microphone' \in {"Off", "Starting", "On", "Pausing", "Stopping"},
           audio' \in {"off", "starting", "running", "stopping"},
           (microphone' = "Off") <=> (audio' = "off"),
           UNCHANGED <<runVars, review, held, text, media, listening, refinementVars, deliveryVars>>
    PROVE  Inv'
<1>1. /\ speech.phase = "Listening" /\ ~speech.stopped
      /\ FramesOf(calls) \cap WalkGuarded = {} /\ "popup" \notin pending
  BY HearingFrames
<1>2. "stopMicrophone" \in Frames \ AtOnce
  BY DEF Frames, AtOnce
<1>3. MovedOn("Stopping", {"stopMicrophone"})
  BY <1>1, <1>2, MovesOnWith DEF StopFromListening, Inv
<1>4. state' = "Stopping" /\ awaited' = FALSE /\ pending' = {} /\ calls' \in Seq(Frames)
  BY <1>3 DEF MovedOn
<1>5. /\ speech' \in Speeches /\ speech'.phase = "Stopping" /\ speech'.started = speech.started
      /\ ~speech'.stopped
  BY <1>1 DEF StopFromListening, StopsSpeech, Inv, TypeOK, Speeches
<1>6. /\ settings' = settings /\ selection' = selection /\ edits' = edits
      /\ review' = review /\ text' = text /\ held' = held
      /\ listening' = listening /\ media' = media /\ refining' = refining
      /\ refiners' = refiners /\ job' = job
      /\ completing' = completing /\ unanswered' = unanswered /\ delivered' = delivered
  BY DEF runVars, refinementVars, deliveryVars
<1>7. TypeOK'
  <2>1. state' \in States /\ pending' \subseteq Callbacks /\ awaited' \in BOOLEAN
    BY <1>4 DEF States
  <2> QED BY <1>4, <1>5, <1>6, <2>1 DEF Inv, TypeOK
<1>8. MicrophoneFits'
  BY <1>3, <1>4 DEF MicrophoneFits, MovedOn
<1>9. SpeechFits' /\ RefinementFits' /\ DeliveryFits'
  BY <1>1, <1>4, <1>5, <1>6 DEF Inv, SpeechFits, RefinementFits, DeliveryFits
<1>10. ReviewFits' /\ settings'
  BY <1>4, <1>6 DEF Inv, ReviewFits, followingUp, Active
<1>11. FrameFits("stopMicrophone")'
  BY DEF FrameFits, StartFrames, GoneFrames
<1> QED BY <1>3, <1>7, <1>8, <1>9, <1>10, <1>11, MovedOnFits

LEMMA StopListeningFits ==
    ASSUME Inv, StopListening
    PROVE  Inv'
<1>1. MayCall /\ state = "Listening" /\ StopFromListening(calls)
  BY DEF StopListening
<1>2. ~Running("speechFailed")
  BY <1>1 DEF MayCall, Free, Handling, Running
<1>3. /\ microphone' \in {"Off", "Starting", "On", "Pausing", "Stopping"}
      /\ audio' \in {"off", "starting", "running", "stopping"}
      /\ (microphone' = "Off") <=> (audio' = "off")
      /\ UNCHANGED <<runVars, review, held, text, media, listening, refinementVars, deliveryVars>>
  BY DEF StopListening, microphoneVars, Inv, TypeOK, MicrophoneFits
<1>4. calls \in Seq(Frames) /\ FramesOf(calls) \cap AtOnce = {}
  BY <1>1, CallFrames
<1> QED BY <1>1, <1>2, <1>3, <1>4, StopFromListeningFits

LEMMA microphoneFailedFits ==
    ASSUME Inv, microphoneFailed
    PROVE  Inv'
<1>1. Free /\ microphone # "Off"
  BY DEF microphoneFailed, Inv, MicrophoneFits
<1>2. /\ calls \in Seq(Frames) /\ Single(calls) /\ FramesOf(calls) = {}
      /\ "popup" \notin pending /\ job = "none" /\ state \in {"Starting", "Listening", "Stopping"}
  BY <1>1, FreeFrames DEF Inv, PendingFits, RefinementFits, MicrophoneFits
<1>3. UNCHANGED <<text, listening, refiners, deliveryVars>> /\ job' = job
  BY DEF microphoneFailed
<1>4. CASE speech' = NoSpeech /\ failSession(calls)
  <2>1. SpeechRests' /\ speech' \in Speeches
    BY <1>4 DEF SpeechRests, SpeechGone, NoSpeech, Speeches
  <2>2. /\ selection \in BOOLEAN /\ edits \in BOOLEAN /\ refining \in BOOLEAN
        /\ FramesOf(calls) \cap AtOnce = {} /\ FramesOf(calls) \cap WalkGuarded = {}
    BY <1>2 DEF Inv, TypeOK
  <2>3. FailSessionWith(selection, edits, refining, calls) /\ state \in Live \cup {"Refining"}
    BY <1>2, <1>4 DEF failSession, Live
  <2> QED BY <1>2, <1>3, <2>1, <2>2, <2>3, FailedFits
<1>5. CASE /\ state = "Listening"
           /\ microphone' = "Off" /\ audio' = "off"
           /\ StopFromListening(calls)
           /\ UNCHANGED <<runVars, review, held, media, refining>>
  <2>1. UNCHANGED <<runVars, review, held, text, media, listening, refinementVars, deliveryVars>>
    BY <1>3, <1>5 DEF refinementVars
  <2>2. ~Running("speechFailed") /\ FramesOf(calls) \cap AtOnce = {}
    BY <1>1, <1>2 DEF Running, Free
  <2> QED BY <1>2, <1>5, <2>1, <2>2, StopFromListeningFits
<1> QED BY <1>4, <1>5 DEF microphoneFailed

LEMMA microphoneStartedFits ==
    ASSUME Inv, microphoneStarted
    PROVE  Inv'
<1>1. /\ Free /\ audio = "starting" /\ audio' = "running" /\ microphone # "Off"
  BY DEF microphoneStarted, Inv, MicrophoneFits
<1>2. /\ calls \in Seq(Frames) /\ Single(calls) /\ FramesOf(calls) = {}
      /\ "popup" \notin pending /\ state \in {"Starting", "Listening", "Stopping"}
      /\ speech.phase = state /\ (state = "Starting" => speech.started)
      /\ ~(speech.stopped /\ speech.phase # "Idle")
  BY <1>1, FreeFrames DEF Inv, PendingFits, MicrophoneFits, SpeechFits, Live
<1>3. /\ settings' = settings /\ selection' = selection /\ edits' = edits
      /\ review' = review /\ text' = text /\ held' = held
      /\ listening' = listening /\ media' = media /\ refining' = refining
      /\ refiners' = refiners /\ job' = job
      /\ completing' = completing /\ unanswered' = unanswered /\ delivered' = delivered
  BY DEF microphoneStarted, runVars, refinementVars, deliveryVars
<1>4. CASE microphone = "Starting" /\ state = "Starting"
  <2>1. /\ microphone' = "On" /\ setState("Listening", <<>>, calls)
        /\ speech' = [speech EXCEPT !.phase = "Listening", !.asked = FALSE]
    BY <1>2, <1>4 DEF microphoneStarted
  <2>2. FramesOf(calls) \cap AtOnce = {} /\ FramesOf(calls) \cap WalkGuarded = {}
    BY <1>2
  <2>3. MovedOn("Listening", {})
    BY <1>2, <2>1, <2>2, MovesOnAlone DEF Inv
  <2>4. state' = "Listening" /\ awaited' = FALSE /\ pending' = {} /\ calls' \in Seq(Frames)
    BY <2>3 DEF MovedOn
  <2>5. /\ speech' \in Speeches /\ speech'.phase = "Listening" /\ speech'.started = speech.started
        /\ speech'.stopped = speech.stopped
    BY <2>1 DEF Inv, TypeOK, Speeches
  <2>6. TypeOK'
    <3>1. state' \in States /\ pending' \subseteq Callbacks /\ awaited' \in BOOLEAN
      BY <2>4 DEF States
    <3> QED BY <1>1, <1>3, <2>1, <2>4, <2>5, <3>1 DEF Inv, TypeOK
  <2>7. MicrophoneFits'
    BY <1>1, <2>1, <2>3, <2>4 DEF MicrophoneFits, MovedOn
  <2>8. SpeechFits' /\ RefinementFits' /\ DeliveryFits'
    BY <1>2, <1>3, <1>4, <2>4, <2>5 DEF Inv, SpeechFits, RefinementFits, DeliveryFits
  <2>9. ReviewFits' /\ settings'
    BY <1>2, <1>3, <1>4, <2>4 DEF Inv, ReviewFits, followingUp, Active
  <2> QED BY <2>3, <2>6, <2>7, <2>8, <2>9, MovedOnFits
<1>5. CASE ~(microphone = "Starting" /\ state = "Starting")
  <2>1. /\ microphone' \in {"On", microphone} /\ speech' = speech /\ state' = state /\ awaited' = awaited
        /\ pending' = pending /\ calls' = calls
    BY <1>5 DEF microphoneStarted
  <2>2. microphone' # "Off"
    BY <1>1, <2>1
  <2>3. TypeOK' /\ Single(calls)' /\ OnTop(calls)' /\ (state \in Active => settings)'
    BY <1>1, <1>3, <2>1 DEF Inv, TypeOK, Active
  <2>4. FramesFit'
    BY <1>2, <2>1 DEF FramesFit
  <2>5. PendingFits' /\ RefinementFits' /\ DeliveryFits'
    BY <1>1, <1>3, <2>1 DEF Inv, PendingFits, RefinementFits, DeliveryFits
  <2>6. MicrophoneFits'
    <3>1. Holds(microphone, state) /\ Holds(microphone', state)
      BY <1>1, <2>2 DEF Holds
    <3>2. Told => Told'
      BY <1>3, <2>1, <3>1 DEF Told
    <3> QED BY <1>1, <1>2, <2>1, <2>2, <3>2 DEF Inv, MicrophoneFits
  <2>7. SpeechFits'
    BY <1>2, <2>1 DEF Inv, SpeechFits
  <2>8. ReviewFits'
    BY <1>3, <2>1 DEF Inv, ReviewFits, followingUp, Active
  <2> QED BY <2>3, <2>4, <2>5, <2>6, <2>7, <2>8 DEF Inv
<1> QED BY <1>4, <1>5

(* The microphone stops, or is told to, and the session stays where it is:   *)
(* nothing that waits needs it on.                                           *)
LEMMA MicrophoneGoesFits ==
    ASSUME Inv, NEW fs, fs \subseteq FramesOf(calls), FramesOf(calls) \subseteq {"stopMicrophone"} \cup fs,
           NEW way \in {{}, {"speech"}}, CallsAre(way \cup fs),
           microphone' \in {"Off", "Pausing", "Stopping"}, audio' \in {"off", "starting", "running", "stopping"},
           (microphone' = "Off") <=> (audio' = "off"),
           \/ microphone' = "Off" /\ held' = Holds("Off", state)
           \/ microphone # "Off" /\ microphone' # "Off" /\ held' = held,
           speech' \in Speeches, speech'.phase = speech.phase, speech'.started = speech.started,
           \/ speech'.stopped = speech.stopped
           \/ microphone' = "Off" /\ speech'.stopped = (speech.phase = "Stopping"),
           media' \in BOOLEAN,
           UNCHANGED <<state, runVars, review, text, listening, refinementVars, deliveryVars,
                       awaited, pending>>
    PROVE  Inv'
<1>1. /\ state' = state /\ settings' = settings /\ selection' = selection /\ edits' = edits
      /\ review' = review /\ text' = text
      /\ listening' = listening /\ refining' = refining
      /\ refiners' = refiners /\ job' = job
      /\ completing' = completing /\ unanswered' = unanswered /\ delivered' = delivered
      /\ awaited' = awaited /\ pending' = pending
  BY DEF runVars, refinementVars, deliveryVars
<1>2. /\ "announced" \in FramesOf(calls) => "announced" \in FramesOf(calls)'
      /\ "startFollowUp" \in FramesOf(calls) => "startFollowUp" \in FramesOf(calls)'
      /\ FramesOf(calls)' \subseteq {"speech"} \cup FramesOf(calls)
      /\ FramesOf(calls) \cap GoneFrames # {} => FramesOf(calls)' \cap GoneFrames # {}
      /\ FramesOf(calls) \cap OnlyOne = {} => FramesOf(calls)' \cap OnlyOne = {}
      /\ "deliver" \in FramesOf(calls)' => "deliver" \in FramesOf(calls)
  BY DEF CallsAre, GoneFrames, OnlyOne, StartFrames
<1>3. held' \in BOOLEAN
  BY DEF Inv, TypeOK, Holds
<1>4. TypeOK' /\ Single(calls)' /\ OnTop(calls)' /\ (state \in Active => settings)'
  BY <1>1, <1>3 DEF CallsAre, Inv, TypeOK, Active
<1>5. microphone = "Off" => microphone' = "Off"
  OBVIOUS
<1>6. FramesFit'
  <2> SUFFICES ASSUME NEW f \in FramesOf(calls)' PROVE FrameFits(f)'
    BY DEF FramesFit
  <2>1. CASE f = "speech"
    BY <2>1 DEF FrameFits, StartFrames, GoneFrames
  <2>2. CASE f \in FramesOf(calls)
    BY <2>2, <1>1, <1>5 DEF Inv, FramesFit, FrameFits, StartFrames, GoneFrames, SpeechGone, followingUp
  <2> QED BY <2>1, <2>2, <1>2
<1>7. PendingFits' /\ RefinementFits' /\ DeliveryFits'
  BY <1>1, <1>2, <1>5 DEF Inv, PendingFits, RefinementFits, DeliveryFits
<1>8. MicrophoneFits'
  <2>1. Told => Told'
    <3>1. CASE microphone' = "Off" /\ held' = Holds("Off", state)
      <4>1. held' <=> Holds(microphone', state)
        BY <3>1, Zenon
      <4> QED BY <4>1, <1>1 DEF Told
    <3>2. CASE microphone # "Off" /\ microphone' # "Off" /\ held' = held
      <4>1. Holds(microphone, state) /\ Holds(microphone', state)
        BY <3>2 DEF Holds
      <4> QED BY <3>2, <4>1, <1>1 DEF Told
    <3> QED BY <3>1, <3>2
  <2> QED BY <1>1, <1>2, <2>1 DEF Inv, MicrophoneFits
<1>9. SpeechFits'
  BY <1>1, <1>2, <1>5 DEF Inv, SpeechFits
<1>10. ReviewFits'
  BY <1>1, <1>2 DEF Inv, ReviewFits, followingUp, Active
<1> QED BY <1>4, <1>6, <1>7, <1>8, <1>9, <1>10 DEF Inv

(* The microphone stopped as was asked. *)
LEMMA StoppedFits ==
    ASSUME Inv, NEW was, NEW stack \in Seq(Frames), Single(stack), FramesOf(stack) \cap AtOnce = {},
           FramesOf(stack) \subseteq FramesOf(calls), FramesOf(calls) \subseteq {"stopMicrophone"} \cup FramesOf(stack),
           ~Running("speechFailed"), StoppedAs(was, stack),
           UNCHANGED <<runVars, review, text, listening, refinementVars, deliveryVars>>
    PROVE  Inv'
<1>1. /\ settings' = settings /\ selection' = selection /\ edits' = edits
      /\ review' = review /\ text' = text /\ microphone' = "Off" /\ audio' = "off"
      /\ held' = Holds("Off", state)
      /\ listening' = listening /\ refining' = refining
      /\ refiners' = refiners /\ job' = job
      /\ completing' = completing /\ unanswered' = unanswered /\ delivered' = delivered
  BY DEF StoppedAs, runVars, refinementVars, deliveryVars
<1>2. CASE was = "Pausing" /\ state = "Listening"
  <2>1. /\ speech' = (IF speech.phase = "Listening" THEN [speech EXCEPT !.phase = "Paused"] ELSE speech)
        /\ setState("Paused", <<"proceed">>, stack) /\ media' = media
    BY <1>2 DEF StoppedAs
  <2>2. /\ speech.phase = "Listening" /\ ~speech.stopped /\ "popup" \notin pending
        /\ FramesOf(stack) \cap WalkGuarded = {}
    BY <1>2, HearingFrames
  <2>3. "proceed" \in Frames \ AtOnce
    BY DEF Frames, AtOnce
  <2>4. MovedOn("Paused", {"proceed"})
    BY <2>1, <2>2, <2>3, MovesOnWith DEF Inv
  <2>5. state' = "Paused" /\ awaited' = FALSE /\ pending' = {} /\ calls' \in Seq(Frames)
    BY <2>4 DEF MovedOn
  <2>6. /\ speech' \in Speeches /\ speech'.phase = "Paused" /\ speech'.started = speech.started
        /\ speech'.stopped = speech.stopped
    BY <2>1, <2>2 DEF Inv, TypeOK, Speeches
  <2>7. TypeOK'
    <3>1. state' \in States /\ pending' \subseteq Callbacks /\ awaited' \in BOOLEAN /\ held' \in BOOLEAN
      BY <1>1, <2>5 DEF States, Holds
    <3> QED BY <1>1, <2>1, <2>5, <2>6, <3>1 DEF Inv, TypeOK
  <2>8. MicrophoneFits'
    BY <1>1, <2>4, <2>5 DEF MicrophoneFits, MovedOn
  <2>9. SpeechFits' /\ RefinementFits' /\ DeliveryFits'
    BY <1>1, <1>2, <2>2, <2>5, <2>6 DEF Inv, SpeechFits, RefinementFits, DeliveryFits
  <2>10. ReviewFits' /\ settings'
    BY <1>1, <1>2, <2>5 DEF Inv, ReviewFits, followingUp, Active
  <2>11. FrameFits("proceed")'
    BY <1>1, <2>5 DEF FrameFits, StartFrames, GoneFrames
  <2> QED BY <2>4, <2>7, <2>8, <2>9, <2>10, <2>11, MovedOnFits
<1>3. CASE was = "Stopping" /\ state = "Stopping"
  <2>1. /\ speech' = [speech EXCEPT !.stopped = (speech.phase = "Stopping")] /\ media' = FALSE
        /\ calls' = <<"speech">> \o stack /\ UNCHANGED <<state, awaited, pending>>
    BY <1>3 DEF StoppedAs
  <2>2. "speech" \in Frames /\ "speech" \notin OnlyOne
    BY DEF Frames, OnlyOne, StartFrames, GoneFrames
  <2>3. CallsAre({"speech"} \cup FramesOf(stack))
    BY <2>1, <2>2, Pushed
  <2>4. /\ speech' \in Speeches /\ speech'.phase = speech.phase /\ speech'.started = speech.started
        /\ speech'.stopped = (speech.phase = "Stopping")
    BY <2>1 DEF Inv, TypeOK, Speeches
  <2>5. media' \in BOOLEAN
    BY <2>1
  <2> QED BY <1>1, <2>1, <2>3, <2>4, <2>5, MicrophoneGoesFits
<1>4. CASE ~(was = "Pausing" /\ state = "Listening") /\ ~(was = "Stopping" /\ state = "Stopping")
  <2>1. calls' = stack /\ UNCHANGED <<state, media, speech, awaited, pending>>
    BY <1>4 DEF StoppedAs
  <2>2. CallsAre({} \cup FramesOf(stack))
    BY <2>1 DEF CallsAre, OnTop, FramesOf
  <2>3. speech' \in Speeches /\ media' \in BOOLEAN
    BY <2>1 DEF Inv, TypeOK
  <2> QED BY <1>1, <2>1, <2>2, <2>3, MicrophoneGoesFits
<1> QED BY <1>2, <1>3, <1>4

LEMMA StopMicrophoneToFits ==
    ASSUME Inv, NEW stopping \in {"Pausing", "Stopping"},
           NEW stack \in Seq(Frames), Single(stack), FramesOf(stack) \cap AtOnce = {},
           FramesOf(stack) \subseteq FramesOf(calls), FramesOf(calls) \subseteq {"stopMicrophone"} \cup FramesOf(stack),
           ~Running("speechFailed"), StopMicrophoneTo(stopping, stack),
           UNCHANGED <<runVars, review, text, listening, refinementVars, deliveryVars>>
    PROVE  Inv'
<1>1. CASE microphone = "Off"
  BY <1>1, StoppedFits DEF StopMicrophoneTo
<1>2. CASE microphone # "Off"
  <2>1. /\ microphone' = stopping
        /\ audio' = (IF microphone \in {"Starting", "On"} THEN "stopping" ELSE audio)
        /\ calls' = stack /\ UNCHANGED <<state, held, media, speech, awaited, pending>>
    BY <1>2 DEF StopMicrophoneTo
  <2>2. CallsAre({} \cup FramesOf(stack))
    BY <2>1 DEF CallsAre, OnTop, FramesOf
  <2>3. /\ speech' \in Speeches /\ media' \in BOOLEAN /\ audio' \in {"off", "starting", "running", "stopping"}
        /\ audio' # "off" /\ microphone' # "Off"
    BY <1>2, <2>1 DEF Inv, TypeOK, MicrophoneFits
  <2> QED BY <1>2, <2>1, <2>2, <2>3, MicrophoneGoesFits
<1> QED BY <1>1, <1>2

LEMMA MicrophoneStopsFits ==
    ASSUME Inv, StopMicrophone \/ microphoneStopped \/ pause
    PROVE  Inv'
<1>1. CASE StopMicrophone
  <2>1. Running("stopMicrophone") /\ StopMicrophoneTo("Stopping", Tail(calls))
        /\ UNCHANGED <<runVars, review, text, listening, refinementVars, deliveryVars>>
    BY <1>1 DEF StopMicrophone
  <2>2. ~Running("speechFailed")
    BY <2>1 DEF Running
  <2>3. /\ Tail(calls) \in Seq(Frames) /\ Single(Tail(calls)) /\ FramesOf(Tail(calls)) \cap AtOnce = {}
        /\ FramesOf(Tail(calls)) \subseteq FramesOf(calls)
        /\ FramesOf(calls) \subseteq {"stopMicrophone"} \cup FramesOf(Tail(calls))
    BY <2>1, Runs
  <2> QED BY <2>1, <2>2, <2>3, StopMicrophoneToFits
<1>2. CASE microphoneStopped
  <2>1. Free /\ StoppedAs(microphone, calls)
        /\ UNCHANGED <<runVars, review, text, listening, refinementVars, deliveryVars>>
    BY <1>2 DEF microphoneStopped
  <2>2. ~Running("speechFailed")
    BY <2>1 DEF Running, Free
  <2> QED BY <2>1, <2>2, FreeFrames, StoppedFits
<1>3. CASE pause
  <2>1. MayCall /\ StopMicrophoneTo("Pausing", calls)
        /\ UNCHANGED <<runVars, review, text, listening, refinementVars, deliveryVars>>
    BY <1>3 DEF pause
  <2>2. ~Running("speechFailed")
    BY <2>1 DEF MayCall, Free, Handling, Running
  <2> QED BY <2>1, <2>2, CallFrames, StopMicrophoneToFits
<1> QED BY <1>1, <1>2, <1>3

-----------------------------------------------------------------------------
(* Stop, cancel, quit and resume. *)

LEMMA PausedFits ==
    ASSUME Inv, StopPaused \/ resume
    PROVE  Inv'
<1>1. MayCall /\ state = "Paused"
  BY DEF StopPaused, resume
<1>2. /\ calls \in Seq(Frames) /\ Single(calls) /\ FramesOf(calls) \cap AtOnce = {}
      /\ ~Running("speechFailed") /\ microphone = "Off"
  BY <1>1, CallFrames DEF MayCall, Free, Handling, Running, Inv, MicrophoneFits
<1>3. /\ speech.phase = "Paused" /\ ~speech.stopped
      /\ FramesOf(calls) \cap WalkGuarded = {} /\ "popup" \notin pending
  BY <1>1, <1>2, HearingFrames
<1>4. /\ settings' = settings /\ selection' = selection /\ edits' = edits
      /\ review' = review /\ text' = text /\ microphone' = microphone /\ audio' = audio /\ held' = held
      /\ listening' = listening /\ media' = media /\ refining' = refining
      /\ refiners' = refiners /\ job' = job
      /\ completing' = completing /\ unanswered' = unanswered /\ delivered' = delivered
  BY DEF StopPaused, resume, runVars, microphoneVars, refinementVars, deliveryVars
<1>5. PICK next \in {"Stopping", "Listening"} :
          /\ speech' = [speech EXCEPT !.phase = next]
          /\ \/ next = "Stopping" /\ setState(next, <<"resumePausedMedia", "proceed">>, calls)
             \/ next = "Listening" /\ setState(next, <<"resumed">>, calls)
  <2>1. CASE StopPaused
    BY <1>3, <2>1 DEF StopPaused, StopsSpeech
  <2>2. CASE resume
    BY <1>3, <2>2 DEF resume
  <2> QED BY <2>1, <2>2
<1>6. /\ "resumePausedMedia" \in Frames \ AtOnce /\ "resumePausedMedia" \notin OnlyOne
      /\ "proceed" \in Frames \ AtOnce /\ "resumed" \in Frames \ AtOnce
  BY DEF Frames, AtOnce, OnlyOne, StartFrames, GoneFrames
<1>7. PICK fs \in {{"resumePausedMedia", "proceed"}, {"resumed"}} :
          /\ MovedOn(next, fs)
          /\ "proceed" \in fs => next = "Stopping"
          /\ "resumed" \in fs => next = "Listening"
  <2>1. CASE next = "Stopping" /\ setState(next, <<"resumePausedMedia", "proceed">>, calls)
    <3>1. MovedOn(next, {"resumePausedMedia", "proceed"})
      BY <1>2, <1>3, <1>6, <2>1, MovesOnWithTwo DEF Inv
    <3> QED BY <2>1, <3>1
  <2>2. CASE next = "Listening" /\ setState(next, <<"resumed">>, calls)
    <3>1. MovedOn(next, {"resumed"})
      BY <1>2, <1>3, <1>6, <2>2, MovesOnWith DEF Inv
    <3> QED BY <2>2, <3>1
  <2> QED BY <1>5, <2>1, <2>2
<1>8. state' = next /\ awaited' = FALSE /\ pending' = {} /\ calls' \in Seq(Frames)
  BY <1>7 DEF MovedOn
<1>9. /\ speech' \in Speeches /\ speech'.phase = next /\ speech'.started = speech.started
      /\ ~speech'.stopped
  BY <1>3, <1>5 DEF Inv, TypeOK, Speeches
<1>10. TypeOK'
  <2>1. state' \in States /\ pending' \subseteq Callbacks /\ awaited' \in BOOLEAN
    BY <1>8 DEF States
  <2> QED BY <1>4, <1>8, <1>9, <2>1 DEF Inv, TypeOK
<1>11. MicrophoneFits'
  BY <1>2, <1>4, <1>7, <1>8 DEF Inv, MicrophoneFits, MovedOn
<1>12. SpeechFits' /\ RefinementFits' /\ DeliveryFits'
  BY <1>1, <1>3, <1>4, <1>8, <1>9 DEF Inv, SpeechFits, RefinementFits, DeliveryFits
<1>13. ReviewFits' /\ settings'
  BY <1>1, <1>4, <1>8 DEF Inv, ReviewFits, followingUp, Active
<1>14. \A f \in fs : FrameFits(f)'
  BY <1>2, <1>4, <1>7, <1>8 DEF FrameFits, StartFrames, GoneFrames
<1> QED BY <1>7, <1>10, <1>11, <1>12, <1>13, <1>14, MovedOnFits

(* Nothing of the session is left: the microphone is off, the speech is new, *)
(* and what a follow-up's review needs is restored with it.                  *)
LEMMA EndSessionFits ==
    ASSUME Inv, MayCall, unanswered < MaxUnanswered,
           \/ review' = "none" /\ EndSession(FALSE, "Idle")
           \/ review' = "up" /\ EndSession(TRUE, "Reviewing")
    PROVE  Inv'
<1>1. PICK next \in {"Idle", "Reviewing"} : /\ setStateAfresh(next, <<>>, calls)
                                            /\ next = "Idle" => review' = "none"
                                            /\ next = "Reviewing" => review' = "up" /\ settings' = TRUE
  BY DEF EndSession, discard
<1>2. MovedOn(next, {})
  BY <1>1, CallFrames, MovesOnAlone DEF Inv
<1>3. state' = next /\ awaited' = FALSE /\ pending' = {} /\ calls' \in Seq(Frames)
  BY <1>2 DEF MovedOn
<1>4. /\ abortMicrophone /\ speech' = NoSpeech /\ job' = "none" /\ refining' = FALSE
      /\ completing' = FALSE /\ media' = FALSE
      /\ text' = text /\ listening' = listening /\ refiners' = refiners
      /\ unanswered' = unanswered /\ delivered' = delivered
  BY DEF EndSession, discard
<1>5. settings' \in BOOLEAN /\ selection' \in BOOLEAN /\ edits' \in BOOLEAN
  BY DEF EndSession, discard
<1>6. microphone' = "Off" /\ audio' = "off" /\ held' \in BOOLEAN
  BY <1>4 DEF Inv, MicrophoneFits, TypeOK, abortMicrophone, Holds
<1>7. /\ speech' \in Speeches /\ speech'.phase = "Idle" /\ ~speech'.started /\ ~speech'.stopped
  BY <1>4 DEF NoSpeech, Speeches
<1>8. TypeOK'
  <2>1. state' \in States /\ pending' \subseteq Callbacks /\ awaited' \in BOOLEAN
    BY <1>3 DEF States
  <2>2. completing' \in BOOLEAN /\ media' \in BOOLEAN /\ refining' \in BOOLEAN /\ review' \in {"none", "up"}
    BY <1>4
  <2> QED BY <1>3, <1>4, <1>5, <1>6, <1>7, <2>1, <2>2 DEF Inv, TypeOK
<1>9. MicrophoneFits'
  BY <1>2, <1>3, <1>6 DEF MicrophoneFits, MovedOn
<1>10. SpeechFits' /\ RefinementFits' /\ DeliveryFits'
  BY <1>3, <1>4, <1>7 DEF SpeechFits, RefinementFits, DeliveryFits, Live
<1>11. ReviewFits' /\ (next \in Active => settings')
  BY <1>1, <1>3 DEF ReviewFits, followingUp, Active
<1> QED BY <1>2, <1>8, <1>9, <1>10, <1>11, MovedOnFits

LEMMA CancelSessionFits ==
    ASSUME Inv, MayCall, state \notin {"Idle", "Delivering", "Error"}, CancelSession
    PROVE  Inv'
<1>1. unanswered < MaxUnanswered
  BY DEF Inv, DeliveryFits
<1> QED BY <1>1, EndSessionFits DEF CancelSession

LEMMA CancelFits ==
    ASSUME Inv, cancelForShutdown \/ cancel \/ StopStarting
    PROVE  Inv'
<1>1. CASE cancelForShutdown
  BY <1>1, EndSessionFits DEF cancelForShutdown
<1>2. CASE cancel
  BY <1>2, CancelSessionFits DEF cancel
<1>3. CASE StopStarting
  <2>1. MayCall /\ CancelSession /\ state \notin {"Idle", "Delivering", "Error"}
    BY <1>3 DEF StopStarting
  <2> QED BY <2>1, CancelSessionFits
<1> QED BY <1>1, <1>2, <1>3

(* The session comes to rest where it was not dictating. *)
LEMMA RestFits ==
    ASSUME Inv, state \in {"Error", "Delivering", "Refining"}, NEW next \in {"Idle", "Error"}, MovedOn(next, {}),
           settings' \in BOOLEAN, selection' \in BOOLEAN, edits' \in BOOLEAN, refining' \in BOOLEAN,
           ~followingUp, job' = "none", completing' \in BOOLEAN, ~completing',
           unanswered' \in Nat, unanswered' < MaxUnanswered,
           UNCHANGED <<review, text, microphoneVars, listening, media, speech, refiners, delivered>>
    PROVE  Inv'
<1>1. state' = next /\ awaited' = FALSE /\ pending' = {} /\ calls' \in Seq(Frames)
  BY DEF MovedOn
<1>2. /\ review' = review /\ text' = text /\ microphone' = microphone /\ audio' = audio /\ held' = held
      /\ listening' = listening /\ media' = media /\ speech' = speech /\ refiners' = refiners
      /\ delivered' = delivered
  BY DEF microphoneVars
<1>3. microphone = "Off" /\ audio = "off" /\ SpeechRests
  BY OutsideRests DEF Live
<1>4. review = "none"
  BY DEF Inv, TypeOK, ReviewFits, followingUp
<1>5. TypeOK'
  <2>1. state' \in States /\ pending' \subseteq Callbacks /\ awaited' \in BOOLEAN
    BY <1>1 DEF States
  <2>2. unanswered' \in 0..MaxUnanswered
    BY SessionBoundsAssumption
  <2> QED BY <1>1, <1>2, <2>1, <2>2 DEF Inv, TypeOK
<1>6. MicrophoneFits'
  BY <1>1, <1>2, <1>3 DEF MicrophoneFits, MovedOn
<1>7. SpeechFits' /\ RefinementFits' /\ DeliveryFits' /\ ReviewFits'
  BY <1>1, <1>2, <1>3, <1>4 DEF SpeechFits, SpeechRests, SpeechGone, RefinementFits, DeliveryFits, ReviewFits,
     followingUp, Live
<1> QED BY <1>5, <1>6, <1>7, MovedOnFits DEF Active

LEMMA DismissErrorFits ==
    ASSUME Inv, DismissError
    PROVE  Inv'
<1>1. MayCall /\ state = "Error" /\ setStateAfresh("Idle", <<>>, calls)
  BY DEF DismissError
<1>2. MovedOn("Idle", {})
  BY <1>1, CallFrames, MovesOnAlone DEF Inv
<1>3. /\ settings' = settings /\ selection' = selection /\ edits' = edits /\ refining' = refining
      /\ job' = job /\ completing' = completing /\ unanswered' = unanswered
      /\ UNCHANGED <<review, text, microphoneVars, listening, media, speech, refiners, delivered>>
  BY DEF DismissError, runVars, refinementVars, deliveryVars
<1>4. ~followingUp /\ job = "none" /\ ~completing /\ unanswered < MaxUnanswered /\ unanswered \in Nat
  BY <1>1 DEF Inv, TypeOK, ReviewFits, RefinementFits, DeliveryFits, Active
<1>5. /\ settings \in BOOLEAN /\ selection \in BOOLEAN /\ edits \in BOOLEAN /\ refining \in BOOLEAN
      /\ completing \in BOOLEAN
  BY DEF Inv, TypeOK
<1> QED BY <1>1, <1>2, <1>3, <1>4, <1>5, RestFits

LEMMA StopRefiningFits ==
    ASSUME Inv, StopRefining
    PROVE  Inv'
<1>1. MayCall /\ state = "Refining"
  BY DEF StopRefining
<1>2. CASE followingUp
  BY <1>1, <1>2, CancelSessionFits DEF StopRefining
<1>3. CASE ~followingUp
  <2> DEFINE stack == Overtake(calls, WalkGuarded)
  <2>1. /\ refining' = FALSE /\ job' = "none"
        /\ UNCHANGED <<review, text, microphoneVars, listening, media, speech, refiners, deliveryVars>>
        /\ \/ settings' = FALSE /\ selection' = FALSE /\ edits' = FALSE /\ setState("Idle", <<>>, stack)
           \/ ~edits /\ setState("Delivering", <<"deliver">>, stack) /\ UNCHANGED runVars
    BY <1>3 DEF StopRefining
  <2>2. calls \in Seq(Frames) /\ Single(calls) /\ FramesOf(calls) \cap AtOnce = {}
    BY <1>1, CallFrames
  <2>3. /\ stack \in Seq(Frames) /\ Single(stack)
        /\ FramesOf(stack) \subseteq (FramesOf(calls) \ WalkGuarded) \cup {"overtaken"}
    BY <2>2, OvertakenFrames
  <2> HIDE DEF stack
  <2>4. FramesOf(stack) \cap AtOnce = {} /\ FramesOf(stack) \cap WalkGuarded = {}
    BY <2>2, <2>3 DEF AtOnce, WalkGuarded
  <2>5. microphone = "Off" /\ SpeechRests /\ "popup" \notin pending
    BY <1>1, RefiningRests
  <2>6. review = "none"
    BY <1>1, <1>3 DEF Inv, TypeOK, ReviewFits, followingUp
  <2>7. CASE settings' = FALSE /\ selection' = FALSE /\ edits' = FALSE /\ setState("Idle", <<>>, stack)
    <3>1. MovedOn("Idle", {})
      BY <2>3, <2>4, <2>5, <2>7, MovesOnAlone DEF Inv
    <3>2. completing' = completing /\ unanswered' = unanswered /\ delivered' = delivered
      BY <2>1 DEF deliveryVars
    <3>3. ~completing /\ completing \in BOOLEAN /\ unanswered < MaxUnanswered /\ unanswered \in Nat
      BY <1>1 DEF Inv, TypeOK, DeliveryFits
    <3>4. settings' \in BOOLEAN /\ selection' \in BOOLEAN /\ edits' \in BOOLEAN /\ refining' \in BOOLEAN
      BY <2>1, <2>7
    <3>5. UNCHANGED <<review, text, microphoneVars, listening, media, speech, refiners, delivered>>
      BY <2>1, <3>2
    <3> QED BY <1>1, <1>3, <2>1, <3>1, <3>2, <3>3, <3>4, <3>5, RestFits
  <2>8. CASE ~edits /\ setState("Delivering", <<"deliver">>, stack) /\ UNCHANGED runVars
    <3>1. deliverFinal(stack)
      BY <2>1, <2>8 DEF deliverFinal
    <3>2. settings' \in BOOLEAN /\ selection' \in BOOLEAN /\ edits' \in BOOLEAN
      BY <2>8 DEF runVars, Inv, TypeOK
    <3>3. review' = "none" /\ state \in {"Stopping", "Refining", "Reviewing"}
      BY <1>1, <2>1, <2>6
    <3> QED BY <2>1, <2>3, <2>4, <2>5, <3>1, <3>2, <3>3, DeliverFinalFits
  <2> QED BY <2>1, <2>7, <2>8
<1> QED BY <1>2, <1>3

-----------------------------------------------------------------------------
(* Refinement, its reports, and the delivery. *)

(* The dictation's way on to its refinement: what was heard is refined, with *)
(* the microphone off and the speech through.                                *)
LEMMA endSpeechAfterFailureFits ==
    ASSUME Inv, endSpeechAfterFailure
    PROVE  Inv'
<1>1. Running("speechFailed")
  BY DEF endSpeechAfterFailure
<1> DEFINE stack == Tail(calls)
<1>2. /\ stack \in Seq(Frames) /\ Single(stack) /\ FramesOf(stack) \cap AtOnce = {}
      /\ FramesOf(calls) = {"speechFailed"} \cup FramesOf(stack) /\ FrameFits("speechFailed")
  BY <1>1, Runs
<1>3. /\ job = "none" /\ "popup" \notin pending /\ FramesOf(stack) \cap WalkGuarded = {}
      /\ FramesOf(stack) \cap OnlyOne = {} /\ "speechFailed" \in OnlyOne
  BY <1>1, OnlyWayOn DEF OnlyOne, GoneFrames
<1>4. SpeechGone
  BY <1>2 DEF FrameFits, GoneFrames
<1>5. /\ text' = text /\ listening' = listening /\ refiners' = refiners /\ job' = job
      /\ completing' = completing /\ unanswered' = unanswered /\ delivered' = delivered
  BY DEF endSpeechAfterFailure, deliveryVars
<1>6. /\ "resumePausedMedia" \in Frames \ AtOnce /\ "resumePausedMedia" \notin OnlyOne
      /\ "beginRefinement" \in Frames \ AtOnce /\ "beginRefinement" \in GoneFrames
  BY DEF Frames, AtOnce, OnlyOne, StartFrames, GoneFrames
<1>7. CASE text /\ hearing
  <2>1. /\ speech' = NoSpeech /\ abortMicrophone
        /\ setState("Stopping", <<"resumePausedMedia", "beginRefinement">>, stack)
        /\ UNCHANGED <<runVars, review, media, refining>>
    BY <1>7 DEF endSpeechAfterFailure
  <2>2. state \in {"Listening", "Paused"}
    BY <1>7 DEF hearing
  <2>3. MovedOn("Stopping", {"resumePausedMedia", "beginRefinement"})
    <3> HIDE DEF stack
    <3> QED BY <1>2, <1>3, <1>6, <2>1, MovesOnWithTwo DEF Inv
  <2>4. state' = "Stopping" /\ awaited' = FALSE /\ pending' = {} /\ calls' \in Seq(Frames)
        /\ "beginRefinement" \in FramesOf(calls)'
    BY <2>3 DEF MovedOn
  <2>5. microphone' = "Off" /\ audio' = "off" /\ held' \in BOOLEAN
    BY <2>1 DEF Inv, MicrophoneFits, TypeOK, abortMicrophone, Holds
  <2>6. speech' \in Speeches /\ speech'.phase = "Idle" /\ ~speech'.started /\ ~speech'.stopped
    BY <2>1 DEF NoSpeech, Speeches
  <2>7. /\ settings' = settings /\ selection' = selection /\ edits' = edits
        /\ review' = review /\ media' = media /\ refining' = refining
    BY <2>1 DEF runVars
  <2>8. TypeOK'
    <3>1. state' \in States /\ pending' \subseteq Callbacks /\ awaited' \in BOOLEAN
      BY <2>4 DEF States
    <3> QED BY <1>5, <2>4, <2>5, <2>6, <2>7, <3>1 DEF Inv, TypeOK
  <2>9. MicrophoneFits'
    BY <2>3, <2>4, <2>5 DEF MicrophoneFits, MovedOn
  <2>10. SpeechFits' /\ RefinementFits' /\ DeliveryFits'
    BY <1>3, <1>5, <1>6, <2>2, <2>4, <2>6, <2>7 DEF Inv, SpeechFits, RefinementFits, DeliveryFits
  <2>11. ReviewFits' /\ settings'
    BY <2>2, <2>4, <2>7 DEF Inv, ReviewFits, followingUp, Active
  <2>12. \A f \in {"resumePausedMedia", "beginRefinement"} : FrameFits(f)'
    BY <2>4, <2>5, <2>6 DEF FrameFits, StartFrames, GoneFrames, SpeechGone
  <2> QED BY <2>3, <2>8, <2>9, <2>10, <2>11, <2>12, MovedOnFits
<1>8. CASE ~(text /\ hearing) /\ text /\ state = "Stopping"
  <2>1. /\ GoOn(<<"beginRefinement">>)
        /\ IF microphone # "Off" THEN abortMicrophone /\ media' = FALSE
           ELSE UNCHANGED <<microphoneVars, media>>
        /\ UNCHANGED <<state, runVars, review, speech, refining, awaited, pending>>
    BY <1>8 DEF endSpeechAfterFailure
  <2>2. CallsAre({"beginRefinement"} \cup FramesOf(stack))
    BY <1>1, <1>3, <1>6, <2>1, WentOnWith
  <2>3. /\ state' = state /\ settings' = settings /\ selection' = selection /\ edits' = edits
        /\ review' = review /\ speech' = speech /\ refining' = refining
        /\ awaited' = awaited /\ pending' = pending
    BY <2>1 DEF runVars
  <2>4. microphone' = "Off" /\ audio' = "off" /\ held' \in BOOLEAN /\ media' \in BOOLEAN
    BY <2>1 DEF Inv, MicrophoneFits, TypeOK, abortMicrophone, Holds, microphoneVars
  <2>5. TypeOK' /\ Single(calls)' /\ OnTop(calls)' /\ (state \in Active => settings)'
    BY <1>5, <2>2, <2>3, <2>4 DEF CallsAre, Inv, TypeOK, Active
  <2>6. FramesFit'
    <3> SUFFICES ASSUME NEW f \in FramesOf(calls)' PROVE FrameFits(f)'
      BY DEF FramesFit
    <3>1. CASE f = "beginRefinement"
      BY <3>1, <1>4, <1>8, <2>3, <2>4 DEF FrameFits, StartFrames, GoneFrames, SpeechGone
    <3>2. CASE f \in FramesOf(stack)
      <4>1. FrameFits(f) /\ f \notin OnlyOne
        BY <3>2, <1>2, <1>3 DEF Inv, FramesFit
      <4> QED BY <4>1, <1>5, <2>3, <2>4 DEF FrameFits, OnlyOne, StartFrames, GoneFrames, SpeechGone, followingUp
    <3> QED BY <3>1, <3>2, <2>2 DEF CallsAre
  <2>7. PendingFits' /\ RefinementFits' /\ DeliveryFits'
    BY <1>3, <1>5, <1>8, <2>3 DEF Inv, PendingFits, RefinementFits, DeliveryFits
  <2>8. MicrophoneFits'
    <3>1. CASE microphone = "Off"
      <4>1. microphone' = microphone /\ audio' = audio /\ held' = held
        BY <2>1, <3>1 DEF microphoneVars
      <4> QED BY <1>2, <1>5, <2>2, <2>3, <2>4, <4>1 DEF Inv, MicrophoneFits, Told, CallsAre
    <3>2. CASE microphone # "Off"
      <4>1. held' = Holds("Off", state)
        BY <2>1, <3>2 DEF abortMicrophone
      <4>2. held' <=> Holds("Off", state)
        BY <4>1, Zenon
      <4>3. Told => Told'
        BY <1>5, <2>3, <2>4, <4>2 DEF Told
      <4> QED BY <1>2, <1>8, <2>2, <2>3, <2>4, <4>3 DEF Inv, MicrophoneFits, CallsAre
    <3> QED BY <3>1, <3>2
  <2>9. SpeechFits'
    BY <1>6, <2>2, <2>3, <2>4 DEF Inv, SpeechFits, CallsAre
  <2>10. ReviewFits'
    BY <1>8, <2>3 DEF Inv, ReviewFits, followingUp, Active
  <2> QED BY <2>5, <2>6, <2>7, <2>8, <2>9, <2>10 DEF Inv
<1>9. CASE ~(text /\ hearing) /\ ~(text /\ state = "Stopping")
  <2>1. speech' = NoSpeech /\ FailSessionWith(selection, edits, refining, stack)
    BY <1>9 DEF endSpeechAfterFailure, failSession
  <2>2. SpeechRests' /\ speech' \in Speeches
    BY <2>1 DEF SpeechRests, SpeechGone, NoSpeech, Speeches
  <2>3. selection \in BOOLEAN /\ edits \in BOOLEAN /\ refining \in BOOLEAN
    BY DEF Inv, TypeOK
  <2>4. state \in Live \cup {"Refining"} /\ UNCHANGED <<text, listening, refiners, deliveryVars>> /\ job' = "none"
    BY <1>2, <1>3, <1>5 DEF deliveryVars, FrameFits
  <2> HIDE DEF stack
  <2> QED BY <1>2, <1>3, <2>1, <2>2, <2>3, <2>4, FailedFits
<1> QED BY <1>7, <1>8, <1>9

(* deliverWithoutRefinement(): a selection edit fails, a dictation is        *)
(* delivered as spoken.                                                      *)
LEMMA WithoutRefinementFits ==
    ASSUME Inv, state \in {"Stopping", "Refining"}, microphone = "Off", SpeechRests, "popup" \notin pending,
           followingUp => edits, job' = "none",
           NEW stack \in Seq(Frames), Single(stack), FramesOf(stack) \cap AtOnce = {},
           FramesOf(stack) \cap WalkGuarded = {}, deliverWithoutRefinement(stack),
           UNCHANGED <<text, listening, speech, refiners, deliveryVars>>
    PROVE  Inv'
<1>1. SpeechRests' /\ speech' \in Speeches
  BY DEF SpeechRests, SpeechGone, Inv, TypeOK
<1>2. review # "up"
  BY DEF Inv, ReviewFits
<1>3. CASE edits
  <2>1. FailSessionWith(FALSE, FALSE, FALSE, stack)
    BY <1>3 DEF deliverWithoutRefinement, failSelectionEdit
  <2>2. state \in Live \cup {"Refining"}
    BY DEF Live
  <2> QED BY <1>1, <2>1, <2>2, FailedFits
<1>4. CASE ~edits
  <2>1. deliverFinal(stack) /\ UNCHANGED <<runVars, review, microphoneVars, media>>
    BY <1>4 DEF deliverWithoutRefinement
  <2>2. review' = "none"
    BY <1>2, <1>4, <2>1 DEF Inv, TypeOK, followingUp
  <2>3. settings' \in BOOLEAN /\ selection' \in BOOLEAN /\ edits' \in BOOLEAN
    BY <2>1 DEF Inv, TypeOK, runVars
  <2>4. state \in {"Stopping", "Refining", "Reviewing"}
        /\ UNCHANGED <<text, microphoneVars, listening, media, speech, refiners, deliveryVars>>
    BY <2>1
  <2> QED BY <2>1, <2>2, <2>3, <2>4, DeliverFinalFits
<1> QED BY <1>3, <1>4

LEMMA beginRefinementFits ==
    ASSUME Inv, beginRefinement
    PROVE  Inv'
<1>1. Running("beginRefinement")
  BY DEF beginRefinement
<1> DEFINE stack == Tail(calls)
<1>2. /\ stack \in Seq(Frames) /\ Single(stack) /\ FramesOf(stack) \cap AtOnce = {}
      /\ FramesOf(calls) = {"beginRefinement"} \cup FramesOf(stack) /\ FrameFits("beginRefinement")
  BY <1>1, Runs
<1>3. /\ job = "none" /\ "popup" \notin pending /\ FramesOf(stack) \cap WalkGuarded = {}
      /\ FramesOf(stack) \cap OnlyOne = {} /\ "beginRefinement" \in OnlyOne
  BY <1>1, OnlyWayOn DEF OnlyOne, GoneFrames
<1>4. SpeechGone /\ state = "Stopping" /\ microphone = "Off" /\ state \in Live \cup {"Refining"}
  BY <1>2 DEF FrameFits, GoneFrames, Live
<1>5. /\ UNCHANGED <<text, listening, speech, refiners, deliveryVars>> /\ job' = "none"
  BY <1>3 DEF beginRefinement
<1>6. SpeechRests /\ SpeechRests' /\ speech' \in Speeches
  BY <1>4, <1>5 DEF SpeechRests, SpeechGone, Inv, SpeechFits, TypeOK
<1>7. /\ selection \in BOOLEAN /\ edits \in BOOLEAN /\ refining \in BOOLEAN /\ settings \in BOOLEAN
      /\ review # "up" /\ (followingUp => selection)
  BY <1>4 DEF Inv, TypeOK, ReviewFits
<1>8. "walk" \in Frames /\ "walk" \in GoneFrames
  BY DEF Frames, GoneFrames
<1>9. stack \in Seq(Frames) /\ (GoOn(<<"walk">>) => CallsAre({"walk"} \cup FramesOf(stack)))
  BY <1>1, <1>2, <1>3, <1>8, WentOnWith
<1>10. \/ FailSessionWith(selection, edits, refining, stack)
       \/ FailSessionWith(FALSE, FALSE, FALSE, stack)
       \/ /\ ~selection /\ edits' = FALSE /\ deliverFinal(stack)
          /\ UNCHANGED <<settings, selection, review, microphoneVars, media>>
       \/ /\ edits' = selection /\ CallsAre({"walk"} \cup FramesOf(stack))
          /\ UNCHANGED <<state, settings, selection, review, microphoneVars, media,
                         refining, awaited, pending>>
  BY <1>4, <1>9 DEF beginRefinement, failSession, failSelectionEdit
<1> HIDE DEF stack
<1>11. CASE FailSessionWith(selection, edits, refining, stack)
  BY <1>2, <1>3, <1>4, <1>5, <1>6, <1>7, <1>11, FailedFits
<1>12. CASE FailSessionWith(FALSE, FALSE, FALSE, stack)
  BY <1>2, <1>3, <1>4, <1>5, <1>6, <1>12, FailedFits
<1>13. CASE /\ ~selection /\ edits' = FALSE /\ deliverFinal(stack)
            /\ UNCHANGED <<settings, selection, review, microphoneVars, media>>
  <2>1. review' = "none"
    BY <1>7, <1>13 DEF Inv, TypeOK, followingUp
  <2>2. /\ settings' \in BOOLEAN /\ selection' \in BOOLEAN /\ edits' \in BOOLEAN
        /\ state \in {"Stopping", "Refining", "Reviewing"}
        /\ UNCHANGED <<text, microphoneVars, listening, media, speech, refiners, deliveryVars>>
    BY <1>4, <1>5, <1>7, <1>13
  <2> QED BY <1>2, <1>3, <1>4, <1>5, <1>6, <1>13, <2>1, <2>2, DeliverFinalFits
<1>14. CASE /\ edits' = selection /\ CallsAre({"walk"} \cup FramesOf(stack))
            /\ UNCHANGED <<state, settings, selection, review, microphoneVars, media,
                           refining, awaited, pending>>
  <2>1. /\ state' = state /\ settings' = settings /\ selection' = selection
        /\ review' = review /\ text' = text /\ microphone' = microphone /\ audio' = audio /\ held' = held
        /\ listening' = listening /\ media' = media /\ speech' = speech /\ refining' = refining
        /\ refiners' = refiners /\ job' = job
        /\ completing' = completing /\ unanswered' = unanswered /\ delivered' = delivered
        /\ awaited' = awaited /\ pending' = pending
    BY <1>3, <1>5, <1>14 DEF microphoneVars, deliveryVars
  <2>2. TypeOK' /\ Single(calls)' /\ OnTop(calls)' /\ (state \in Active => settings)'
    BY <1>7, <1>14, <2>1 DEF CallsAre, Inv, TypeOK, Active
  <2>3. FramesFit'
    <3> SUFFICES ASSUME NEW f \in FramesOf(calls)' PROVE FrameFits(f)'
      BY DEF FramesFit
    <3>1. CASE f = "walk"
      BY <3>1, <1>4, <1>7, <1>14, <2>1 DEF FrameFits, StartFrames, GoneFrames, SpeechGone, followingUp
    <3>2. CASE f \in FramesOf(stack)
      <4>1. FrameFits(f) /\ f \notin OnlyOne
        BY <3>2, <1>2, <1>3 DEF Inv, FramesFit
      <4> QED BY <4>1, <2>1 DEF FrameFits, OnlyOne, StartFrames, GoneFrames, SpeechGone, followingUp
    <3> QED BY <3>1, <3>2, <1>14 DEF CallsAre
  <2>4. PendingFits' /\ RefinementFits' /\ DeliveryFits'
    BY <1>3, <1>4, <2>1 DEF Inv, PendingFits, RefinementFits, DeliveryFits
  <2>5. MicrophoneFits'
    BY <1>2, <1>14, <2>1 DEF Inv, MicrophoneFits, Told, CallsAre
  <2>6. SpeechFits'
    BY <1>8, <1>14, <2>1 DEF Inv, SpeechFits, CallsAre
  <2>7. ReviewFits'
    BY <1>4, <2>1 DEF Inv, ReviewFits, followingUp, Active
  <2> QED BY <2>2, <2>3, <2>4, <2>5, <2>6, <2>7 DEF Inv
<1> QED BY <1>10, <1>11, <1>12, <1>13, <1>14

LEMMA RefinersExhaustedFits ==
    ASSUME Inv, RefinersExhausted
    PROVE  Inv'
<1>1. Running("walk") /\ deliverWithoutRefinement(Tail(calls))
      /\ UNCHANGED <<text, listening, speech, refiners, deliveryVars>> /\ job' = job
  BY DEF RefinersExhausted
<1>2. /\ Tail(calls) \in Seq(Frames) /\ Single(Tail(calls)) /\ FramesOf(Tail(calls)) \cap AtOnce = {}
      /\ FrameFits("walk")
  BY <1>1, Runs
<1>3. /\ job = "none" /\ "popup" \notin pending /\ FramesOf(Tail(calls)) \cap WalkGuarded = {}
  BY <1>1, OnlyWayOn DEF OnlyOne, GoneFrames
<1>4. state \in {"Stopping", "Refining"} /\ microphone = "Off" /\ (followingUp => edits) /\ SpeechGone
  BY <1>2 DEF FrameFits, GoneFrames
<1>5. SpeechRests
  BY <1>4 DEF SpeechRests, SpeechGone, Inv, SpeechFits
<1> QED BY <1>1, <1>2, <1>3, <1>4, <1>5, WithoutRefinementFits

(* Refining begins, or goes on. *)
LEMMA EnterRefiningFits ==
    ASSUME Inv, NEW f \in {"walk", "walkOn", "startRefiner"}, Running(f), refiners > 0,
           \/ EnterRefining(<<>>, Tail(calls)) /\ job' \in {"resolving", "renewing"}
           \/ EnterRefining(<<"refine">>, Tail(calls)) /\ job' = job,
           UNCHANGED <<runVars, review, text, microphoneVars, listening, media, speech,
                       refiners, deliveryVars>>
    PROVE  Inv'
<1> DEFINE stack == Tail(calls)
<1>1. /\ stack \in Seq(Frames) /\ Single(stack) /\ FramesOf(stack) \cap AtOnce = {}
      /\ FramesOf(calls) = {f} \cup FramesOf(stack) /\ FrameFits(f)
  BY Runs
<1>2. /\ job = "none" /\ "popup" \notin pending /\ "target" \notin pending /\ FramesOf(stack) \cap WalkGuarded = {}
      /\ FramesOf(stack) \cap OnlyOne = {}
  BY OnlyWayOn DEF OnlyOne, GoneFrames
<1>3. state \in {"Stopping", "Refining"} /\ microphone = "Off" /\ (followingUp => edits) /\ SpeechGone
  BY <1>1, RefiningRests DEF FrameFits, GoneFrames
<1>4. SpeechRests
  BY <1>3 DEF SpeechRests, SpeechGone, Inv, SpeechFits
<1>5. /\ settings' = settings /\ selection' = selection /\ edits' = edits
      /\ review' = review /\ text' = text /\ microphone' = microphone /\ audio' = audio /\ held' = held
      /\ listening' = listening /\ media' = media /\ speech' = speech
      /\ refiners' = refiners
      /\ completing' = completing /\ unanswered' = unanswered /\ delivered' = delivered
  BY DEF runVars, microphoneVars, deliveryVars
<1>6. "refine" \in Frames \ AtOnce /\ "refine" \notin GoneFrames /\ "refine" \in OnlyOne
  BY DEF Frames, AtOnce, GoneFrames, OnlyOne
<1>7. audio = "off" /\ settings /\ unanswered < MaxUnanswered /\ ~completing /\ (followingUp => selection)
      /\ review # "up"
  BY <1>3 DEF Inv, MicrophoneFits, Active, DeliveryFits, ReviewFits
<1>8. CASE state = "Refining"
  <2>1. /\ \/ calls' = <<>> \o stack /\ job' \in {"resolving", "renewing"}
           \/ calls' = <<"refine">> \o stack /\ job' = "none"
        /\ UNCHANGED <<state, refining, awaited, pending>>
    BY <1>2, <1>8 DEF EnterRefining
  <2> HIDE DEF stack
  <2>2. PICK way \in {{}, {"refine"}} : CallsAre(way \cup FramesOf(stack)) /\ (job' # "none" => way = {})
                                        /\ job' \in {"none", "resolving", "renewing"}
    <3>1. CASE calls' = <<>> \o stack /\ job' \in {"resolving", "renewing"}
      <4>1. calls' = stack
        BY <1>1, <3>1
      <4>2. CallsAre({} \cup FramesOf(stack))
        BY <1>1, <4>1 DEF CallsAre, OnTop, FramesOf
      <4> QED BY <3>1, <4>2
    <3>2. CASE calls' = <<"refine">> \o stack /\ job' = "none"
      <4>1. CallsAre({"refine"} \cup FramesOf(stack))
        BY <1>1, <1>2, <1>6, <3>2, Pushed
      <4> QED BY <3>2, <4>1
    <3> QED BY <2>1, <3>1, <3>2
  <2>3. state' = state /\ refining' = refining /\ awaited' = awaited /\ pending' = pending
    BY <2>1
  <2>4. TypeOK' /\ Single(calls)' /\ OnTop(calls)' /\ (state \in Active => settings)'
    BY <1>5, <1>7, <2>2, <2>3 DEF CallsAre, Inv, TypeOK
  <2>5. FramesFit'
    <3> SUFFICES ASSUME NEW g \in FramesOf(calls)' PROVE FrameFits(g)'
      BY DEF FramesFit
    <3>1. CASE g = "refine"
      BY <3>1, <1>5, <1>8, <2>3 DEF FrameFits, StartFrames, GoneFrames
    <3>2. CASE g \in FramesOf(stack)
      <4>1. FrameFits(g) /\ g \notin OnlyOne /\ g \notin AtOnce
        BY <3>2, <1>1, <1>2 DEF Inv, FramesFit
      <4> QED BY <4>1, <1>5, <2>3 DEF FrameFits, OnlyOne, StartFrames, GoneFrames, AtOnce, SpeechGone, followingUp
    <3> QED BY <3>1, <3>2, <2>2 DEF CallsAre
  <2>6. PendingFits' /\ RefinementFits' /\ DeliveryFits'
    BY <1>2, <1>5, <1>7, <1>8, <2>2, <2>3 DEF Inv, PendingFits, RefinementFits, DeliveryFits, CallsAre
  <2>7. MicrophoneFits'
    BY <1>1, <1>5, <2>2, <2>3 DEF Inv, MicrophoneFits, Told, CallsAre
  <2>8. SpeechFits' /\ ReviewFits'
    BY <1>5, <1>8, <2>3 DEF Inv, SpeechFits, ReviewFits, followingUp, Live, Active
  <2> QED BY <2>4, <2>5, <2>6, <2>7, <2>8 DEF Inv
<1>9. CASE state = "Stopping"
  <2>1. /\ refining' = TRUE
        /\ \/ setState("Refining", <<>>, stack) /\ job' \in {"resolving", "renewing"}
           \/ setState("Refining", <<"refine">>, stack) /\ job' = "none"
    BY <1>2, <1>9 DEF EnterRefining
  <2> HIDE DEF stack
  <2>2. PICK fs \in {{}, {"refine"}} : MovedOn("Refining", fs) /\ (job' # "none" => fs = {})
                                       /\ job' \in {"none", "resolving", "renewing"}
    <3>1. CASE setState("Refining", <<>>, stack) /\ job' \in {"resolving", "renewing"}
      <4>1. MovedOn("Refining", {})
        BY <1>1, <1>2, <3>1, MovesOnAlone DEF Inv
      <4> QED BY <3>1, <4>1
    <3>2. CASE setState("Refining", <<"refine">>, stack) /\ job' = "none"
      <4>1. MovedOn("Refining", {"refine"})
        BY <1>1, <1>2, <1>6, <3>2, MovesOnWith DEF Inv
      <4> QED BY <3>2, <4>1
    <3> QED BY <2>1, <3>1, <3>2
  <2>3. state' = "Refining" /\ awaited' = FALSE /\ pending' = {} /\ calls' \in Seq(Frames)
    BY <2>2 DEF MovedOn
  <2>4. TypeOK'
    <3>1. state' \in States /\ pending' \subseteq Callbacks /\ awaited' \in BOOLEAN /\ refining' \in BOOLEAN
      BY <2>1, <2>3 DEF States
    <3> QED BY <1>5, <2>2, <2>3, <3>1 DEF Inv, TypeOK
  <2>5. MicrophoneFits'
    BY <1>3, <1>5, <1>7, <2>2, <2>3 DEF MicrophoneFits, MovedOn
  <2>6. SpeechFits' /\ DeliveryFits' /\ ReviewFits'
    BY <1>3, <1>4, <1>5, <1>7, <2>3 DEF SpeechFits, SpeechRests, SpeechGone, DeliveryFits, ReviewFits,
       followingUp, Live, Active
  <2>7. RefinementFits'
    <3>1. Anywhere \cap OnlyOne = {}
      BY DEF Anywhere, OnlyOne, StartFrames, GoneFrames
    <3>2. job' # "none" => FramesOf(calls)' \cap OnlyOne = {}
      BY <2>2, <3>1 DEF MovedOn
    <3> QED BY <1>5, <2>1, <2>3, <3>2 DEF RefinementFits
  <2>8. \A g \in fs : FrameFits(g)'
    BY <1>5, <2>2, <2>3 DEF FrameFits, StartFrames, GoneFrames
  <2> QED BY <1>5, <1>7, <2>2, <2>4, <2>5, <2>6, <2>7, <2>8, MovedOnFits
<1> QED BY <1>3, <1>8, <1>9

LEMMA RefiningFits ==
    ASSUME Inv, Prepares \/ startRefiner
    PROVE  Inv'
<1>1. CASE Prepares
  <2>1. PICK f \in {"walk", "walkOn", "startRefiner"} : Running(f)
    BY <1>1 DEF Prepares, Walking
  <2>2. /\ refiners > 0 /\ EnterRefining(<<>>, Tail(calls)) /\ job' \in {"resolving", "renewing"}
        /\ UNCHANGED <<runVars, review, text, microphoneVars, listening, media, speech, refiners, deliveryVars>>
    BY <1>1 DEF Prepares, Walking
  <2> QED BY <2>1, <2>2, EnterRefiningFits
<1>2. CASE startRefiner
  <2>1. Running("startRefiner")
    BY <1>2 DEF startRefiner
  <2>2. FrameFits("startRefiner")
    BY <2>1, Runs
  <2>3. /\ refiners > 0 /\ EnterRefining(<<"refine">>, Tail(calls)) /\ job' = job
        /\ UNCHANGED <<runVars, review, text, microphoneVars, listening, media, speech, refiners, deliveryVars>>
    BY <1>2, <2>2 DEF startRefiner, FrameFits
  <2> QED BY <2>1, <2>3, EnterRefiningFits
<1> QED BY <1>1, <1>2

(* What a refiner that reports finds. *)
LEMMA RefinerReportFinds ==
    ASSUME Inv, RefinerReports
    PROVE  /\ Below("refiner") \in Seq(Frames) /\ Single(Below("refiner"))
           /\ FramesOf(Below("refiner")) \cap AtOnce = {}
           /\ FramesOf(Below("refiner")) \cap WalkGuarded = {}
           /\ FramesOf(Below("refiner")) \cap OnlyOne = {}
           /\ FramesOf(Below("refiner")) \subseteq FramesOf(calls)
           /\ FramesOf(calls) \subseteq {"refiner"} \cup FramesOf(Below("refiner"))
           /\ state = "Refining" /\ microphone = "Off" /\ audio = "off" /\ SpeechRests
           /\ "popup" \notin pending /\ (followingUp => edits) /\ settings /\ refiners > 0
           /\ review # "up" /\ ~completing /\ unanswered < MaxUnanswered
<1>1. In("refiner") /\ job # "none" /\ state = "Refining"
  BY DEF RefinerReports
<1>2. /\ Below("refiner") \in Seq(Frames) /\ Single(Below("refiner")) /\ FramesOf(Below("refiner")) \cap AtOnce = {}
      /\ FramesOf(Below("refiner")) \subseteq FramesOf(calls)
      /\ FramesOf(calls) \subseteq {"refiner"} \cup FramesOf(Below("refiner"))
  BY <1>1, BelowFrames
<1>3. FramesOf(calls) \cap OnlyOne = {} /\ refiners > 0
  BY <1>1 DEF Inv, RefinementFits
<1>4. WalkGuarded \subseteq OnlyOne
  BY DEF WalkGuarded, OnlyOne, GoneFrames
<1>5. audio = "off" /\ settings /\ review # "up" /\ ~completing /\ unanswered < MaxUnanswered
  BY <1>1 DEF Inv, MicrophoneFits, Active, ReviewFits, DeliveryFits
<1> QED BY <1>1, <1>2, <1>3, <1>4, <1>5, RefiningRests

(* A revision is put up for review, or is to replace at once. *)
LEMMA ReviewedFits ==
    ASSUME Inv, RefinerReports, NEW fs \in {{}, {"replace"}}, MovedOn("Reviewing", fs),
           review' = "up", refining' = FALSE, job' = "none",
           UNCHANGED <<runVars, microphoneVars, media, text, listening, speech, refiners, deliveryVars>>
    PROVE  Inv'
<1>1. /\ microphone = "Off" /\ audio = "off" /\ SpeechRests /\ settings /\ ~completing /\ unanswered < MaxUnanswered
  BY RefinerReportFinds
<1>2. state' = "Reviewing" /\ awaited' = FALSE /\ pending' = {} /\ calls' \in Seq(Frames)
  BY DEF MovedOn
<1>3. /\ settings' = settings /\ selection' = selection /\ edits' = edits
      /\ text' = text /\ microphone' = microphone /\ audio' = audio /\ held' = held
      /\ listening' = listening /\ media' = media /\ speech' = speech /\ refiners' = refiners
      /\ completing' = completing /\ unanswered' = unanswered /\ delivered' = delivered
  BY DEF runVars, microphoneVars, deliveryVars
<1>4. TypeOK'
  <2>1. state' \in States /\ pending' \subseteq Callbacks /\ awaited' \in BOOLEAN /\ refining' \in BOOLEAN
    BY <1>2 DEF States
  <2> QED BY <1>2, <1>3, <2>1 DEF Inv, TypeOK
<1>5. MicrophoneFits'
  BY <1>1, <1>2, <1>3 DEF MicrophoneFits, MovedOn
<1>6. SpeechFits' /\ RefinementFits' /\ DeliveryFits' /\ ReviewFits'
  BY <1>1, <1>2, <1>3 DEF SpeechFits, SpeechRests, SpeechGone, RefinementFits, DeliveryFits, ReviewFits,
     followingUp, Live
<1>7. \A f \in fs : FrameFits(f)'
  BY <1>2 DEF FrameFits, StartFrames, GoneFrames
<1> QED BY <1>1, <1>3, <1>4, <1>5, <1>6, <1>7, MovedOnFits

LEMMA RefinerCompletedFits ==
    ASSUME Inv, RefinerCompleted
    PROVE  Inv'
<1> DEFINE stack == Below("refiner")
<1>1. RefinerReports /\ job' = "none" /\ UNCHANGED <<text, listening, speech, refiners, deliveryVars>>
  BY DEF RefinerCompleted
<1>2. /\ stack \in Seq(Frames) /\ Single(stack) /\ FramesOf(stack) \cap AtOnce = {}
      /\ FramesOf(stack) \cap WalkGuarded = {} /\ state = "Refining" /\ microphone = "Off"
      /\ SpeechRests /\ "popup" \notin pending /\ review # "up"
  BY <1>1, RefinerReportFinds
<1>3. \/ /\ review' = "up" /\ refining' = FALSE /\ setState("Reviewing", <<>>, stack)
         /\ UNCHANGED <<runVars, microphoneVars, media>>
      \/ /\ review' = "up" /\ refining' = FALSE /\ setState("Reviewing", <<"replace">>, stack)
         /\ UNCHANGED <<runVars, microphoneVars, media>>
      \/ ~followingUp /\ deliverFinal(stack) /\ UNCHANGED <<runVars, review, microphoneVars, media>>
      \/ FailSessionWith(FALSE, FALSE, FALSE, stack)
  BY DEF RefinerCompleted, failSelectionEdit
<1> HIDE DEF stack
<1>4. CASE /\ review' = "up" /\ refining' = FALSE /\ setState("Reviewing", <<>>, stack)
           /\ UNCHANGED <<runVars, microphoneVars, media>>
  <2>1. MovedOn("Reviewing", {})
    BY <1>2, <1>4, MovesOnAlone DEF Inv
  <2>2. UNCHANGED <<runVars, microphoneVars, media, text, listening, speech, refiners, deliveryVars>>
    BY <1>1, <1>4
  <2> QED BY <1>1, <1>4, <2>1, <2>2, ReviewedFits
<1>5. CASE /\ review' = "up" /\ refining' = FALSE /\ setState("Reviewing", <<"replace">>, stack)
           /\ UNCHANGED <<runVars, microphoneVars, media>>
  <2>1. "replace" \in Frames \ AtOnce
    BY DEF Frames, AtOnce
  <2>2. MovedOn("Reviewing", {"replace"})
    BY <1>2, <1>5, <2>1, MovesOnWith DEF Inv
  <2>3. UNCHANGED <<runVars, microphoneVars, media, text, listening, speech, refiners, deliveryVars>>
    BY <1>1, <1>5
  <2> QED BY <1>1, <1>5, <2>2, <2>3, ReviewedFits
<1>6. CASE ~followingUp /\ deliverFinal(stack) /\ UNCHANGED <<runVars, review, microphoneVars, media>>
  <2>1. review' = "none"
    BY <1>2, <1>6 DEF Inv, TypeOK, followingUp
  <2>2. /\ settings' \in BOOLEAN /\ selection' \in BOOLEAN /\ edits' \in BOOLEAN
        /\ state \in {"Stopping", "Refining", "Reviewing"}
    BY <1>2, <1>6 DEF Inv, TypeOK, runVars
  <2>3. UNCHANGED <<text, microphoneVars, listening, media, speech, refiners, deliveryVars>>
    BY <1>1, <1>6
  <2> QED BY <1>1, <1>2, <1>6, <2>1, <2>2, <2>3, DeliverFinalFits
<1>7. CASE FailSessionWith(FALSE, FALSE, FALSE, stack)
  <2>1. SpeechRests' /\ speech' \in Speeches /\ state \in Live \cup {"Refining"}
    BY <1>1, <1>2 DEF SpeechRests, SpeechGone, Inv, TypeOK
  <2>2. UNCHANGED <<text, listening, refiners, deliveryVars>>
    BY <1>1
  <2> QED BY <1>1, <1>2, <1>7, <2>1, <2>2, FailedFits
<1> QED BY <1>3, <1>4, <1>5, <1>6, <1>7

LEMMA RefinerFailedFits ==
    ASSUME Inv, RefinerFailed
    PROVE  Inv'
<1> DEFINE stack == Below("refiner")
<1>1. RefinerReports /\ job' = "none" /\ UNCHANGED <<text, listening, speech, refiners, deliveryVars>>
  BY DEF RefinerFailed
<1>2. /\ stack \in Seq(Frames) /\ Single(stack) /\ FramesOf(stack) \cap AtOnce = {}
      /\ FramesOf(stack) \cap WalkGuarded = {} /\ FramesOf(stack) \cap OnlyOne = {}
      /\ FramesOf(stack) \subseteq FramesOf(calls) /\ FramesOf(calls) \subseteq {"refiner"} \cup FramesOf(stack)
      /\ state = "Refining" /\ microphone = "Off" /\ refiners > 0
      /\ SpeechRests /\ "popup" \notin pending /\ review # "up" /\ (followingUp => edits)
  BY <1>1, RefinerReportFinds
<1>3. \/ /\ calls' = <<"handlers", "prepareNext">> \o stack
         /\ UNCHANGED <<state, runVars, review, microphoneVars, media, refining, awaited, pending>>
      \/ deliverWithoutRefinement(stack)
  BY DEF RefinerFailed
<1> HIDE DEF stack
<1>4. CASE deliverWithoutRefinement(stack)
  <2>1. state \in {"Stopping", "Refining"}
    BY <1>2
  <2> QED BY <1>1, <1>2, <1>4, <2>1, WithoutRefinementFits
<1>5. CASE /\ calls' = <<"handlers", "prepareNext">> \o stack
           /\ UNCHANGED <<state, runVars, review, microphoneVars, media, refining, awaited, pending>>
  <2>1. "handlers" \in Frames \ OnlyOne /\ "prepareNext" \in Frames \ AtOnce
    BY DEF Frames, OnlyOne, StartFrames, GoneFrames, AtOnce
  <2>2. CallsAre({"handlers", "prepareNext"} \cup FramesOf(stack))
    BY <1>2, <1>5, <2>1, PushedBoth
  <2>3. /\ state' = state /\ settings' = settings /\ selection' = selection /\ edits' = edits
        /\ review' = review /\ text' = text /\ microphone' = microphone /\ audio' = audio /\ held' = held
        /\ listening' = listening /\ media' = media /\ speech' = speech /\ refining' = refining
        /\ refiners' = refiners
        /\ completing' = completing /\ unanswered' = unanswered /\ delivered' = delivered
        /\ awaited' = awaited /\ pending' = pending
    BY <1>1, <1>5 DEF runVars, microphoneVars, deliveryVars
  <2>4. TypeOK' /\ Single(calls)' /\ OnTop(calls)' /\ (state \in Active => settings)'
    BY <1>1, <2>2, <2>3 DEF CallsAre, Inv, TypeOK, Active
  <2>5. FramesFit'
    <3> SUFFICES ASSUME NEW f \in FramesOf(calls)' PROVE FrameFits(f)'
      BY DEF FramesFit
    <3>1. CASE f \in {"handlers", "prepareNext"}
      BY <3>1, <1>2, <2>3 DEF FrameFits, StartFrames, GoneFrames
    <3>2. CASE f \in FramesOf(stack)
      <4>1. FrameFits(f) /\ f \notin AtOnce
        BY <3>2, <1>2 DEF Inv, FramesFit
      <4> QED BY <4>1, <2>3 DEF FrameFits, AtOnce, SpeechGone, followingUp
    <3> QED BY <3>1, <3>2, <2>2 DEF CallsAre
  <2>6. PendingFits' /\ RefinementFits' /\ DeliveryFits'
    BY <1>1, <1>2, <2>3 DEF Inv, PendingFits, RefinementFits, DeliveryFits
  <2>7. MicrophoneFits'
    BY <1>2, <2>2, <2>3 DEF Inv, MicrophoneFits, Told, CallsAre
  <2>8. SpeechFits' /\ ReviewFits'
    BY <1>2, <2>3 DEF Inv, SpeechFits, ReviewFits, followingUp, Live, Active
  <2> QED BY <2>4, <2>5, <2>6, <2>7, <2>8 DEF Inv
<1> QED BY <1>3, <1>4, <1>5

(* Replace: the revision is delivered, or the Target is asked first. *)
LEMMA ReplaceFits ==
    ASSUME Inv, state = "Reviewing", NEW stack \in Seq(Frames), Single(stack), FramesOf(stack) \cap AtOnce = {},
           FramesOf(stack) \subseteq FramesOf(calls), FramesOf(calls) \subseteq {"replace"} \cup FramesOf(stack),
           replaceWithRevision(stack)
    PROVE  Inv'
<1>1. microphone = "Off" /\ SpeechRests /\ "popup" \notin pending /\ "target" \notin pending /\ job = "none"
  BY RefiningRests DEF Inv, RefinementFits
<1>2. FramesOf(stack) \cap WalkGuarded = {}
  <2> SUFFICES ASSUME NEW f \in FramesOf(stack), f \in WalkGuarded PROVE FALSE
    OBVIOUS
  <2>1. FrameFits(f)
    BY DEF Inv, FramesFit
  <2> QED BY <2>1 DEF WalkGuarded, FrameFits
<1>3. CASE deliverRevision(stack)
  <2>1. /\ review' = "none" /\ deliverFinal(stack) /\ job' = "none"
        /\ UNCHANGED <<text, microphoneVars, listening, media, speech, refiners, deliveryVars>>
    BY <1>1, <1>3 DEF deliverRevision
  <2>2. settings' \in BOOLEAN /\ selection' \in BOOLEAN /\ edits' \in BOOLEAN
        /\ state \in {"Stopping", "Refining", "Reviewing"}
    BY <1>3 DEF deliverRevision, runVars, Inv, TypeOK
  <2> QED BY <1>1, <1>2, <2>1, <2>2, DeliverFinalFits
<1>4. CASE /\ pending' = pending \cup {"check"}
           /\ calls' = stack
           /\ UNCHANGED <<state, runVars, review, text, microphoneVars, listening, media, speech,
                          refinementVars, deliveryVars, awaited>>
  <2>1. /\ state' = state /\ settings' = settings /\ selection' = selection /\ edits' = edits
        /\ review' = review /\ text' = text /\ microphone' = microphone /\ audio' = audio /\ held' = held
        /\ listening' = listening /\ media' = media /\ speech' = speech /\ refining' = refining
        /\ refiners' = refiners /\ job' = job
        /\ completing' = completing /\ unanswered' = unanswered /\ delivered' = delivered
        /\ awaited' = awaited
    BY <1>4 DEF runVars, microphoneVars, refinementVars, deliveryVars
  <2>2. CallsAre(FramesOf(stack))
    BY <1>4 DEF CallsAre, OnTop, FramesOf
  <2>3. pending' \subseteq Callbacks
    BY <1>4 DEF Inv, TypeOK, Callbacks
  <2>4. TypeOK' /\ Single(calls)' /\ OnTop(calls)' /\ (state \in Active => settings)'
    BY <2>1, <2>2, <2>3 DEF CallsAre, Inv, TypeOK, Active
  <2>5. FramesFit'
    BY <2>1, <2>2 DEF Inv, FramesFit, FrameFits, StartFrames, GoneFrames, SpeechGone, followingUp, CallsAre
  <2>6. PendingFits' /\ RefinementFits' /\ DeliveryFits'
    BY <1>1, <1>4, <2>1, <2>2 DEF Inv, PendingFits, RefinementFits, DeliveryFits, CallsAre
  <2>7. MicrophoneFits'
    BY <2>1, <2>2 DEF Inv, MicrophoneFits, Told, CallsAre
  <2>8. SpeechFits' /\ ReviewFits'
    BY <2>1, <2>2 DEF Inv, SpeechFits, ReviewFits, followingUp, Live, Active, CallsAre
  <2> QED BY <2>4, <2>5, <2>6, <2>7, <2>8 DEF Inv
<1> QED BY <1>3, <1>4 DEF replaceWithRevision

LEMMA RevisionFits ==
    ASSUME Inv, replaceSelection \/ Replace \/ SelectionChecked
    PROVE  Inv'
<1>1. CASE replaceSelection
  <2>1. MayCall /\ state = "Reviewing" /\ replaceWithRevision(calls)
    BY <1>1 DEF replaceSelection
  <2> QED BY <2>1, CallFrames, ReplaceFits
<1>2. CASE Replace
  <2>1. Running("replace") /\ replaceWithRevision(Tail(calls))
    BY <1>2 DEF Replace
  <2>2. /\ Tail(calls) \in Seq(Frames) /\ Single(Tail(calls)) /\ FramesOf(Tail(calls)) \cap AtOnce = {}
        /\ FramesOf(calls) = {"replace"} \cup FramesOf(Tail(calls)) /\ FrameFits("replace")
    BY <2>1, Runs
  <2>3. state = "Reviewing" /\ FramesOf(Tail(calls)) \subseteq FramesOf(calls)
        /\ FramesOf(calls) \subseteq {"replace"} \cup FramesOf(Tail(calls))
    BY <2>2 DEF FrameFits
  <2> QED BY <2>1, <2>2, <2>3, ReplaceFits
<1>3. CASE SelectionChecked
  <2>1. Free /\ "check" \in pending /\ replaceWithRevision(calls)
    BY <1>3 DEF SelectionChecked, replaceWithRevision
  <2>2. state = "Reviewing"
    BY <2>1 DEF Inv, PendingFits
  <2> QED BY <2>1, <2>2, FreeFrames, ReplaceFits
<1> QED BY <1>1, <1>2, <1>3

LEMMA DeliverFits ==
    ASSUME Inv, Deliver
    PROVE  Inv'
<1>1. Running("deliver") /\ Return /\ awaited' = TRUE /\ unanswered' = unanswered + 1 /\ delivered' = TRUE
  BY DEF Deliver
<1>2. /\ FramesOf(calls) = {"deliver"} \cup FramesOf(Tail(calls)) /\ FrameFits("deliver")
      /\ FramesOf(Tail(calls)) \cap OnlyOne = {} /\ "deliver" \in OnlyOne
  BY <1>1, Runs DEF OnlyOne
<1>3. CallsAre(FramesOf(Tail(calls)))
  BY <1>1, Returned
<1>4. state = "Delivering" /\ ~completing /\ unanswered < MaxUnanswered
  BY <1>2 DEF FrameFits, Inv, DeliveryFits
<1>5. /\ state' = state /\ settings' = settings /\ selection' = selection /\ edits' = edits
      /\ review' = review /\ text' = text /\ microphone' = microphone /\ audio' = audio /\ held' = held
      /\ listening' = listening /\ media' = media /\ speech' = speech /\ refining' = refining
      /\ refiners' = refiners /\ job' = job
      /\ completing' = completing /\ pending' = pending
  BY DEF Deliver, runVars, microphoneVars, refinementVars
<1>6. TypeOK' /\ Single(calls)' /\ OnTop(calls)' /\ (state \in Active => settings)'
  <2>1. unanswered' \in 0..MaxUnanswered /\ awaited' \in BOOLEAN /\ delivered' \in BOOLEAN
    BY <1>1, <1>4, SessionBoundsAssumption DEF Inv, TypeOK
  <2> QED BY <1>3, <1>5, <2>1 DEF CallsAre, Inv, TypeOK, Active
<1>7. FramesFit'
  <2> SUFFICES ASSUME NEW f \in FramesOf(calls)' PROVE FrameFits(f)'
    BY DEF FramesFit
  <2>1. FrameFits(f) /\ f \notin OnlyOne
    BY <1>2, <1>3 DEF Inv, FramesFit, CallsAre
  <2> QED BY <2>1, <1>5 DEF FrameFits, OnlyOne, StartFrames, GoneFrames, SpeechGone, followingUp
<1>8. PendingFits' /\ RefinementFits'
  BY <1>2, <1>3, <1>5 DEF Inv, PendingFits, RefinementFits, CallsAre
<1>9. DeliveryFits'
  BY <1>1, <1>2, <1>3, <1>4, <1>5 DEF DeliveryFits, CallsAre
<1>10. MicrophoneFits'
  BY <1>2, <1>3, <1>5 DEF Inv, MicrophoneFits, Told, CallsAre
<1>11. SpeechFits' /\ ReviewFits'
  BY <1>4, <1>5 DEF Inv, SpeechFits, ReviewFits, followingUp, Live, Active
<1> QED BY <1>6, <1>7, <1>8, <1>9, <1>10, <1>11 DEF Inv

LEMMA finishDeliveryFits ==
    ASSUME Inv, finishDelivery
    PROVE  Inv'
<1>1. Free /\ unanswered > 0 /\ unanswered' = unanswered - 1
  BY DEF finishDelivery
<1>2. /\ edits' = edits /\ refining' = refining /\ job' = job /\ delivered' = delivered
      /\ review' = review /\ text' = text /\ microphone' = microphone /\ audio' = audio /\ held' = held
      /\ listening' = listening /\ media' = media /\ speech' = speech /\ refiners' = refiners
  BY DEF finishDelivery, microphoneVars, refinementVars
<1>3. /\ calls \in Seq(Frames) /\ Single(calls) /\ FramesOf(calls) = {} /\ ~completing
      /\ unanswered' \in Nat /\ unanswered' < MaxUnanswered
  BY <1>1, FreeFrames, SessionBoundsAssumption DEF Inv, TypeOK, DeliveryFits
<1>4. CASE ~AnswersOwn
  <2>1. UNCHANGED <<state, settings, selection, completing, awaited, pending, calls>>
    BY <1>4 DEF finishDelivery
  <2>2. TypeOK' /\ Single(calls)' /\ OnTop(calls)' /\ (state \in Active => settings)'
    BY <1>2, <1>3, <2>1, SessionBoundsAssumption DEF Inv, TypeOK, Active
  <2>3. FramesFit' /\ PendingFits' /\ RefinementFits' /\ DeliveryFits'
    BY <1>2, <1>3, <2>1 DEF Inv, FramesFit, PendingFits, RefinementFits, DeliveryFits
  <2>4. MicrophoneFits' /\ SpeechFits' /\ ReviewFits'
    BY <1>2, <2>1 DEF Inv, MicrophoneFits, Told, SpeechFits, ReviewFits, followingUp, Active
  <2> QED BY <2>2, <2>3, <2>4 DEF Inv
<1>5. CASE AnswersOwn
  <2>1. settings' = FALSE /\ selection' = FALSE /\ unanswered = 1 /\ awaited
    BY <1>5 DEF finishDelivery, AnswersOwn
  <2>2. state = "Delivering" /\ delivered /\ ~followingUp /\ job = "none"
    BY <2>1 DEF Inv, DeliveryFits, ReviewFits, RefinementFits, Active
  <2>3. CASE completing' = TRUE /\ awaited' = FALSE /\ UNCHANGED <<state, pending, calls>>
    <3>1. TypeOK' /\ Single(calls)' /\ OnTop(calls)' /\ (state \in Active => settings)'
      <4>1. completing' \in BOOLEAN /\ awaited' \in BOOLEAN /\ settings' \in BOOLEAN /\ selection' \in BOOLEAN
        BY <2>1, <2>3
      <4>2. unanswered' \in 0..MaxUnanswered
        BY <1>3, SessionBoundsAssumption
      <4> QED BY <1>2, <1>3, <2>2, <2>3, <4>1, <4>2 DEF Inv, TypeOK, Active
    <3>2. FramesFit' /\ PendingFits' /\ RefinementFits' /\ DeliveryFits'
      BY <1>1, <1>2, <1>3, <2>1, <2>2, <2>3 DEF Inv, TypeOK, FramesFit, PendingFits, RefinementFits, DeliveryFits
    <3>3. MicrophoneFits' /\ SpeechFits' /\ ReviewFits'
      BY <1>2, <2>2, <2>3 DEF Inv, MicrophoneFits, Told, SpeechFits, ReviewFits, followingUp, Active
    <3> QED BY <3>1, <3>2, <3>3 DEF Inv
  <2>4. CASE setState("Error", <<>>, calls) /\ UNCHANGED completing
    <3>1. FramesOf(calls) \cap AtOnce = {} /\ FramesOf(calls) \cap WalkGuarded = {} /\ "popup" \notin pending
      BY <1>3, <2>2 DEF Inv, PendingFits
    <3>2. MovedOn("Error", {})
      BY <1>3, <2>4, <3>1, MovesOnAlone DEF Inv
    <3>3. /\ settings' \in BOOLEAN /\ selection' \in BOOLEAN /\ edits' \in BOOLEAN /\ refining' \in BOOLEAN
          /\ completing' \in BOOLEAN /\ ~completing'
      BY <1>2, <1>3, <2>1, <2>4 DEF Inv, TypeOK
    <3>4. UNCHANGED <<review, text, microphoneVars, listening, media, speech, refiners, delivered>> /\ job' = "none"
      BY <1>2, <2>2 DEF microphoneVars
    <3> QED BY <1>3, <2>2, <3>2, <3>3, <3>4, RestFits
  <2> QED BY <1>5, <2>3, <2>4 DEF finishDelivery
<1> QED BY <1>4, <1>5

LEMMA ReceiptEndsFits ==
    ASSUME Inv, ReceiptEnds
    PROVE  Inv'
<1>1. Free /\ completing /\ completing' = FALSE
  BY DEF ReceiptEnds
<1>2. /\ state = "Delivering" /\ unanswered = 0 /\ ~followingUp /\ job = "none" /\ "popup" \notin pending
  BY <1>1 DEF Inv, DeliveryFits, ReviewFits, RefinementFits, Active, PendingFits
<1>3. setState("Idle", <<>>, calls)
  BY <1>2 DEF ReceiptEnds
<1>4. MovedOn("Idle", {})
  <2>1. FramesOf(calls) \cap WalkGuarded = {}
    BY <1>1, FreeFrames
  <2> QED BY <1>1, <1>2, <1>3, <2>1, FreeFrames, MovesOnAlone DEF Inv
<1>5. /\ settings' \in BOOLEAN /\ selection' \in BOOLEAN /\ edits' \in BOOLEAN /\ refining' \in BOOLEAN
      /\ completing' \in BOOLEAN
  BY <1>1 DEF ReceiptEnds, runVars, refinementVars, Inv, TypeOK
<1>6. /\ UNCHANGED <<review, text, microphoneVars, listening, media, speech, refiners, delivered>>
      /\ job' = "none" /\ unanswered' = unanswered
  BY <1>2 DEF ReceiptEnds, refinementVars
<1>7. unanswered' \in Nat /\ unanswered' < MaxUnanswered
  BY <1>2, <1>6, SessionBoundsAssumption
<1> QED BY <1>1, <1>2, <1>4, <1>5, <1>6, <1>7, RestFits

-----------------------------------------------------------------------------
(* Every state of every session.                                             *)

LEMMA InitFits == Init => Inv
<1> SUFFICES ASSUME Init PROVE Inv
  OBVIOUS
<1>1. /\ state = "Idle" /\ review = "none" /\ job = "none" /\ pending = {} /\ unanswered = 0 /\ calls = <<>>
      /\ settings = FALSE /\ selection = FALSE /\ edits = FALSE /\ text = FALSE
      /\ microphone = "Off" /\ audio = "off" /\ held = FALSE /\ listening = FALSE /\ media = FALSE
      /\ refining = FALSE /\ refiners = 0 /\ completing = FALSE /\ awaited = FALSE /\ delivered = FALSE
      /\ speech = NoSpeech
  BY DEF Init
<1>2. FramesOf(calls) = {} /\ Single(calls) /\ calls \in Seq(Frames) /\ OnTop(calls)
  BY <1>1, NoFrames DEF OnTop
<1>3. NoSpeech \in Speeches /\ NoSpeech.phase = "Idle" /\ NoSpeech.started = FALSE /\ NoSpeech.stopped = FALSE
  BY DEF NoSpeech, Speeches
<1>4. 0 \in 0..Refiners /\ 0 \in 0..MaxUnanswered /\ 0 < MaxUnanswered
  BY RefinersAssumption, SessionBoundsAssumption
<1>5. TypeOK
  BY <1>1, <1>2, <1>3, <1>4 DEF TypeOK, States, Callbacks
<1>6. FramesFit /\ PendingFits
  BY <1>1, <1>2 DEF FramesFit, PendingFits
<1>7. MicrophoneFits
  BY <1>1 DEF MicrophoneFits, Told, Holds
<1>8. SpeechFits /\ RefinementFits /\ ReviewFits /\ DeliveryFits
  BY <1>1, <1>3, <1>4 DEF SpeechFits, RefinementFits, ReviewFits, DeliveryFits, Live, followingUp
<1> QED BY <1>1, <1>2, <1>5, <1>6, <1>7, <1>8 DEF Inv, Active

LEMMA StutterFits ==
    ASSUME Inv, UNCHANGED vars
    PROVE  Inv'
<1>1. /\ state' = state /\ settings' = settings /\ review' = review /\ selection' = selection
      /\ edits' = edits /\ text' = text /\ microphone' = microphone /\ audio' = audio /\ held' = held
      /\ listening' = listening /\ media' = media /\ speech' = speech /\ refining' = refining
      /\ refiners' = refiners /\ job' = job /\ completing' = completing /\ awaited' = awaited
      /\ unanswered' = unanswered /\ delivered' = delivered /\ pending' = pending /\ calls' = calls
  BY DEF vars
<1>2. /\ TypeOK' /\ Single(calls)' /\ OnTop(calls)' /\ FramesOf(calls)' = FramesOf(calls)
      /\ (state \in Active => settings)'
  BY <1>1 DEF Inv, TypeOK, Single, OnTop, FramesOf
<1>3. FramesFit' /\ PendingFits'
  <2>1. \A f : FrameFits(f) => FrameFits(f)'
    BY <1>1 DEF FrameFits, SpeechGone, followingUp
  <2> QED BY <1>1, <1>2, <2>1 DEF Inv, FramesFit, PendingFits
<1>4. MicrophoneFits' /\ SpeechFits' /\ RefinementFits' /\ ReviewFits' /\ DeliveryFits'
  BY <1>1, <1>2 DEF Inv, MicrophoneFits, Told, Holds, SpeechFits, RefinementFits, ReviewFits,
                    DeliveryFits, followingUp
<1> QED BY <1>2, <1>3, <1>4 DEF Inv

LEMMA CodeFits ==
    ASSUME Inv, Code
    PROVE  Inv'
<1>1. CASE Announced \/ OvertakenReturns \/ ResumePausedMedia \/ SpeechReturns \/ RefinerReturns
  <2>1. Return
    BY <1>1 DEF Announced, OvertakenReturns, ResumePausedMedia, SpeechReturns, RefinerReturns
  <2> QED BY <1>1, <2>1, ReturnFits
<1>2. CASE StartFollowUp \/ ClearTranscript \/ ShowPopup \/ continueStartupWithTarget \/ FailStartup
  BY <1>2, StartFits, ClearTranscriptFits, ShowPopupFits, continueStartupWithTargetFits, FailStartupFits
<1>3. CASE StartMicrophone \/ StopMicrophone \/ Resumed \/ Proceed
  BY <1>3, StartMicrophoneFits, MicrophoneStopsFits, ResumedFits, ProceedFits
<1>4. CASE speechChainExhausted \/ endSpeechAfterFailure \/ beginRefinement
  BY <1>4, speechChainExhaustedFits, endSpeechAfterFailureFits, beginRefinementFits
<1>5. CASE PassOver \/ Prepares \/ Ready \/ RefinersExhausted
  BY <1>5, WalkFits, RefiningFits, ReadyFits, RefinersExhaustedFits
<1>6. CASE startRefiner \/ Refine \/ PrepareNext \/ Replace \/ Deliver
  BY <1>6, RefiningFits, RefineFits, WalkFits, RevisionFits, DeliverFits
<1> QED BY <1>1, <1>2, <1>3, <1>4, <1>5, <1>6 DEF Code

LEMMA CommandFits ==
    ASSUME Inv, Command
    PROVE  Inv'
<1>1. CASE startSession \/ startFollowUp \/ cancelForShutdown \/ cancel \/ DismissError
  BY <1>1, StartFits, startFollowUpFits, CancelFits, DismissErrorFits
<1>2. CASE StopStarting \/ StopListening \/ StopPaused \/ StopRefining
  BY <1>2, CancelFits, StopListeningFits, PausedFits, StopRefiningFits
<1>3. CASE pause \/ UndoPause \/ resume \/ replaceSelection
  BY <1>3, MicrophoneStopsFits, UndoPauseFits, PausedFits, RevisionFits
<1> QED BY <1>1, <1>2, <1>3 DEF Command

LEMMA AnswerFits ==
    ASSUME Inv, Answer
    PROVE  Inv'
<1>1. CASE continueStartupAfterPopup \/ TargetCaptured \/ SelectionChecked \/ PreparationEnds
  BY <1>1, StartAnswerFits, RevisionFits, PreparationEndsFits
<1>2. CASE microphoneStarted \/ microphoneStopped \/ finishDelivery \/ ReceiptEnds
  BY <1>2, microphoneStartedFits, MicrophoneStopsFits, finishDeliveryFits, ReceiptEndsFits
<1> QED BY <1>1, <1>2 DEF Answer

LEMMA NextFits == Inv /\ [Next]_<<vars, failsInHandler>> => Inv'
<1> SUFFICES ASSUME Inv, [Next]_<<vars, failsInHandler>> PROVE Inv'
  OBVIOUS
<1>1. CASE UNCHANGED <<vars, failsInHandler>>
  BY <1>1, StutterFits
<1>2. CASE Code
  BY <1>2, CodeFits
<1>3. CASE HandlersReturn
  BY <1>3, ReturnFits DEF HandlersReturn
<1>4. CASE Command
  BY <1>4, CommandFits
<1>5. CASE Answer
  BY <1>5, AnswerFits
<1>6. CASE microphoneFailed \/ TextArrives
  BY <1>6, microphoneFailedFits, TextArrivesFits
<1>7. CASE SpeechReport
  BY <1>7, readyToListenFits, SpeechEndedFits, SpeechFailsFits DEF SpeechReport
<1>8. CASE RefinerReport
  BY <1>8, RefinerCompletedFits, RefinerFailedFits DEF RefinerReport
<1> QED BY <1>1, <1>2, <1>3, <1>4, <1>5, <1>6, <1>7, <1>8 DEF Next, Step

LEMMA InvHolds == Spec => []Inv
  BY InitFits, NextFits, PTL DEF Spec

-----------------------------------------------------------------------------
(* The results.                                                              *)

(* The session's variables keep their types, and the call stack only frames  *)
(* the code pushes (DictationSession's members).                             *)
THEOREM SessionTypeCorrect == Spec => []TypeOK
<1>1. Inv => TypeOK
  BY DEF Inv
<1> QED BY <1>1, InvHolds, PTL

(* No microphone outlives the listening, however handlers end a start, a     *)
(* resume or a pause in the middle of it, and what was last told of it is so *)
(* (startMicrophone(), resume(), discard(), updateMicrophoneHeld()).         *)
THEOREM MicrophoneIsLetGo == Spec => []MicrophoneRests
<1>1. Inv => MicrophoneRests
  <2> SUFFICES ASSUME Inv PROVE MicrophoneRests
    OBVIOUS
  <2>1. (microphone = "Off") <=> (audio = "off")
    BY DEF Inv, MicrophoneFits
  <2>2. state \in {"Idle", "Error", "Paused", "Refining", "Reviewing", "Delivering"} => microphone = "Off"
    BY DEF Inv, MicrophoneFits
  <2>3. ASSUME Free
        PROVE  held = Holds(microphone, state) /\ listening = (state \in {"Listening", "Paused"})
    <3> DEFINE listens == state \in {"Listening", "Paused"}
               holds == Holds(microphone, state)
    <3>1. "announced" \notin FramesOf(calls)
      BY <2>3, FreeFrames
    <3>2. (held <=> holds) /\ (listening <=> listens)
      BY <3>1 DEF Inv, MicrophoneFits, Told
    <3>3. held \in BOOLEAN /\ listening \in BOOLEAN
      BY DEF Inv, TypeOK
    <3>4. holds \in BOOLEAN /\ listens \in BOOLEAN
      BY DEF Holds
    <3> HIDE DEF listens, holds
    <3>5. held = holds /\ listening = listens
      BY <3>2, <3>3, <3>4
    <3> QED BY <3>5 DEF listens, holds
  <2> QED BY <2>1, <2>2, <2>3 DEF MicrophoneRests
<1> QED BY <1>1, InvHolds, PTL

(* The speech is where the session is, no refiner works for a session that   *)
(* has left Refining, and the settings are there while they are used         *)
(* (startSession(), stopListening(), discard(), returnToReview()).           *)
THEOREM WorkIsTheSessions == Spec => []WorkFollows
<1>1. Inv => WorkFollows
  <2> SUFFICES ASSUME Inv PROVE WorkFollows
    OBVIOUS
  <2>1. state \in Active => settings
    BY DEF Inv
  <2>2. job # "none" => state = "Refining" /\ refining /\ settings
    BY <2>1 DEF Inv, RefinementFits, Active
  <2>3. ASSUME Free, state \in Live PROVE speech.phase = state
    <3>1. FramesOf(calls) \cap GoneFrames = {}
      BY <2>3, FreeFrames
    <3> QED BY <2>3, <3>1 DEF Inv, SpeechFits
  <2>4. ASSUME state \notin Live PROVE speech.phase = "Idle" \/ ~speech.started
    BY <2>4 DEF Inv, TypeOK, Speeches, SpeechFits, Live
  <2> QED BY <2>1, <2>2, <2>3, <2>4 DEF WorkFollows, Live
<1> QED BY <1>1, InvHolds, PTL

(* The receipt that shows is the one of this dictation's delivery            *)
(* (finishDelivery(), m_completionTimer).                                    *)
THEOREM ReceiptIsTheSessions == Spec => []ReceiptIsOwn
<1>1. Inv => ReceiptIsOwn
  BY DEF Inv, DeliveryFits, ReceiptIsOwn
<1> QED BY <1>1, InvHolds, PTL

(* What a step does to a review that is up or dictates its follow-up. *)
ReviewStays == review' # "none" \/ review' = review

LEMMA EndingsKeepReview ==
    ASSUME NEW stack, NEW target, NEW pipeline, NEW refines
    PROVE  /\ FailSessionWith(target, pipeline, refines, stack) => ReviewStays
           /\ CancelSession => ReviewStays \/ state' = "Idle"
           /\ deliverRevision(stack) => state' = "Delivering"
<1>1. FailSessionWith(target, pipeline, refines, stack) => ReviewStays
  BY DEF FailSessionWith, ReviewStays
<1>2. CancelSession => ReviewStays \/ state' = "Idle"
  BY DEF CancelSession, EndSession, setStateAfresh, ReviewStays
<1>3. deliverRevision(stack) => state' = "Delivering"
  BY DEF deliverRevision, deliverFinal, setState
<1> QED BY <1>1, <1>2, <1>3

LEMMA CodeKeepsReview ==
    ASSUME Inv, Code
    PROVE  ReviewStays \/ (state = "Reviewing" /\ state' = "Delivering")
<1>1. CASE \/ Announced \/ OvertakenReturns \/ StartFollowUp \/ ClearTranscript \/ ShowPopup
           \/ continueStartupWithTarget \/ StartMicrophone \/ StopMicrophone
           \/ Resumed \/ ResumePausedMedia \/ Proceed \/ SpeechReturns \/ speechChainExhausted
  BY <1>1 DEF Announced, OvertakenReturns, StartFollowUp, StartSessionOn, ClearTranscript, ShowPopup,
              continueStartupWithTarget, StartMicrophone, StopMicrophone, Resumed, ResumePausedMedia,
              Proceed, SpeechReturns, speechChainExhausted, ReviewStays
<1>2. CASE PassOver \/ Prepares \/ Ready \/ startRefiner \/ Refine \/ RefinerReturns \/ PrepareNext \/ Deliver
  BY <1>2 DEF PassOver, Prepares, Ready, startRefiner, Refine, RefinerReturns, PrepareNext, Deliver, ReviewStays
<1>3. CASE FailStartup
  BY <1>3, EndingsKeepReview DEF FailStartup, failSession
<1>4. CASE endSpeechAfterFailure
  BY <1>4, EndingsKeepReview DEF endSpeechAfterFailure, failSession, ReviewStays
<1>5. CASE beginRefinement
  BY <1>5, EndingsKeepReview DEF beginRefinement, failSession, failSelectionEdit, ReviewStays
<1>6. CASE RefinersExhausted
  BY <1>6, EndingsKeepReview DEF RefinersExhausted, deliverWithoutRefinement, failSelectionEdit, ReviewStays
<1>7. CASE Replace
  <2>1. state = "Reviewing"
    BY <1>7, Runs DEF Replace, FrameFits
  <2> QED BY <1>7, <2>1, EndingsKeepReview DEF Replace, replaceWithRevision, ReviewStays
<1> QED BY <1>1, <1>2, <1>3, <1>4, <1>5, <1>6, <1>7 DEF Code

LEMMA CommandKeepsReview ==
    ASSUME Inv, Command
    PROVE  ReviewStays \/ state' = "Idle" \/ (state = "Reviewing" /\ state' = "Delivering")
<1>1. CASE startSession \/ startFollowUp \/ DismissError \/ StopListening \/ StopPaused \/ pause \/ UndoPause \/ resume
  BY <1>1 DEF startSession, StartSessionOn, startFollowUp, DismissError, StopListening, StopPaused, pause,
              UndoPause, resume, ReviewStays
<1>2. CASE cancelForShutdown
  BY <1>2 DEF cancelForShutdown, EndSession, setStateAfresh
<1>3. CASE cancel \/ StopStarting
  BY <1>3, EndingsKeepReview DEF cancel, StopStarting
<1>4. CASE StopRefining
  BY <1>4, EndingsKeepReview DEF StopRefining, ReviewStays
<1>5. CASE replaceSelection
  BY <1>5, EndingsKeepReview DEF replaceSelection, replaceWithRevision, ReviewStays
<1> QED BY <1>1, <1>2, <1>3, <1>4, <1>5 DEF Command

LEMMA ReportKeepsReview ==
    ASSUME Inv, Answer \/ HandlersReturn \/ microphoneFailed \/ SpeechReport \/ TextArrives \/ RefinerReport
    PROVE  ReviewStays \/ (state = "Reviewing" /\ state' = "Delivering")
<1>1. CASE \/ continueStartupAfterPopup \/ TargetCaptured \/ microphoneStarted \/ microphoneStopped
           \/ PreparationEnds \/ finishDelivery \/ ReceiptEnds \/ HandlersReturn \/ SpeechReport \/ TextArrives
  BY <1>1 DEF continueStartupAfterPopup, TargetCaptured, microphoneStarted, microphoneStopped,
              PreparationEnds, finishDelivery, ReceiptEnds, HandlersReturn, SpeechReport, readyToListen,
              SpeechEnded, SpeechFails, TextArrives, ReviewStays
<1>2. CASE SelectionChecked
  BY <1>2, EndingsKeepReview DEF SelectionChecked, Inv, PendingFits
<1>3. CASE microphoneFailed
  BY <1>3, EndingsKeepReview DEF microphoneFailed, failSession, ReviewStays
<1>4. CASE RefinerCompleted
  BY <1>4, EndingsKeepReview DEF RefinerCompleted, failSelectionEdit, ReviewStays
<1>5. CASE RefinerFailed
  BY <1>5, EndingsKeepReview DEF RefinerFailed, deliverWithoutRefinement, failSelectionEdit, ReviewStays
<1> QED BY <1>1, <1>2, <1>3, <1>4, <1>5 DEF Answer, RefinerReport

(* Only Replace, Keep original or a quit ends a review, and at rest it is up *)
(* exactly while the session reviews (deliverRevision(), cancel(),           *)
(* cancelForShutdown(), returnToReview(), setState(Error)).                  *)
THEOREM ReviewIsKept == Spec => ReviewKept
<1>1. Inv /\ [Next]_<<vars, failsInHandler>>
      => [review # "none" /\ review' = "none"
          => \/ state' = "Idle"
             \/ state = "Reviewing" /\ state' = "Delivering"]_vars
  <2> SUFFICES ASSUME Inv, [Next]_<<vars, failsInHandler>>, vars' # vars
               PROVE  ReviewStays \/ state' = "Idle" \/ (state = "Reviewing" /\ state' = "Delivering")
    BY DEF ReviewStays
  <2>1. Step
    BY DEF Next
  <2> QED BY <2>1, CodeKeepsReview, CommandKeepsReview, ReportKeepsReview DEF Step
<1>2. Inv => (Free => /\ (review = "up") <=> (state = "Reviewing")
                      /\ followingUp => state \in Active)
  <2> SUFFICES ASSUME Inv, Free
               PROVE  ((review = "up") <=> (state = "Reviewing")) /\ (followingUp => state \in Active)
    OBVIOUS
  <2>1. "startFollowUp" \notin FramesOf(calls)
    BY FreeFrames
  <2> QED BY <2>1 DEF Inv, TypeOK, ReviewFits, followingUp
<1> QED BY <1>1, <1>2, InvHolds, PTL DEF Spec, ReviewKept

-----------------------------------------------------------------------------
(* The media the session paused, and what it asks of its speech.             *)

(* What the audio input does is what the session's microphone says. *)
DeviceFits ==
    /\ (audio = "starting") <=> (microphone = "Starting")
    /\ (audio = "running") <=> (microphone = "On")
    /\ (audio = "stopping") <=> (microphone \in {"Pausing", "Stopping"})

(* Whom the microphone is for: a speech that was started and asked for it.   *)
(* One that is asked to stop, or a pause that a stop overtook, has its       *)
(* stopMicrophone() yet to come.                                             *)
Waits(f) == f \in FramesOf(calls)
Heard ==
    /\ DeviceFits
    /\ microphone # "Off" => speech.started
    /\ state = "Starting" /\ microphone # "Off" =>
         microphone = "Starting" /\ (speech.phase = "Starting" => speech.asked)
    /\ microphone = "Pausing" => state \in {"Listening", "Stopping"}
    /\ microphone = "Stopping" => state = "Stopping"
    /\ Waits("stopMicrophone") => state \notin {"Starting", "Listening", "Paused"}
    /\ state = "Stopping" /\ microphone \notin {"Off", "Stopping"} => Waits("stopMicrophone")

(* Media still paused: what will resume it, where the speech does not fail   *)
(* in a handler.                                                             *)
GoesPast == {"speech", "speechFailed", "proceed", "beginRefinement", "walk", "startRefiner"}
MediaFits ==
    ~failsInHandler /\ media =>
        /\ state \notin Live => Waits("resumePausedMedia")
        /\ state = "Stopping" =>
             \/ microphone # "Off"
             \/ Waits("resumePausedMedia")
             \/ Waits("stopMicrophone") /\ ~speech.stopped /\ FramesOf(calls) \cap GoesPast = {}

-----------------------------------------------------------------------------
(* The steps of SpeechContract, as the session's.                            *)

Asks == [Contract!Next]_(Contract!vars)
Failing == Running("speechFailed")

LEMMA HearsBooleans ==
    /\ speechHears \in BOOLEAN /\ speechHears' \in BOOLEAN
    /\ Failing \in BOOLEAN /\ Failing' \in BOOLEAN
BY DEF speechHears, Failing, Running

LEMMA HearsFollows ==
    /\ speech.phase = "Idle" \/ audio = "off" => speechHears = FALSE
    /\ speech.phase # "Idle" /\ audio # "off" => speechHears = TRUE
    /\ speech'.phase = "Idle" \/ audio' = "off" => speechHears' = FALSE
    /\ speech'.phase # "Idle" /\ audio' # "off" => speechHears' = TRUE
BY DEF speechHears

LEMMA AsksNothing ==
    ASSUME speech'.phase = speech.phase, speech'.started = speech.started, speech'.asked = speech.asked,
           speech.phase = "Idle" \/ ((audio' = "off") <=> (audio = "off")), ~Failing, ~Failing'
    PROVE  Asks
<1>1. speechHears' = speechHears /\ Failing' = Failing
  <2>1. (speechHears' <=> speechHears) /\ (Failing' <=> Failing)
    BY DEF speechHears
  <2> QED BY <2>1, HearsBooleans
<1>2. UNCHANGED <<speech.phase, speech.started, speechHears, speech.asked, 0, 0, Failing>>
  BY <1>1
<1> QED BY <1>2 DEF Asks, Failing, Contract!vars

LEMMA AsksBegin ==
    ASSUME speech.phase \in {"Idle", "Starting"}, audio = "off", audio' = "off",
           speech'.phase = "Starting", speech'.started = FALSE, speech'.asked = FALSE,
           ~Failing, ~Failing'
    PROVE  Asks
<1>1. speechHears = FALSE /\ speechHears' = FALSE
  BY HearsFollows
<1>2. Failing = FALSE /\ Failing' = FALSE
  BY HearsBooleans
<1>3. Contract!begin
  BY <1>1, <1>2 DEF Contract!begin, Failing
<1> QED BY <1>3 DEF Asks, Contract!Next

LEMMA AsksStart ==
    ASSUME speech.phase = "Starting", ~speech.started, speech'.phase = "Starting",
           speech'.started = TRUE, speech'.asked = speech.asked, audio' = audio, ~Failing, ~Failing'
    PROVE  Asks
<1>1. speechHears' = speechHears /\ Failing' = Failing
  <2>1. (speechHears' <=> speechHears) /\ (Failing' <=> Failing)
    BY DEF speechHears
  <2> QED BY <2>1, HearsBooleans
<1>2. Contract!start
  BY <1>1 DEF Contract!start, Failing
<1> QED BY <1>2 DEF Asks, Contract!Next

LEMMA AsksListen ==
    ASSUME speech.phase = "Starting", speech.asked, audio # "off", audio' # "off",
           speech'.phase = "Listening", speech'.started = speech.started, speech'.asked = FALSE,
           ~Failing, ~Failing'
    PROVE  Asks
<1>1. speechHears = TRUE /\ speechHears' = TRUE
  BY HearsFollows
<1>2. Failing = FALSE /\ Failing' = FALSE
  BY HearsBooleans
<1>3. Contract!listen
  BY <1>1, <1>2 DEF Contract!listen, Failing
<1> QED BY <1>3 DEF Asks, Contract!Next

LEMMA AsksPause ==
    ASSUME speech.phase = "Listening", speech'.phase = "Paused", audio' = "off",
           speech'.started = speech.started, speech'.asked = speech.asked, ~Failing, ~Failing'
    PROVE  Asks
<1>1. speechHears' = FALSE
  BY HearsFollows
<1>2. Failing = FALSE /\ Failing' = FALSE
  BY HearsBooleans
<1>3. Contract!pause
  BY <1>1, <1>2 DEF Contract!pause, Failing
<1> QED BY <1>3 DEF Asks, Contract!Next

LEMMA AsksResume ==
    ASSUME speech.phase = "Paused", speech'.phase = "Listening", audio' = audio,
           speech'.started = speech.started, speech'.asked = speech.asked, ~Failing, ~Failing'
    PROVE  Asks
<1>1. speechHears' = speechHears /\ Failing' = Failing
  <2>1. (speechHears' <=> speechHears) /\ (Failing' <=> Failing)
    BY DEF speechHears
  <2> QED BY <2>1, HearsBooleans
<1>2. Contract!resume
  BY <1>1 DEF Contract!resume, Failing
<1> QED BY <1>2 DEF Asks, Contract!Next

LEMMA AsksStop ==
    ASSUME speech.phase \in {"Listening", "Paused"}, speech'.phase = "Stopping",
           audio' \in {audio, "off"},
           speech'.started = speech.started, speech'.asked = speech.asked, ~Failing, ~Failing'
    PROVE  Asks
<1>1. speechHears' \in {speechHears, FALSE}
  <2>1. CASE audio' = "off"
    BY <2>1, HearsFollows
  <2>2. CASE audio' = audio
    <3>1. speechHears' <=> speechHears
      BY <2>2 DEF speechHears
    <3> QED BY <3>1, HearsBooleans
  <2> QED BY <2>1, <2>2
<1>2. Failing = FALSE /\ Failing' = FALSE
  BY HearsBooleans
<1>3. Contract!stop
  BY <1>1, <1>2 DEF Contract!stop, Failing
<1> QED BY <1>3 DEF Asks, Contract!Next

LEMMA AsksCancel ==
    ASSUME speech' = NoSpeech, ~Failing'
    PROVE  Asks
<1>1. speech'.phase = "Idle" /\ speech'.started = FALSE /\ speech'.asked = FALSE
  BY DEF NoSpeech
<1>2. speechHears' = FALSE
  BY <1>1, HearsFollows
<1>3. Failing' = FALSE
  BY HearsBooleans
<1>4. Contract!cancel
  BY <1>1, <1>2, <1>3 DEF Contract!cancel, Failing
<1> QED BY <1>4 DEF Asks, Contract!Next

LEMMA AsksMicrophone ==
    ASSUME speech'.phase = speech.phase, speech'.started = speech.started, speech'.asked = speech.asked,
           \/ speech.phase = "Listening" /\ audio' # "off"
           \/ speech.phase = "Stopping" /\ audio' = "off",
           ~Failing, ~Failing'
    PROVE  Asks
<1>1. Failing = FALSE /\ Failing' = FALSE
  BY HearsBooleans
<1>2. CASE speech.phase = "Listening" /\ audio' # "off"
  <2>1. speechHears' = TRUE
    BY <1>2, HearsFollows
  <2>2. Contract!StartMicrophone
    BY <1>1, <1>2, <2>1 DEF Contract!StartMicrophone, Failing
  <2> QED BY <2>2 DEF Asks, Contract!Next
<1>3. CASE speech.phase = "Stopping" /\ audio' = "off"
  <2>1. speechHears' = FALSE
    BY <1>3, HearsFollows
  <2>2. Contract!StopMicrophone
    BY <1>1, <1>3, <2>1 DEF Contract!StopMicrophone, Failing
  <2> QED BY <2>2 DEF Asks, Contract!Next
<1> QED BY <1>2, <1>3

LEMMA AsksReady ==
    ASSUME speech.phase = "Starting", speech.started, ~speech.asked, audio' # "off",
           speech'.phase = "Starting", speech'.started = speech.started, speech'.asked = TRUE,
           ~Failing, ~Failing'
    PROVE  Asks
<1>1. speechHears' = TRUE
  BY HearsFollows
<1>2. Failing = FALSE /\ Failing' = FALSE
  BY HearsBooleans
<1>3. Contract!readyToListen
  BY <1>1, <1>2 DEF Contract!readyToListen, Failing
<1> QED BY <1>3 DEF Asks, Contract!Next

LEMMA AsksEnded ==
    ASSUME speech.phase = "Stopping", audio = "off", speech'.phase = "Idle",
           speech'.started = speech.started, speech'.asked = speech.asked, ~Failing, ~Failing'
    PROVE  Asks
<1>1. speechHears = FALSE /\ speechHears' = FALSE
  BY HearsFollows
<1>2. Failing = FALSE /\ Failing' = FALSE
  BY HearsBooleans
<1>3. Contract!ended
  BY <1>1, <1>2 DEF Contract!ended, Failing
<1> QED BY <1>3 DEF Asks, Contract!Next

LEMMA AsksFailed ==
    ASSUME speech.phase # "Idle", speech.started, speech'.phase = "Idle",
           speech'.started = speech.started, speech'.asked = speech.asked, Failing'
    PROVE  Asks
<1>1. speechHears' = FALSE
  BY HearsFollows
<1>2. Failing' = TRUE
  BY HearsBooleans
<1>3. Contract!failed
  BY <1>1, <1>2 DEF Contract!failed, Failing
<1> QED BY <1>3 DEF Asks, Contract!Next

LEMMA AsksSalvage ==
    ASSUME Failing, ~Failing', speech'.phase = speech.phase, speech'.started = speech.started,
           speech'.asked = speech.asked, speech.phase = "Idle" \/ audio' = audio
    PROVE  Asks
<1>1. speechHears' = speechHears
  <2>1. speechHears' <=> speechHears
    BY DEF speechHears
  <2> QED BY <2>1, HearsBooleans
<1>2. Failing = TRUE /\ Failing' = FALSE
  BY HearsBooleans
<1>3. Contract!Salvage
  BY <1>1, <1>2 DEF Contract!Salvage, Failing
<1> QED BY <1>3 DEF Asks, Contract!Next

-----------------------------------------------------------------------------
(* Steps that go on in their state.                                          *)

Follows == Heard /\ MediaFits

WaitsKeep ==
    /\ Waits("stopMicrophone")' <=> Waits("stopMicrophone")
    /\ Waits("resumePausedMedia") => Waits("resumePausedMedia")'
CallsKeep ==
    /\ WaitsKeep
    /\ state = "Stopping" /\ FramesOf(calls) \cap GoesPast = {} => FramesOf(calls)' \cap GoesPast = {}

LEMMA NotFailing ==
    ASSUME calls' \in Seq(Frames), "speechFailed" \notin FramesOf(calls)'
    PROVE  ~Failing'
<1> SUFFICES ASSUME calls' # <<>>, Head(calls') = "speechFailed" PROVE FALSE
  BY DEF Failing, Running
<1>1. 1 \in DOMAIN calls' /\ calls'[1] = "speechFailed"
  OBVIOUS
<1> QED BY <1>1 DEF FramesOf

LEMMA StackWaits ==
    ASSUME NEW stack \in Seq(Frames), NEW f, f \notin {"stopMicrophone", "resumePausedMedia"},
           FramesOf(stack) \subseteq FramesOf(calls), FramesOf(calls) \subseteq {f} \cup FramesOf(stack),
           NEW top \in Seq(Frames), calls' = top \o stack, "stopMicrophone" \notin FramesOf(top)
    PROVE  /\ calls' \in Seq(Frames) /\ FramesOf(calls)' = FramesOf(top) \cup FramesOf(stack)
           /\ WaitsKeep
<1>1. calls' \in Seq(Frames) /\ FramesOf(calls)' = FramesOf(top) \cup FramesOf(stack)
  <2>1. top \o stack \in Seq(Frames) /\ FramesOf(top \o stack) = FramesOf(top) \cup FramesOf(stack)
    BY PushedFrames
  <2> QED BY <2>1 DEF FramesOf
<1>2. (Waits("stopMicrophone")' <=> Waits("stopMicrophone"))
      /\ (Waits("resumePausedMedia") => Waits("resumePausedMedia")')
  BY <1>1 DEF Waits
<1> QED BY <1>1, <1>2 DEF WaitsKeep

LEMMA StackGoesOn ==
    ASSUME NEW stack \in Seq(Frames), FramesOf(stack) \cap AtOnce = {},
           NEW f, f \notin {"stopMicrophone", "resumePausedMedia"},
           FramesOf(stack) \subseteq FramesOf(calls), FramesOf(calls) \subseteq {f} \cup FramesOf(stack),
           NEW top \in Seq(Frames), calls' = top \o stack,
           FramesOf(top) \cap {"stopMicrophone", "speechFailed"} = {},
           \/ FramesOf(top) \cap GoesPast = {}
           \/ f \in FramesOf(calls) \cap GoesPast
           \/ state # "Stopping"
    PROVE  CallsKeep /\ ~Failing'
<1>1. calls' \in Seq(Frames) /\ FramesOf(calls)' = FramesOf(top) \cup FramesOf(stack) /\ WaitsKeep
  BY StackWaits
<1>2. "speechFailed" \notin FramesOf(calls)'
  BY <1>1 DEF AtOnce
<1>3. state = "Stopping" /\ FramesOf(calls) \cap GoesPast = {} => FramesOf(calls)' \cap GoesPast = {}
  BY <1>1
<1> QED BY <1>1, <1>2, <1>3, NotFailing DEF CallsKeep

LEMMA GoneOn ==
    ASSUME Inv, NEW f, Running(f), f \notin {"stopMicrophone", "resumePausedMedia"},
           NEW top \in Seq(Frames), GoOn(top),
           FramesOf(top) \cap {"stopMicrophone", "speechFailed"} = {},
           FramesOf(top) \cap GoesPast = {} \/ f \in GoesPast \/ state # "Stopping"
    PROVE  CallsKeep /\ ~Failing'
<1> DEFINE stack == Tail(calls)
<1>1. /\ stack \in Seq(Frames) /\ FramesOf(stack) \cap AtOnce = {}
      /\ FramesOf(calls) = {f} \cup FramesOf(stack)
  BY Runs
<1>2. calls' = top \o stack
  BY DEF GoOn
<1> HIDE DEF stack
<1> QED BY <1>1, <1>2, StackGoesOn

LEMMA GoneBack ==
    ASSUME Inv, NEW f, Running(f), f \notin {"stopMicrophone", "resumePausedMedia"}, Return
    PROVE  CallsKeep /\ ~Failing'
<1>1. Tail(calls) \in Seq(Frames)
  BY Runs
<1>2. GoOn(<<>>)
  BY <1>1 DEF Return, GoOn
<1> QED BY <1>2, NoFrames, GoneOn

LEMMA CalledMore ==
    ASSUME Inv, FramesOf(calls) \cap AtOnce = {}, NEW top \in Seq(Frames), calls' = top \o calls,
           FramesOf(top) \cap {"stopMicrophone", "speechFailed"} = {},
           FramesOf(top) \cap GoesPast = {} \/ state # "Stopping"
    PROVE  CallsKeep /\ ~Failing'
<1>1. calls \in Seq(Frames)
  BY DEF Inv, TypeOK
<1>2. "none" \notin {"stopMicrophone", "resumePausedMedia"} /\ FramesOf(calls) \subseteq {"none"} \cup FramesOf(calls)
  OBVIOUS
<1> QED BY <1>1, <1>2, StackGoesOn

LEMMA SameCalls ==
    ASSUME calls' = calls
    PROVE  CallsKeep /\ (Failing' <=> Failing)
BY DEF CallsKeep, WaitsKeep, Waits, FramesOf, Failing, Running

LEMMA OthersFail ==
    ASSUME NEW f, Running(f) \/ Free, f # "speechFailed"
    PROVE  ~Failing
BY DEF Failing, Running, Free

(* A step that leaves the microphone and the speech as they are. *)
LEMMA KeptFollows ==
    ASSUME Follows, CallsKeep, state' = state, microphone' = microphone, audio' = audio, speech' = speech,
           media' = media, failsInHandler' = failsInHandler
    PROVE  Follows'
<1>1. Heard'
  BY DEF Follows, Heard, DeviceFits, CallsKeep, WaitsKeep
<1>2. MediaFits'
  BY DEF Follows, MediaFits, CallsKeep, WaitsKeep
<1> QED BY <1>1, <1>2 DEF Follows

LEMMA KeptAsks ==
    ASSUME audio' = audio, speech' = speech, ~Failing, ~Failing'
    PROVE  Asks
BY AsksNothing

LEMMA GoneOnWith ==
    ASSUME Inv, NEW f, Running(f), f \notin {"stopMicrophone", "resumePausedMedia"},
           NEW g \in Frames, GoOn(<<g>>), g \notin {"stopMicrophone", "speechFailed"},
           g \notin GoesPast \/ f \in GoesPast \/ state # "Stopping"
    PROVE  CallsKeep /\ ~Failing'
<1>1. <<g>> \in Seq(Frames) /\ FramesOf(<<g>>) = {g}
  BY OneFrame
<1> QED BY <1>1, GoneOn

LEMMA GoneOnWithTwo ==
    ASSUME Inv, NEW f, Running(f), f \notin {"stopMicrophone", "resumePausedMedia"},
           NEW g \in Frames, NEW h \in Frames, GoOn(<<g, h>>),
           {g, h} \cap {"stopMicrophone", "speechFailed"} = {},
           {g, h} \cap GoesPast = {} \/ f \in GoesPast \/ state # "Stopping"
    PROVE  CallsKeep /\ ~Failing'
<1>1. <<g, h>> \in Seq(Frames) /\ FramesOf(<<g, h>>) = {g, h}
  BY TwoFrames
<1> QED BY <1>1, GoneOn

LEMMA CalledWith ==
    ASSUME Inv, FramesOf(calls) \cap AtOnce = {}, NEW g \in Frames, calls' = <<g>> \o calls,
           g \notin {"stopMicrophone", "speechFailed"}, g \notin GoesPast \/ state # "Stopping"
    PROVE  CallsKeep /\ ~Failing'
<1>1. <<g>> \in Seq(Frames) /\ FramesOf(<<g>>) = {g}
  BY OneFrame
<1> QED BY <1>1, CalledMore

LEMMA CalledWithTwo ==
    ASSUME Inv, FramesOf(calls) \cap AtOnce = {}, NEW g \in Frames, NEW h \in Frames,
           calls' = <<g, h>> \o calls, {g, h} \cap {"stopMicrophone", "speechFailed"} = {},
           {g, h} \cap GoesPast = {} \/ state # "Stopping"
    PROVE  CallsKeep /\ ~Failing'
<1>1. <<g, h>> \in Seq(Frames) /\ FramesOf(<<g, h>>) = {g, h}
  BY TwoFrames
<1> QED BY <1>1, CalledMore

(* Steps that call on, return or wait, and change neither. *)
LEMMA ReturnsFollow ==
    ASSUME Inv, Follows, failsInHandler' = failsInHandler,
           Announced \/ OvertakenReturns \/ HandlersReturn \/ SpeechReturns \/ RefinerReturns \/ Deliver
    PROVE  Follows' /\ Asks
<1>1. PICK f \in {"announced", "overtaken", "handlers", "speech", "refiner", "deliver"} : Running(f) /\ Return
  BY DEF Announced, OvertakenReturns, HandlersReturn, SpeechReturns, RefinerReturns, Deliver
<1>2. CallsKeep /\ ~Failing' /\ ~Failing
  BY <1>1, GoneBack, OthersFail
<1>3. state' = state /\ microphone' = microphone /\ audio' = audio /\ speech' = speech /\ media' = media
  BY DEF Announced, OvertakenReturns, HandlersReturn, SpeechReturns, RefinerReturns, Deliver, microphoneVars
<1> QED BY <1>2, <1>3, KeptFollows, KeptAsks

LEMMA GoesOnFollows ==
    ASSUME Inv, Follows, failsInHandler' = failsInHandler,
           \/ ClearTranscript \/ ShowPopup \/ Resumed \/ PassOver \/ Ready \/ Refine \/ PrepareNext
    PROVE  Follows' /\ Asks
<1>1. state' = state /\ microphone' = microphone /\ audio' = audio /\ speech' = speech /\ media' = media
  BY DEF ClearTranscript, ShowPopup, Resumed, PassOver, Ready, Refine, PrepareNext, microphoneVars
<1>2. CallsKeep /\ ~Failing'
  <2>1. CASE ClearTranscript
    <3>1. Running("started") /\ GoOn(<<"handlers", "showPopup">>)
      BY <2>1 DEF ClearTranscript
    <3>2. /\ {"handlers", "showPopup"} \subseteq Frames /\ {"handlers", "showPopup"} \cap GoesPast = {}
          /\ {"handlers", "showPopup"} \cap {"stopMicrophone", "speechFailed"} = {}
      BY DEF Frames, GoesPast
    <3> QED BY <3>1, <3>2, GoneOnWithTwo
  <2>2. CASE ShowPopup
    <3>1. Running("showPopup") /\ GoOn(<<"handlers">>)
      BY <2>2 DEF ShowPopup
    <3> QED BY <3>1, GoneOnWith DEF Frames, GoesPast
  <2>3. CASE Resumed
    <3>1. Running("resumed") /\ GoOn(<<"speech", "startMicrophone">>)
      BY <2>3 DEF Resumed
    <3>2. state = "Listening"
      BY <3>1, Runs DEF FrameFits
    <3> QED BY <3>1, <3>2, GoneOnWithTwo DEF Frames
  <2>4. CASE PassOver
    <3>1. GoOn(<<"handlers", "walk">>) /\ (Running("walk") \/ Running("walkOn"))
      BY <2>4 DEF PassOver, Walking
    <3>2. Running("walkOn") => state = "Refining"
      BY Runs DEF FrameFits
    <3> QED BY <3>1, <3>2, GoneOnWithTwo DEF Frames, GoesPast
  <2>5. CASE Ready
    <3>1. GoOn(<<"handlers", "startRefiner">>) /\ (Running("walk") \/ Running("walkOn"))
      BY <2>5 DEF Ready, Walking
    <3>2. Running("walkOn") => state = "Refining"
      BY Runs DEF FrameFits
    <3> QED BY <3>1, <3>2, GoneOnWithTwo DEF Frames, GoesPast
  <2>6. CASE Refine
    <3>1. Running("refine") /\ GoOn(<<"refiner">>)
      BY <2>6 DEF Refine
    <3> QED BY <3>1, GoneOnWith DEF Frames, GoesPast
  <2>7. CASE PrepareNext
    <3>1. Running("prepareNext") /\ GoOn(<<"walk">>)
      BY <2>7 DEF PrepareNext
    <3>2. state = "Refining"
      BY <3>1, Runs DEF FrameFits
    <3> QED BY <3>1, <3>2, GoneOnWith DEF Frames
  <2> QED BY <2>1, <2>2, <2>3, <2>4, <2>5, <2>6, <2>7
<1>3. ~Failing
  <2>1. \E f \in {"started", "showPopup", "resumed", "walk", "walkOn", "refine", "prepareNext"} : Running(f)
    BY DEF ClearTranscript, ShowPopup, Resumed, PassOver, Ready, Refine, PrepareNext, Walking
  <2> QED BY <2>1, OthersFail
<1> QED BY <1>1, <1>2, <1>3, KeptFollows, KeptAsks

LEMMA CallsFollow ==
    ASSUME Inv, Follows, failsInHandler' = failsInHandler,
           startFollowUp \/ continueStartupAfterPopup \/ TargetCaptured \/ PreparationEnds
    PROVE  Follows' /\ Asks
<1>1. /\ state' = state /\ microphone' = microphone /\ audio' = audio /\ speech' = speech /\ media' = media
      /\ MayCall
  BY DEF startFollowUp, continueStartupAfterPopup, TargetCaptured, PreparationEnds, microphoneVars, MayCall
<1>2. FramesOf(calls) \cap AtOnce = {} /\ ~Failing
  <2>1. Free \/ Running("handlers")
    BY <1>1 DEF MayCall, Handling
  <2>2. ~Failing
    BY <2>1 DEF Failing, Running, Free
  <2> QED BY <1>1, <2>2, CallFrames
<1>3. CallsKeep /\ ~Failing'
  <2>1. CASE calls' = calls
    BY <1>2, <2>1, SameCalls
  <2>2. CASE startFollowUp
    <3>1. calls' = <<"handlers", "startFollowUp">> \o calls
      BY <2>2 DEF startFollowUp
    <3> QED BY <1>2, <3>1, CalledWithTwo DEF Frames, GoesPast
  <2>3. CASE continueStartupAfterPopup
    <3>1. \/ calls' = <<"captured">> \o calls \/ calls' = <<"handlers", "captured">> \o calls \/ calls' = calls
      BY <2>3 DEF continueStartupAfterPopup
    <3>2. CASE calls' = <<"captured">> \o calls
      BY <1>2, <3>2, CalledWith DEF Frames, GoesPast
    <3>3. CASE calls' = <<"handlers", "captured">> \o calls
      BY <1>2, <3>3, CalledWithTwo DEF Frames, GoesPast
    <3> QED BY <2>1, <3>1, <3>2, <3>3
  <2>4. CASE TargetCaptured
    <3>1. calls = <<>> /\ calls' = <<"captured">>
      BY <2>4 DEF TargetCaptured, Free
    <3>2. calls' = <<"captured">> \o calls
      BY <3>1
    <3> QED BY <1>2, <3>2, CalledWith DEF Frames, GoesPast
  <2>5. CASE PreparationEnds
    <3>1. state # "Stopping"
      BY <2>5 DEF PreparationEnds, Inv, RefinementFits
    <3>2. /\ calls = <<>>
          /\ calls' = <<"handlers", "walk">> \/ calls' = <<"walkOn">> \/ calls' = <<"handlers", "startRefiner">>
      BY <2>5 DEF PreparationEnds, Free
    <3>3. \/ calls' = <<"handlers", "walk">> \o calls \/ calls' = <<"walkOn">> \o calls
          \/ calls' = <<"handlers", "startRefiner">> \o calls
      BY <3>2
    <3>4. CASE calls' = <<"handlers", "walk">> \o calls
      BY <1>2, <3>1, <3>4, CalledWithTwo DEF Frames
    <3>5. CASE calls' = <<"walkOn">> \o calls
      BY <1>2, <3>1, <3>5, CalledWith DEF Frames
    <3>6. CASE calls' = <<"handlers", "startRefiner">> \o calls
      BY <1>2, <3>1, <3>6, CalledWithTwo DEF Frames
    <3> QED BY <3>3, <3>4, <3>5, <3>6
  <2> QED BY <2>2, <2>3, <2>4, <2>5
<1> QED BY <1>1, <1>2, <1>3, KeptFollows, KeptAsks

-----------------------------------------------------------------------------
(* What the speech and the microphone do, in their state.                    *)

LEMMA BelowWaits ==
    ASSUME Inv, NEW f, In(f), f \notin {"stopMicrophone", "resumePausedMedia"},
           NEW top \in Seq(Frames), calls' = top \o Below(f), "stopMicrophone" \notin FramesOf(top)
    PROVE  /\ calls' \in Seq(Frames) /\ WaitsKeep
           /\ "speechFailed" \notin FramesOf(top) => ~Failing'
<1> DEFINE stack == Below(f)
<1>1. /\ stack \in Seq(Frames) /\ FramesOf(stack) \cap AtOnce = {}
      /\ FramesOf(stack) \subseteq FramesOf(calls) /\ FramesOf(calls) \subseteq {f} \cup FramesOf(stack)
  BY BelowFrames
<1>2. calls' = top \o stack
  OBVIOUS
<1> HIDE DEF stack
<1>3. calls' \in Seq(Frames) /\ FramesOf(calls)' = FramesOf(top) \cup FramesOf(stack) /\ WaitsKeep
  BY <1>1, <1>2, StackWaits
<1>4. "speechFailed" \notin FramesOf(top) => "speechFailed" \notin FramesOf(calls)'
  BY <1>1, <1>3 DEF AtOnce
<1> QED BY <1>3, <1>4, NotFailing

LEMMA InDoesNotFail ==
    ASSUME NEW f, In(f), f # "speechFailed"
    PROVE  ~Failing
BY DEF In, Free, Failing, Running

(* Before the session stops, the media may be paused. *)
LEMMA LiveFollows ==
    ASSUME Follows, WaitsKeep, state' = state, state \in {"Starting", "Listening", "Paused"},
           microphone' = microphone, audio' = audio,
           microphone # "Off" => speech'.started,
           state = "Starting" /\ microphone # "Off" /\ speech'.phase = "Starting" => speech'.asked
    PROVE  Follows'
<1>1. Heard'
  BY DEF Follows, Heard, DeviceFits, WaitsKeep
<1>2. MediaFits'
  BY DEF MediaFits, Live
<1> QED BY <1>1, <1>2 DEF Follows

LEMMA TextArrivesFollows ==
    ASSUME Inv, Follows, failsInHandler' = failsInHandler, TextArrives
    PROVE  Follows' /\ Asks
<1>1. /\ state' = state /\ microphone' = microphone /\ audio' = audio /\ speech' = speech /\ media' = media
      /\ calls' = calls /\ In("speech")
  BY DEF TextArrives, microphoneVars
<1>2. CallsKeep /\ ~Failing /\ ~Failing'
  BY <1>1, SameCalls, InDoesNotFail
<1> QED BY <1>1, <1>2, KeptFollows, KeptAsks

LEMMA ResumePausedMediaFollows ==
    ASSUME Inv, Follows, ResumePausedMedia
    PROVE  Follows' /\ Asks
<1>1. /\ state' = state /\ microphone' = microphone /\ audio' = audio /\ speech' = speech /\ media' = FALSE
      /\ Running("resumePausedMedia") /\ Return
  BY DEF ResumePausedMedia, microphoneVars
<1>2. CallsAre(FramesOf(Tail(calls))) /\ FramesOf(calls) = {"resumePausedMedia"} \cup FramesOf(Tail(calls))
      /\ FramesOf(Tail(calls)) \cap AtOnce = {}
  BY <1>1, Returned, Runs
<1>3. calls' \in Seq(Frames) /\ FramesOf(calls)' = FramesOf(Tail(calls))
  BY <1>2 DEF CallsAre
<1>4. "speechFailed" \notin FramesOf(calls)' /\ (Waits("stopMicrophone")' <=> Waits("stopMicrophone"))
  BY <1>2, <1>3 DEF Waits, AtOnce
<1>5. ~Failing' /\ ~Failing
  BY <1>1, <1>3, <1>4, NotFailing, OthersFail
<1>6. Heard'
  BY <1>1, <1>4 DEF Follows, Heard, DeviceFits
<1>7. MediaFits'
  BY <1>1 DEF MediaFits
<1> QED BY <1>1, <1>5, <1>6, <1>7, KeptAsks DEF Follows

LEMMA speechChainExhaustedFollows ==
    ASSUME Inv, Follows, speechChainExhausted
    PROVE  Follows' /\ Asks
<1>1. /\ state' = state /\ microphone' = microphone /\ audio' = audio /\ speech' = speech
      /\ Running("speechFailed") /\ state = "Starting" /\ GoOn(<<"handlers", "failStartup">>)
  BY DEF speechChainExhausted, microphoneVars
<1>2. CallsKeep /\ ~Failing'
  BY <1>1, GoneOnWithTwo DEF Frames
<1>3. Failing
  BY <1>1 DEF Failing
<1>4. Follows'
  BY <1>1, <1>2, LiveFollows DEF CallsKeep, Follows, Heard
<1> QED BY <1>1, <1>2, <1>3, <1>4, AsksSalvage

LEMMA continueStartupWithTargetFollows ==
    ASSUME Inv, Follows, continueStartupWithTarget
    PROVE  Follows' /\ Asks
<1>1. /\ state' = state /\ microphone' = microphone /\ audio' = audio /\ Running("captured")
  BY DEF continueStartupWithTarget, microphoneVars
<1>2. state = "Starting" /\ ~speech.started /\ speech.phase = "Starting" /\ microphone = "Off" /\ speech \in Speeches
  BY <1>1, Runs DEF FrameFits, StartFrames, Inv, TypeOK
<1>3. ~Failing
  BY <1>1, OthersFail
<1>4. CASE speech' = [speech EXCEPT !.started = TRUE] /\ GoOn(<<"speech">>)
  <2>1. CallsKeep /\ ~Failing'
    BY <1>1, <1>2, <1>4, GoneOnWith DEF Frames
  <2>2. speech'.phase = "Starting" /\ speech'.started = TRUE /\ speech'.asked = speech.asked
    BY <1>2, <1>4 DEF Speeches
  <2>3. Follows'
    BY <1>1, <1>2, <2>1, <2>2, LiveFollows DEF CallsKeep
  <2> QED BY <1>1, <1>2, <1>3, <2>1, <2>2, <2>3, AsksStart
<1>5. CASE speech' = speech /\ GoOn(<<"handlers", "failStartup">>)
  <2>1. CallsKeep /\ ~Failing'
    BY <1>1, <1>2, <1>5, GoneOnWithTwo DEF Frames
  <2>2. Follows'
    BY <1>1, <1>2, <1>5, <2>1, LiveFollows DEF CallsKeep
  <2> QED BY <1>1, <1>3, <1>5, <2>1, <2>2, KeptAsks
<1> QED BY <1>4, <1>5 DEF continueStartupWithTarget

LEMMA readyToListenFollows ==
    ASSUME Inv, Follows, readyToListen
    PROVE  Follows' /\ Asks
<1>1. /\ In("speech") /\ speech.phase = "Starting" /\ speech.started /\ ~speech.asked
      /\ speech' = [speech EXCEPT !.asked = TRUE] /\ state' = state
      /\ microphone' = "Starting" /\ audio' = "starting" /\ calls' = Below("speech") /\ speech \in Speeches
  BY DEF readyToListen, StartsMicrophone, Inv, TypeOK
<1>2. state = "Starting"
  BY <1>1 DEF Inv, SpeechFits
<1>3. WaitsKeep /\ ~Failing'
  <2>1. Below("speech") \in Seq(Frames)
    BY <1>1, BelowFrames
  <2>2. calls' = <<>> \o Below("speech")
    BY <1>1, <2>1
  <2> QED BY <1>1, <2>2, NoFrames, BelowWaits
<1>4. speech'.phase = "Starting" /\ speech'.started /\ speech'.started = speech.started /\ speech'.asked = TRUE
  BY <1>1 DEF Speeches
<1>5. Heard'
  BY <1>1, <1>2, <1>3, <1>4 DEF Follows, Heard, DeviceFits, WaitsKeep
<1>6. MediaFits'
  BY <1>1, <1>2 DEF MediaFits, Live
<1>7. ~Failing
  BY <1>1, InDoesNotFail
<1> QED BY <1>1, <1>3, <1>4, <1>5, <1>6, <1>7, AsksReady DEF Follows

LEMMA SpeechEndedFollows ==
    ASSUME Inv, Follows, failsInHandler' = failsInHandler, SpeechEnded
    PROVE  Follows' /\ Asks
<1>1. /\ In("speech") /\ speech.phase = "Stopping" /\ speech.stopped
      /\ speech' = [speech EXCEPT !.phase = "Idle"] /\ state' = state /\ microphone' = microphone
      /\ audio' = audio /\ media' = media /\ calls' = <<"beginRefinement">> \o Below("speech") /\ speech \in Speeches
  BY DEF SpeechEnded, microphoneVars, Inv, TypeOK
<1>2. microphone = "Off" /\ audio = "off" /\ state = "Stopping"
  BY <1>1 DEF Inv, SpeechFits, MicrophoneFits
<1>3. WaitsKeep /\ ~Failing'
  <2>1. <<"beginRefinement">> \in Seq(Frames) /\ FramesOf(<<"beginRefinement">>) = {"beginRefinement"}
    BY OneFrame DEF Frames
  <2> QED BY <1>1, <2>1, BelowWaits
<1>4. speech'.phase = "Idle" /\ speech'.started = speech.started /\ speech'.asked = speech.asked
  BY <1>1 DEF Speeches
<1>5. Heard'
  BY <1>1, <1>2, <1>3, <1>4 DEF Follows, Heard, DeviceFits, WaitsKeep
<1>6. MediaFits'
  BY <1>1, <1>2, <1>3 DEF Follows, MediaFits, Live, WaitsKeep
<1>7. ~Failing
  BY <1>1, InDoesNotFail
<1> QED BY <1>1, <1>2, <1>3, <1>4, <1>5, <1>6, <1>7, AsksEnded DEF Follows

LEMMA SpeechFailsFollows ==
    ASSUME Inv, Follows, failsInHandler' = failsInHandler, SpeechFails
    PROVE  Follows' /\ Asks
<1>1. /\ In("speech") \/ (Handling /\ failsInHandler)
      /\ speech.phase # "Idle" /\ speech.started /\ speech' = [speech EXCEPT !.phase = "Idle"]
      /\ state' = state /\ microphone' = microphone /\ audio' = audio /\ media' = media
      /\ calls' = <<"speechFailed">> \o Below("speech") /\ speech \in Speeches
  BY DEF SpeechFails, microphoneVars, Inv, TypeOK
<1>2. <<"speechFailed">> \in Seq(Frames) /\ FramesOf(<<"speechFailed">>) = {"speechFailed"}
  BY OneFrame DEF Frames
<1>3. WaitsKeep /\ calls' \in Seq(Frames)
  <2>1. CASE In("speech")
    BY <1>1, <1>2, <2>1, BelowWaits
  <2>2. CASE Handling
    <3>1. calls \in Seq(Frames) /\ Below("speech") = calls
      BY <2>2, CallFrames DEF MayCall, Handling, Running, Below
    <3>2. "none" \notin {"stopMicrophone", "resumePausedMedia"} /\ FramesOf(calls) \subseteq {"none"} \cup FramesOf(calls)
      OBVIOUS
    <3> QED BY <1>1, <1>2, <3>1, <3>2, StackWaits
  <2> QED BY <1>1, <2>1, <2>2
<1>4. speech'.phase = "Idle" /\ speech'.started = speech.started /\ speech'.asked = speech.asked
      /\ speech'.stopped = speech.stopped
  BY <1>1 DEF Speeches
<1>5. Heard'
  BY <1>1, <1>3, <1>4 DEF Follows, Heard, DeviceFits, WaitsKeep
<1>6. MediaFits'
  <2> SUFFICES ASSUME ~failsInHandler, media, In("speech") PROVE MediaFits'
    BY <1>1 DEF MediaFits
  <2>1. state = speech.phase
    BY <1>1 DEF Inv, SpeechFits
  <2>2. ~Waits("stopMicrophone") \/ "speech" \in FramesOf(calls)
    BY Runs, FreeFrames DEF In, Waits
  <2> QED BY <1>1, <1>3, <2>1, <2>2 DEF Follows, MediaFits, Live, WaitsKeep, GoesPast, Speeches
<1>7. Failing'
  <2>1. Below("speech") \in Seq(Frames)
    BY <1>1, BelowFrames, CallFrames DEF MayCall, Handling, Running, Below
  <2>2. calls' # <<>> /\ Head(calls') = "speechFailed"
    BY <1>1, <1>2, <2>1
  <2> QED BY <2>2 DEF Failing, Running
<1> QED BY <1>1, <1>4, <1>5, <1>6, <1>7, AsksFailed DEF Follows

LEMMA ProceedFollows ==
    ASSUME Inv, Follows, failsInHandler' = failsInHandler, Proceed
    PROVE  Follows' /\ Asks
<1>1. /\ Running("proceed") /\ GoOn(<<"speech">>) /\ state' = state /\ microphone' = microphone
      /\ audio' = audio /\ media' = media /\ speech' = [speech EXCEPT !.stopped = (speech.phase = "Stopping")]
      /\ speech \in Speeches
  BY DEF Proceed, microphoneVars, Inv, TypeOK
<1>2. microphone = "Off" /\ state \in {"Paused", "Stopping"} /\ "proceed" \in FramesOf(calls)
  BY <1>1, Runs DEF FrameFits
<1>3. CallsKeep /\ ~Failing' /\ ~Failing
  BY <1>1, GoneOnWith, OthersFail DEF Frames, GoesPast
<1>4. speech'.phase = speech.phase /\ speech'.started = speech.started /\ speech'.asked = speech.asked
  BY <1>1 DEF Speeches
<1>5. Heard'
  BY <1>1, <1>2, <1>3 DEF Follows, Heard, DeviceFits, CallsKeep, WaitsKeep
<1>6. MediaFits'
  BY <1>1, <1>2, <1>3 DEF Follows, MediaFits, Live, CallsKeep, WaitsKeep, GoesPast
<1> QED BY <1>1, <1>3, <1>4, <1>5, <1>6, AsksNothing DEF Follows

LEMMA StartMicrophoneFollows ==
    ASSUME Inv, Follows, StartMicrophone
    PROVE  Follows' /\ Asks
<1>1. /\ Running("startMicrophone") /\ Return /\ state' = state /\ speech' = speech
      /\ microphone' = "Starting" /\ audio' = "starting"
  BY DEF StartMicrophone, StartsMicrophone
<1>2. CallsKeep /\ ~Failing' /\ ~Failing
  BY <1>1, GoneBack, OthersFail
<1>3. state = "Listening" /\ ~Running("speechFailed")
  BY <1>1, <1>2, Runs DEF FrameFits, Failing
<1>4. speech.phase = "Listening" /\ speech.started
  BY <1>3, HearingFrames DEF Inv, SpeechFits
<1>5. Heard'
  BY <1>1, <1>2, <1>3, <1>4 DEF Follows, Heard, DeviceFits, CallsKeep, WaitsKeep
<1>6. MediaFits'
  BY <1>1, <1>3 DEF MediaFits, Live
<1> QED BY <1>1, <1>2, <1>4, <1>5, <1>6, AsksMicrophone DEF Follows

LEMMA UndoPauseFollows ==
    ASSUME Inv, Follows, failsInHandler' = failsInHandler, UndoPause
    PROVE  Follows' /\ Asks
<1>1. /\ MayCall /\ microphone = "Pausing" /\ state' = state /\ speech' = speech /\ calls' = calls
      /\ microphone' = "Starting" /\ audio' = "starting" /\ media' = media
  BY DEF UndoPause, StartsMicrophone
<1>2. CallsKeep /\ ~Failing' /\ ~Failing
  <2>1. Free \/ Running("handlers")
    BY <1>1 DEF MayCall, Handling
  <2>2. ~Failing
    BY <2>1 DEF Failing, Running, Free
  <2> QED BY <1>1, <2>2, SameCalls
<1>3. audio # "off" /\ state \in {"Listening", "Stopping"}
  BY <1>1 DEF Follows, Heard, DeviceFits
<1>4. Heard'
  BY <1>1, <1>2, <1>3 DEF Follows, Heard, DeviceFits, CallsKeep, WaitsKeep
<1>5. MediaFits'
  BY <1>1, <1>3 DEF MediaFits, Live
<1> QED BY <1>1, <1>2, <1>3, <1>4, <1>5, AsksNothing DEF Follows

-----------------------------------------------------------------------------
(* Steps that leave their state.                                             *)

LEMMA SetWaits ==
    ASSUME NEW next, NEW frames \in Seq(Frames), NEW stack \in Seq(Frames),
           FramesOf(frames) \cap AtOnce = {}, FramesOf(stack) \cap AtOnce = {},
           setState(next, frames, stack) \/ setStateAfresh(next, frames, stack)
    PROVE  /\ state' = next /\ calls' \in Seq(Frames) /\ ~Failing'
           /\ Waits("stopMicrophone")' => "stopMicrophone" \in FramesOf(frames) \cup FramesOf(stack)
           /\ setStateAfresh(next, frames, stack) /\ Waits("stopMicrophone")' => "stopMicrophone" \in FramesOf(frames)
           /\ FramesOf(frames) \subseteq FramesOf(calls)'
           /\ "resumePausedMedia" \in FramesOf(stack) => Waits("resumePausedMedia")'
           /\ "walk" \notin FramesOf(stack) => FramesOf(calls)' \cap GoesPast \subseteq FramesOf(frames)
<1>1. state' = next
  BY DEF setState, setStateAfresh
<1> DEFINE all == StepGuarded \cup GenerationGuarded \cup WalkGuarded
           telling == <<"handlers", "announced">>
<1>2. PICK guarded \in {StepGuarded, all} :
        /\ calls' = telling \o frames \o Overtake(stack, guarded)
        /\ setStateAfresh(next, frames, stack) => guarded = all
  <2>1. CASE setStateAfresh(next, frames, stack)
    BY <2>1 DEF setStateAfresh
  <2>2. CASE setState(next, frames, stack) /\ ~setStateAfresh(next, frames, stack)
    BY <2>2 DEF setState
  <2> QED BY <2>1, <2>2
<1> DEFINE past == Overtake(stack, guarded)
           top == telling \o frames
<1>3. /\ past \in Seq(Frames)
      /\ FramesOf(past) \subseteq (FramesOf(stack) \ guarded) \cup {"overtaken"}
      /\ FramesOf(stack) \ guarded \subseteq FramesOf(past)
  BY OvertakenFrames
<1>4. telling \in Seq(Frames) /\ FramesOf(telling) = {"handlers", "announced"}
  BY TwoFrames DEF Frames
<1>5. calls' = top \o past
  BY <1>2
<1> HIDE DEF past, telling
<1>6. top \in Seq(Frames) /\ FramesOf(top) = {"handlers", "announced"} \cup FramesOf(frames)
  BY <1>4, PushedFrames
<1> HIDE DEF top
<1>7. calls' \in Seq(Frames) /\ FramesOf(calls)' = {"handlers", "announced"} \cup FramesOf(frames) \cup FramesOf(past)
  <2>1. top \o past \in Seq(Frames) /\ FramesOf(top \o past) = FramesOf(top) \cup FramesOf(past)
    BY <1>3, <1>6, PushedFrames
  <2> QED BY <1>5, <1>6, <2>1 DEF FramesOf
<1>8. ~Failing'
  <2>1. "speechFailed" \notin FramesOf(calls)'
    BY <1>3, <1>7 DEF AtOnce
  <2> QED BY <1>7, <2>1, NotFailing
<1>9. /\ Waits("stopMicrophone")' => "stopMicrophone" \in FramesOf(frames) \cup FramesOf(stack)
      /\ FramesOf(frames) \subseteq FramesOf(calls)'
  BY <1>3, <1>7 DEF Waits
<1>10. setStateAfresh(next, frames, stack) /\ Waits("stopMicrophone")' => "stopMicrophone" \in FramesOf(frames)
  BY <1>2, <1>3, <1>7 DEF Waits, GenerationGuarded
<1>11. "resumePausedMedia" \in FramesOf(stack) => Waits("resumePausedMedia")'
  <2>1. "resumePausedMedia" \notin guarded
    <3>1. "resumePausedMedia" \notin all /\ "resumePausedMedia" \notin StepGuarded
      BY DEF StepGuarded, GenerationGuarded, WalkGuarded
    <3> HIDE DEF all
    <3> QED BY <1>2, <3>1
  <2> QED BY <1>3, <1>7, <2>1 DEF Waits
<1>12. ASSUME "walk" \notin FramesOf(stack) PROVE FramesOf(calls)' \cap GoesPast \subseteq FramesOf(frames)
  <2>1. {"proceed", "beginRefinement", "startRefiner"} \subseteq guarded
    BY <1>2 DEF StepGuarded
  <2>2. FramesOf(past) \cap GoesPast = {}
    BY <1>3, <1>12, <2>1 DEF GoesPast, AtOnce
  <2> QED BY <1>7, <2>2 DEF GoesPast
<1> QED BY <1>1, <1>7, <1>8, <1>9, <1>10, <1>11, <1>12

(* Out of a dictation, with the media played again or about to be. *)
LEMMA OutFollows ==
    ASSUME state' \notin Live, microphone' = "Off", audio' = "off",
           ~failsInHandler' /\ media' => Waits("resumePausedMedia")'
    PROVE  Follows'
<1>1. Heard'
  BY DEF Heard, DeviceFits, Live
<1>2. MediaFits'
  BY DEF MediaFits, Live
<1> QED BY <1>1, <1>2 DEF Follows

LEMMA LeavesFollow ==
    ASSUME Inv, Follows, failsInHandler' = failsInHandler, microphone = "Off",
           state \notin Live \/ (state = "Stopping" /\ FramesOf(calls) \cap GoesPast # {}),
           NEW next, next \notin Live, NEW frames \in Seq(Frames), NEW stack \in Seq(Frames),
           FramesOf(frames) \cap AtOnce = {}, FramesOf(stack) \cap AtOnce = {},
           setState(next, frames, stack) \/ setStateAfresh(next, frames, stack),
           Waits("resumePausedMedia") => "resumePausedMedia" \in FramesOf(stack),
           microphone' = microphone, audio' = audio, media' = media
    PROVE  Follows' /\ ~Failing'
<1>1. audio = "off"
  BY DEF Inv, MicrophoneFits
<1>2. ~failsInHandler /\ media => Waits("resumePausedMedia")
  BY DEF Follows, MediaFits, Live
<1>3. state' = next /\ ~Failing' /\ ("resumePausedMedia" \in FramesOf(stack) => Waits("resumePausedMedia")')
  BY SetWaits
<1>4. ~failsInHandler' /\ media' => Waits("resumePausedMedia")'
  BY <1>2, <1>3
<1> QED BY <1>1, <1>3, <1>4, OutFollows

LEMMA LeavesAloneFollow ==
    ASSUME Inv, Follows, failsInHandler' = failsInHandler, microphone = "Off",
           state \notin Live \/ (state = "Stopping" /\ FramesOf(calls) \cap GoesPast # {}),
           NEW next, next \notin Live, NEW stack \in Seq(Frames), FramesOf(stack) \cap AtOnce = {},
           setState(next, <<>>, stack) \/ setStateAfresh(next, <<>>, stack),
           Waits("resumePausedMedia") => "resumePausedMedia" \in FramesOf(stack),
           microphone' = microphone, audio' = audio, media' = media
    PROVE  Follows' /\ ~Failing'
BY NoFrames, LeavesFollow

LEMMA LeavesWithFollow ==
    ASSUME Inv, Follows, failsInHandler' = failsInHandler, microphone = "Off",
           state \notin Live \/ (state = "Stopping" /\ FramesOf(calls) \cap GoesPast # {}),
           NEW next, next \notin Live, NEW f \in Frames \ AtOnce,
           NEW stack \in Seq(Frames), FramesOf(stack) \cap AtOnce = {},
           setState(next, <<f>>, stack),
           Waits("resumePausedMedia") => "resumePausedMedia" \in FramesOf(stack),
           microphone' = microphone, audio' = audio, media' = media
    PROVE  Follows' /\ ~Failing'
<1>1. <<f>> \in Seq(Frames) /\ FramesOf(<<f>>) \cap AtOnce = {}
  BY OneFrame
<1> QED BY <1>1, LeavesFollow

LEMMA FailSessionFollows ==
    ASSUME Inv, NEW stack \in Seq(Frames), FramesOf(stack) \cap AtOnce = {},
           NEW target, NEW pipeline, NEW refines, FailSessionWith(target, pipeline, refines, stack)
    PROVE  Follows' /\ ~Failing' /\ audio' = "off"
<1>1. microphone' = "Off" /\ audio' = "off" /\ media' = FALSE
  BY DEF FailSessionWith, abortMicrophone, Inv, MicrophoneFits
<1>2. PICK next \in {"Reviewing", "Error"} : setState(next, <<>>, stack)
  BY DEF FailSessionWith
<1>3. state' = next /\ ~Failing'
  BY <1>2, NoFrames, SetWaits
<1> QED BY <1>1, <1>3, OutFollows DEF Live

LEMMA EndSessionFollows ==
    ASSUME Inv, MayCall, NEW kept, NEW next \in {"Idle", "Reviewing"}, EndSession(kept, next)
    PROVE  Follows' /\ Asks
<1>1. microphone' = "Off" /\ audio' = "off" /\ media' = FALSE /\ speech' = NoSpeech
  BY DEF EndSession, discard, abortMicrophone, Inv, MicrophoneFits
<1>2. setStateAfresh(next, <<>>, calls)
  BY DEF EndSession
<1>3. state' = next /\ ~Failing'
  BY <1>2, NoFrames, CallFrames, SetWaits
<1> QED BY <1>1, <1>3, OutFollows, AsksCancel DEF Live

-----------------------------------------------------------------------------
(* Failing, refining and delivering.                                         *)

LEMMA FailStartupFollows ==
    ASSUME Inv, FailStartup
    PROVE  Follows' /\ Asks
<1>1. /\ Running("failStartup") /\ FailSessionWith(selection, edits, refining, Tail(calls)) /\ speech' = speech
  BY DEF FailStartup, failSession
<1>2. Tail(calls) \in Seq(Frames) /\ FramesOf(Tail(calls)) \cap AtOnce = {} /\ FrameFits("failStartup")
  BY <1>1, Runs
<1>3. Follows' /\ ~Failing' /\ audio' = "off"
  BY <1>1, <1>2, FailSessionFollows
<1>4. ~Failing
  BY <1>1, OthersFail
<1>5. speech.phase = "Idle" \/ ((audio' = "off") <=> (audio = "off"))
  BY <1>2, <1>3 DEF FrameFits, GoneFrames, SpeechGone, Inv, MicrophoneFits
<1> QED BY <1>1, <1>3, <1>4, <1>5, AsksNothing

LEMMA endSpeechAfterFailureFollows ==
    ASSUME Inv, Follows, failsInHandler' = failsInHandler, endSpeechAfterFailure
    PROVE  Follows' /\ Asks
<1>1. Running("speechFailed")
  BY DEF endSpeechAfterFailure
<1> DEFINE stack == Tail(calls)
<1>2. /\ stack \in Seq(Frames) /\ FramesOf(stack) \cap AtOnce = {}
      /\ FramesOf(calls) = {"speechFailed"} \cup FramesOf(stack) /\ FrameFits("speechFailed")
  BY <1>1, Runs
<1> HIDE DEF stack
<1>3. CASE text /\ hearing
  <2>1. speech' = NoSpeech /\ abortMicrophone
        /\ setState("Stopping", <<"resumePausedMedia", "beginRefinement">>, stack)
    BY <1>3 DEF endSpeechAfterFailure, stack
  <2>2. microphone' = "Off" /\ audio' = "off"
    BY <2>1 DEF abortMicrophone, Inv, MicrophoneFits
  <2>3. {"resumePausedMedia", "beginRefinement"} \subseteq Frames
        /\ {"resumePausedMedia", "beginRefinement"} \cap AtOnce = {}
    BY DEF Frames, AtOnce
  <2>4. /\ <<"resumePausedMedia", "beginRefinement">> \in Seq(Frames)
        /\ FramesOf(<<"resumePausedMedia", "beginRefinement">>) = {"resumePausedMedia", "beginRefinement"}
    BY <2>3, TwoFrames
  <2>5. state' = "Stopping" /\ ~Failing' /\ "resumePausedMedia" \in FramesOf(calls)'
    BY <1>2, <2>1, <2>3, <2>4, SetWaits
  <2>6. Heard' /\ MediaFits'
    BY <2>2, <2>5 DEF Heard, DeviceFits, MediaFits, Waits, Live
  <2> QED BY <2>1, <2>5, <2>6, AsksCancel DEF Follows
<1>4. CASE ~(text /\ hearing) /\ text /\ state = "Stopping"
  <2>1. /\ GoOn(<<"beginRefinement">>) /\ state' = state /\ speech' = speech
        /\ IF microphone # "Off" THEN abortMicrophone /\ media' = FALSE
           ELSE microphone' = microphone /\ audio' = audio /\ media' = media
    BY <1>4 DEF endSpeechAfterFailure, microphoneVars
  <2>2. microphone' = "Off" /\ audio' = "off"
    BY <2>1 DEF abortMicrophone, Inv, MicrophoneFits
  <2>3. CallsKeep /\ ~Failing'
    BY <1>1, <2>1, GoneOnWith DEF Frames, GoesPast
  <2>4. Heard'
    BY <1>4, <2>1, <2>2 DEF Heard, DeviceFits
  <2>5. MediaFits'
    <3>1. CASE microphone # "Off"
      BY <2>1, <3>1 DEF MediaFits
    <3>2. CASE microphone = "Off"
      <4>1. media' = media /\ "speechFailed" \in FramesOf(calls) \cap GoesPast
        BY <1>2, <2>1, <3>2 DEF GoesPast
      <4>2. ~failsInHandler /\ media => Waits("resumePausedMedia")'
        BY <1>4, <2>3, <3>2, <4>1 DEF Follows, MediaFits, CallsKeep, WaitsKeep
      <4> QED BY <1>4, <2>1, <4>1, <4>2 DEF MediaFits, Live
    <3> QED BY <3>1, <3>2
  <2>6. speech.phase = "Idle" \/ audio' = audio
    BY <1>2, <2>1 DEF FrameFits, GoneFrames, SpeechGone, Follows, Heard
  <2>7. Failing
    BY <1>1 DEF Failing
  <2> QED BY <2>1, <2>3, <2>4, <2>5, <2>6, <2>7, AsksSalvage DEF Follows
<1>5. CASE ~(text /\ hearing) /\ ~(text /\ state = "Stopping")
  <2>1. speech' = NoSpeech /\ FailSessionWith(selection, edits, refining, stack)
    BY <1>5 DEF endSpeechAfterFailure, failSession, stack
  <2>2. Follows' /\ ~Failing'
    BY <1>2, <2>1, FailSessionFollows
  <2> QED BY <2>1, <2>2, AsksCancel
<1> QED BY <1>3, <1>4, <1>5

(* The words are delivered. *)
LEMMA DeliverFinalFollows ==
    ASSUME Inv, Follows, failsInHandler' = failsInHandler, microphone = "Off",
           state \notin Live \/ (state = "Stopping" /\ FramesOf(calls) \cap GoesPast # {}),
           NEW stack \in Seq(Frames), FramesOf(stack) \cap AtOnce = {}, deliverFinal(stack),
           Waits("resumePausedMedia") => "resumePausedMedia" \in FramesOf(stack),
           microphone' = microphone, audio' = audio, media' = media
    PROVE  Follows' /\ ~Failing'
<1>1. setState("Delivering", <<"deliver">>, stack)
  BY DEF deliverFinal
<1>2. "deliver" \in Frames \ AtOnce /\ "Delivering" \notin Live
  BY DEF Frames, AtOnce, Live
<1> QED BY <1>1, <1>2, LeavesWithFollow

LEMMA beginRefinementFollows ==
    ASSUME Inv, Follows, failsInHandler' = failsInHandler, beginRefinement
    PROVE  Follows' /\ Asks
<1>1. Running("beginRefinement") /\ speech' = speech
  BY DEF beginRefinement
<1> DEFINE stack == Tail(calls)
<1>2. /\ stack \in Seq(Frames) /\ FramesOf(stack) \cap AtOnce = {}
      /\ FramesOf(calls) = {"beginRefinement"} \cup FramesOf(stack) /\ FrameFits("beginRefinement")
  BY <1>1, Runs
<1>3. state = "Stopping" /\ microphone = "Off" /\ audio = "off"
  BY <1>2 DEF FrameFits, Inv, MicrophoneFits
<1>4. /\ FramesOf(calls) \cap GoesPast # {}
      /\ Waits("resumePausedMedia") => "resumePausedMedia" \in FramesOf(stack)
  BY <1>2 DEF GoesPast, Waits
<1>5. ~Failing
  BY <1>1, OthersFail
<1>6. \/ \E target, pipeline, refines : FailSessionWith(target, pipeline, refines, stack)
      \/ deliverFinal(stack) /\ UNCHANGED <<microphoneVars, media>>
      \/ GoOn(<<"walk">>) /\ UNCHANGED <<state, microphoneVars, media>>
  BY <1>3 DEF beginRefinement, failSession, failSelectionEdit
<1> HIDE DEF stack
<1>7. CASE \E target, pipeline, refines : FailSessionWith(target, pipeline, refines, stack)
  <2>1. Follows' /\ ~Failing' /\ audio' = "off"
    BY <1>2, <1>7, FailSessionFollows
  <2> QED BY <1>1, <1>3, <1>5, <2>1, KeptAsks
<1>8. CASE deliverFinal(stack) /\ UNCHANGED <<microphoneVars, media>>
  <2>1. microphone' = microphone /\ audio' = audio /\ media' = media
    BY <1>8 DEF microphoneVars
  <2>2. Follows' /\ ~Failing'
    BY <1>2, <1>3, <1>4, <1>8, <2>1, DeliverFinalFollows
  <2> QED BY <1>1, <1>5, <2>1, <2>2, KeptAsks
<1>9. CASE GoOn(<<"walk">>) /\ UNCHANGED <<state, microphoneVars, media>>
  <2>1. microphone' = microphone /\ audio' = audio /\ media' = media /\ state' = state
    BY <1>9 DEF microphoneVars
  <2>2. CallsKeep /\ ~Failing'
    BY <1>1, <1>9, GoneOnWith DEF Frames, GoesPast
  <2> QED BY <1>1, <1>5, <2>1, <2>2, KeptFollows, KeptAsks
<1> QED BY <1>6, <1>7, <1>8, <1>9

(* deliverWithoutRefinement(). *)
LEMMA WithoutRefinementFollows ==
    ASSUME Inv, Follows, failsInHandler' = failsInHandler, microphone = "Off",
           state \notin Live \/ (state = "Stopping" /\ FramesOf(calls) \cap GoesPast # {}),
           NEW stack \in Seq(Frames), FramesOf(stack) \cap AtOnce = {},
           Waits("resumePausedMedia") => "resumePausedMedia" \in FramesOf(stack),
           deliverWithoutRefinement(stack), speech' = speech, ~Failing
    PROVE  Follows' /\ Asks
<1>1. audio = "off"
  BY DEF Inv, MicrophoneFits
<1>2. CASE FailSessionWith(FALSE, FALSE, FALSE, stack)
  <2>1. Follows' /\ ~Failing' /\ audio' = "off"
    BY <1>2, FailSessionFollows
  <2> QED BY <1>1, <2>1, KeptAsks
<1>3. CASE deliverFinal(stack) /\ UNCHANGED <<microphoneVars, media>>
  <2>1. microphone' = microphone /\ audio' = audio /\ media' = media
    BY <1>3 DEF microphoneVars
  <2>2. Follows' /\ ~Failing'
    BY <1>3, <2>1, DeliverFinalFollows
  <2> QED BY <2>1, <2>2, KeptAsks
<1> QED BY <1>2, <1>3 DEF deliverWithoutRefinement, failSelectionEdit

LEMMA RefinersExhaustedFollows ==
    ASSUME Inv, Follows, failsInHandler' = failsInHandler, RefinersExhausted
    PROVE  Follows' /\ Asks
<1>1. Running("walk") /\ deliverWithoutRefinement(Tail(calls)) /\ speech' = speech
  BY DEF RefinersExhausted
<1>2. /\ Tail(calls) \in Seq(Frames) /\ FramesOf(Tail(calls)) \cap AtOnce = {}
      /\ FramesOf(calls) = {"walk"} \cup FramesOf(Tail(calls)) /\ FrameFits("walk")
  BY <1>1, Runs
<1>3. microphone = "Off" /\ state \in {"Stopping", "Refining"}
  BY <1>2 DEF FrameFits
<1>4. state \notin Live \/ (state = "Stopping" /\ FramesOf(calls) \cap GoesPast # {})
  BY <1>2, <1>3 DEF GoesPast, Live
<1>5. /\ Waits("resumePausedMedia") => "resumePausedMedia" \in FramesOf(Tail(calls))
      /\ ~Failing
  BY <1>1, <1>2, OthersFail DEF Waits
<1> QED BY <1>1, <1>2, <1>3, <1>4, <1>5, WithoutRefinementFollows

LEMMA EnterRefiningFollows ==
    ASSUME Inv, Follows, failsInHandler' = failsInHandler,
           NEW f \in {"walk", "walkOn", "startRefiner"}, Running(f),
           NEW frames \in {<<>>, <<"refine">>}, EnterRefining(frames, Tail(calls)),
           UNCHANGED <<microphoneVars, media, speech>>
    PROVE  Follows' /\ Asks
<1>1. microphone' = microphone /\ audio' = audio /\ media' = media /\ speech' = speech
  BY DEF microphoneVars
<1> DEFINE stack == Tail(calls)
<1>2. /\ stack \in Seq(Frames) /\ FramesOf(stack) \cap AtOnce = {}
      /\ FramesOf(calls) = {f} \cup FramesOf(stack) /\ FrameFits(f)
  BY Runs
<1>3. /\ microphone = "Off" /\ state \in {"Stopping", "Refining"}
      /\ state # "Refining" => f \in {"walk", "startRefiner"}
  BY <1>2 DEF FrameFits, Inv, MicrophoneFits
<1>4. /\ frames \in Seq(Frames) /\ FramesOf(frames) \subseteq {"refine"}
  <2>1. <<"refine">> \in Seq(Frames) /\ FramesOf(<<"refine">>) = {"refine"}
    BY OneFrame DEF Frames
  <2> QED BY <2>1, NoFrames
<1>5. FramesOf(frames) \cap AtOnce = {}
  BY <1>4 DEF AtOnce
<1>6. ~Failing
  BY OthersFail
<1>7. CASE state = "Refining"
  <2>1. GoOn(frames) /\ state' = state
    BY <1>7 DEF EnterRefining, GoOn
  <2>2. FramesOf(frames) \cap {"stopMicrophone", "speechFailed"} = {}
    BY <1>4
  <2>3. CallsKeep /\ ~Failing'
    BY <1>4, <1>7, <2>1, <2>2, GoneOn
  <2> QED BY <1>1, <1>6, <2>1, <2>3, KeptFollows, KeptAsks
<1>8. CASE state # "Refining"
  <2>1. setState("Refining", frames, stack)
    BY <1>8 DEF EnterRefining
  <2>2. state = "Stopping" /\ FramesOf(calls) \cap GoesPast # {} /\ "Refining" \notin Live
    BY <1>2, <1>3, <1>8 DEF GoesPast, Live
  <2>3. Waits("resumePausedMedia") => "resumePausedMedia" \in FramesOf(stack)
    BY <1>2 DEF Waits
  <2> HIDE DEF stack
  <2>4. Follows' /\ ~Failing'
    BY <1>1, <1>2, <1>3, <1>4, <1>5, <2>1, <2>2, <2>3, LeavesFollow
  <2> QED BY <1>1, <1>6, <2>4, KeptAsks
<1> QED BY <1>7, <1>8

LEMMA RefiningFollows ==
    ASSUME Inv, Follows, failsInHandler' = failsInHandler, Prepares \/ startRefiner
    PROVE  Follows' /\ Asks
<1>1. CASE Prepares
  <2>1. EnterRefining(<<>>, Tail(calls)) /\ UNCHANGED <<microphoneVars, media, speech>>
        /\ (Running("walk") \/ Running("walkOn"))
    BY <1>1 DEF Prepares, Walking
  <2> QED BY <2>1, EnterRefiningFollows
<1>2. CASE startRefiner
  <2>1. EnterRefining(<<"refine">>, Tail(calls)) /\ UNCHANGED <<microphoneVars, media, speech>>
        /\ Running("startRefiner")
    BY <1>2 DEF startRefiner
  <2> QED BY <2>1, EnterRefiningFollows
<1> QED BY <1>1, <1>2

(* What a refiner reports: the words are reviewed or delivered, the next     *)
(* refiner takes over, or the edit fails.                                    *)
LEMMA RefinerReportFollows ==
    ASSUME Inv, Follows, failsInHandler' = failsInHandler, RefinerReport
    PROVE  Follows' /\ Asks
<1> DEFINE stack == Below("refiner")
<1>1. RefinerReports /\ speech' = speech
  BY DEF RefinerReport, RefinerCompleted, RefinerFailed
<1>2. /\ stack \in Seq(Frames) /\ FramesOf(stack) \cap AtOnce = {}
      /\ FramesOf(calls) \subseteq {"refiner"} \cup FramesOf(stack)
      /\ state = "Refining" /\ microphone = "Off" /\ audio = "off"
  BY <1>1, RefinerReportFinds
<1>3. state \notin Live /\ (Waits("resumePausedMedia") => "resumePausedMedia" \in FramesOf(stack))
  BY <1>2 DEF Live, Waits
<1>4. ~Failing /\ In("refiner")
  BY <1>1, InDoesNotFail DEF RefinerReports
<1>5. \/ setState("Reviewing", <<>>, stack) /\ UNCHANGED <<microphoneVars, media>>
      \/ setState("Reviewing", <<"replace">>, stack) /\ UNCHANGED <<microphoneVars, media>>
      \/ deliverFinal(stack) /\ UNCHANGED <<microphoneVars, media>>
      \/ FailSessionWith(FALSE, FALSE, FALSE, stack)
      \/ deliverWithoutRefinement(stack)
      \/ calls' = <<"handlers", "prepareNext">> \o stack /\ UNCHANGED <<state, microphoneVars, media>>
  BY DEF RefinerReport, RefinerCompleted, RefinerFailed, failSelectionEdit
<1>6. \/ microphone' = microphone /\ audio' = audio /\ media' = media
      \/ ~UNCHANGED <<microphoneVars, media>>
  BY DEF microphoneVars
<1>7. CASE calls' = <<"handlers", "prepareNext">> \o stack /\ UNCHANGED <<state, microphoneVars, media>>
  <2>1. /\ <<"handlers", "prepareNext">> \in Seq(Frames)
        /\ FramesOf(<<"handlers", "prepareNext">>) = {"handlers", "prepareNext"}
    BY TwoFrames DEF Frames
  <2>2. WaitsKeep /\ ~Failing'
    BY <1>4, <1>7, <2>1, BelowWaits
  <2>3. CallsKeep /\ state' = state
    BY <1>2, <1>7, <2>2 DEF CallsKeep
  <2>4. microphone' = microphone /\ audio' = audio /\ media' = media
    BY <1>6, <1>7
  <2> QED BY <1>1, <1>4, <2>2, <2>3, <2>4, KeptFollows, KeptAsks
<1> HIDE DEF stack
<1>8. CASE setState("Reviewing", <<>>, stack) /\ UNCHANGED <<microphoneVars, media>>
  <2>1. Follows' /\ ~Failing' /\ audio' = audio
    BY <1>2, <1>3, <1>6, <1>8, LeavesAloneFollow DEF Live
  <2> QED BY <1>1, <1>4, <2>1, KeptAsks
<1>9. CASE setState("Reviewing", <<"replace">>, stack) /\ UNCHANGED <<microphoneVars, media>>
  <2>1. "replace" \in Frames \ AtOnce /\ "Reviewing" \notin Live
    BY DEF Frames, AtOnce, Live
  <2>2. Follows' /\ ~Failing' /\ audio' = audio
    BY <1>2, <1>3, <1>6, <1>9, <2>1, LeavesWithFollow
  <2> QED BY <1>1, <1>4, <2>2, KeptAsks
<1>10. CASE deliverFinal(stack) /\ UNCHANGED <<microphoneVars, media>>
  <2>1. Follows' /\ ~Failing' /\ audio' = audio
    BY <1>2, <1>3, <1>6, <1>10, DeliverFinalFollows
  <2> QED BY <1>1, <1>4, <2>1, KeptAsks
<1>11. CASE FailSessionWith(FALSE, FALSE, FALSE, stack)
  <2>1. Follows' /\ ~Failing' /\ audio' = "off"
    BY <1>2, <1>11, FailSessionFollows
  <2> QED BY <1>1, <1>2, <1>4, <2>1, KeptAsks
<1>12. CASE deliverWithoutRefinement(stack)
  BY <1>1, <1>2, <1>3, <1>4, <1>12, WithoutRefinementFollows
<1> QED BY <1>5, <1>7, <1>8, <1>9, <1>10, <1>11, <1>12

(* The revision replaces the selection, or the Target is asked first. *)
LEMMA DeliverRevisionFollows ==
    ASSUME Inv, Follows, failsInHandler' = failsInHandler, state = "Reviewing",
           NEW stack \in Seq(Frames), FramesOf(stack) \cap AtOnce = {}, deliverRevision(stack),
           Waits("resumePausedMedia") => "resumePausedMedia" \in FramesOf(stack), ~Failing
    PROVE  Follows' /\ Asks
<1>1. /\ deliverFinal(stack) /\ speech' = speech /\ microphone' = microphone /\ audio' = audio /\ media' = media
  BY DEF deliverRevision, microphoneVars
<1>2. microphone = "Off" /\ state \notin Live
  BY DEF Inv, MicrophoneFits, Live
<1>3. Follows' /\ ~Failing'
  BY <1>1, <1>2, DeliverFinalFollows
<1> QED BY <1>1, <1>3, KeptAsks

LEMMA ReplacesFollow ==
    ASSUME Inv, Follows, failsInHandler' = failsInHandler, replaceSelection \/ Replace \/ SelectionChecked
    PROVE  Follows' /\ Asks
<1>1. CASE replaceSelection
  <2>1. MayCall /\ state = "Reviewing" /\ replaceWithRevision(calls)
    BY <1>1 DEF replaceSelection
  <2>2. calls \in Seq(Frames) /\ FramesOf(calls) \cap AtOnce = {}
    BY <2>1, CallFrames
  <2>3. ~Failing
    <3>1. Free \/ Running("handlers")
      BY <2>1 DEF MayCall, Handling
    <3> QED BY <3>1 DEF Failing, Running, Free
  <2>4. CASE deliverRevision(calls)
    BY <2>1, <2>2, <2>3, <2>4, DeliverRevisionFollows DEF Waits
  <2>5. CASE calls' = calls /\ UNCHANGED <<state, microphoneVars, media, speech>>
    <3>1. microphone' = microphone /\ audio' = audio /\ media' = media /\ state' = state /\ speech' = speech
      BY <2>5 DEF microphoneVars
    <3>2. CallsKeep /\ ~Failing'
      BY <2>3, <2>5, SameCalls
    <3> QED BY <2>3, <3>1, <3>2, KeptFollows, KeptAsks
  <2> QED BY <2>1, <2>4, <2>5 DEF replaceWithRevision
<1>2. CASE Replace
  <2>1. Running("replace") /\ replaceWithRevision(Tail(calls))
    BY <1>2 DEF Replace
  <2>2. /\ Tail(calls) \in Seq(Frames) /\ FramesOf(Tail(calls)) \cap AtOnce = {}
        /\ FramesOf(calls) = {"replace"} \cup FramesOf(Tail(calls)) /\ state = "Reviewing"
    BY <2>1, Runs DEF FrameFits
  <2>3. ~Failing /\ (Waits("resumePausedMedia") => "resumePausedMedia" \in FramesOf(Tail(calls)))
    BY <2>1, <2>2, OthersFail DEF Waits
  <2>4. CASE deliverRevision(Tail(calls))
    BY <2>2, <2>3, <2>4, DeliverRevisionFollows
  <2>5. CASE calls' = Tail(calls) /\ UNCHANGED <<state, microphoneVars, media, speech>>
    <3>1. microphone' = microphone /\ audio' = audio /\ media' = media /\ state' = state /\ speech' = speech
      BY <2>5 DEF microphoneVars
    <3>2. CallsKeep /\ ~Failing'
      BY <2>1, <2>5, GoneBack DEF Return
    <3> QED BY <2>3, <3>1, <3>2, KeptFollows, KeptAsks
  <2> QED BY <2>1, <2>4, <2>5 DEF replaceWithRevision
<1>3. CASE SelectionChecked
  <2>1. Free /\ "check" \in pending /\ deliverRevision(calls)
    BY <1>3 DEF SelectionChecked
  <2>2. state = "Reviewing" /\ calls \in Seq(Frames) /\ FramesOf(calls) \cap AtOnce = {}
    BY <2>1, FreeFrames DEF Inv, PendingFits
  <2>3. ~Failing
    BY <2>1 DEF Free, Failing, Running
  <2> QED BY <2>1, <2>2, <2>3, DeliverRevisionFollows DEF Waits
<1> QED BY <1>1, <1>2, <1>3

(* The delivery is answered, and its receipt ends. *)
LEMMA DeliveryFollows ==
    ASSUME Inv, Follows, failsInHandler' = failsInHandler, finishDelivery \/ ReceiptEnds
    PROVE  Follows' /\ Asks
<1>1. /\ Free /\ microphone' = microphone /\ audio' = audio /\ media' = media /\ speech' = speech
  BY DEF finishDelivery, ReceiptEnds, microphoneVars
<1>2. calls \in Seq(Frames) /\ FramesOf(calls) \cap AtOnce = {} /\ ~Failing
  BY <1>1, FreeFrames DEF Free, Failing, Running
<1>3. CASE calls' = calls /\ state' = state
  <2>1. CallsKeep /\ ~Failing'
    BY <1>2, <1>3, SameCalls
  <2> QED BY <1>1, <1>2, <1>3, <2>1, KeptFollows, KeptAsks
<1>4. CASE state = "Delivering" /\ (setState("Error", <<>>, calls) \/ setState("Idle", <<>>, calls))
  <2>1. state \notin Live /\ microphone = "Off" /\ "Error" \notin Live /\ "Idle" \notin Live
    BY <1>4 DEF Inv, MicrophoneFits, Live
  <2>2. Follows' /\ ~Failing'
    <3>1. CASE setState("Error", <<>>, calls)
      BY <1>1, <1>2, <2>1, <3>1, LeavesAloneFollow DEF Waits
    <3>2. CASE setState("Idle", <<>>, calls)
      BY <1>1, <1>2, <2>1, <3>2, LeavesAloneFollow DEF Waits
    <3> QED BY <1>4, <3>1, <3>2
  <2> QED BY <1>1, <1>2, <2>2, KeptAsks
<1>5. awaited => state = "Delivering"
  BY DEF Inv, DeliveryFits
<1> QED BY <1>3, <1>4, <1>5 DEF finishDelivery, AnswersOwn, ReceiptEnds

-----------------------------------------------------------------------------
(* Starting afresh and ending. *)

LEMMA StartSessionFollows ==
    ASSUME Inv, NEW stack \in Seq(Frames), FramesOf(stack) \cap AtOnce = {}, StartSessionOn(stack), ~Failing
    PROVE  Follows' /\ Asks
<1>1. state \notin Live
  BY DEF StartSessionOn, mayStart, Live
<1>2. microphone = "Off" /\ audio = "off" /\ SpeechRests
  BY <1>1, OutsideRests
<1>3. /\ microphone' = microphone /\ audio' = audio /\ setStateAfresh("Starting", <<"started">>, stack)
      /\ speech'.phase = "Starting" /\ speech'.started = FALSE /\ speech'.asked = FALSE
  BY DEF StartSessionOn, microphoneVars, NoSpeech
<1>4. <<"started">> \in Seq(Frames) /\ FramesOf(<<"started">>) = {"started"} /\ FramesOf(<<"started">>) \cap AtOnce = {}
  BY OneFrame DEF Frames, AtOnce
<1>5. state' = "Starting" /\ ~Failing' /\ ~Waits("stopMicrophone")'
  BY <1>3, <1>4, SetWaits
<1>6. Heard' /\ MediaFits'
  BY <1>2, <1>3, <1>5 DEF Heard, DeviceFits, MediaFits, Live
<1>7. speech.phase \in {"Idle", "Starting"}
  BY <1>2 DEF SpeechRests, SpeechGone
<1> QED BY <1>2, <1>3, <1>5, <1>6, <1>7, AsksBegin DEF Follows

LEMMA StartFollows ==
    ASSUME Inv, startSession \/ StartFollowUp
    PROVE  Follows' /\ Asks
<1>1. CASE startSession
  <2>1. MayCall /\ StartSessionOn(calls)
    BY <1>1 DEF startSession
  <2>2. ~Failing
    <3>1. Free \/ Running("handlers")
      BY <2>1 DEF MayCall, Handling
    <3> QED BY <3>1 DEF Failing, Running, Free
  <2> QED BY <2>1, <2>2, CallFrames, StartSessionFollows
<1>2. CASE StartFollowUp
  <2>1. Running("startFollowUp") /\ StartSessionOn(Tail(calls))
    BY <1>2 DEF StartFollowUp
  <2>2. ~Failing
    BY <2>1, OthersFail
  <2> QED BY <2>1, <2>2, Runs, StartSessionFollows
<1> QED BY <1>1, <1>2

LEMMA CancelSessionFollows ==
    ASSUME Inv, MayCall, CancelSession
    PROVE  Follows' /\ Asks
<1>1. EndSession(TRUE, "Reviewing") \/ EndSession(FALSE, "Idle")
  BY DEF CancelSession
<1> QED BY <1>1, EndSessionFollows

LEMMA EndsFollow ==
    ASSUME Inv, Follows, failsInHandler' = failsInHandler,
           cancelForShutdown \/ cancel \/ StopStarting \/ DismissError
    PROVE  Follows' /\ Asks
<1>1. CASE cancelForShutdown
  BY <1>1, EndSessionFollows DEF cancelForShutdown
<1>2. CASE cancel \/ StopStarting
  BY <1>2, CancelSessionFollows DEF cancel, StopStarting
<1>3. CASE DismissError
  <2>1. /\ MayCall /\ state = "Error" /\ setStateAfresh("Idle", <<>>, calls) /\ speech' = speech
        /\ microphone' = microphone /\ audio' = audio /\ media' = media
    BY <1>3 DEF DismissError, microphoneVars
  <2>2. calls \in Seq(Frames) /\ FramesOf(calls) \cap AtOnce = {}
    BY <2>1, CallFrames
  <2>3. ~Failing
    <3>1. Free \/ Running("handlers")
      BY <2>1 DEF MayCall, Handling
    <3> QED BY <3>1 DEF Failing, Running, Free
  <2>4. microphone = "Off" /\ state \notin Live /\ "Idle" \notin Live
    BY <2>1 DEF Inv, MicrophoneFits, Live
  <2>5. Follows' /\ ~Failing'
    BY <2>1, <2>2, <2>4, LeavesAloneFollow DEF Waits
  <2> QED BY <2>1, <2>3, <2>5, KeptAsks
<1> QED BY <1>1, <1>2, <1>3

LEMMA StopRefiningFollows ==
    ASSUME Inv, Follows, failsInHandler' = failsInHandler, StopRefining
    PROVE  Follows' /\ Asks
<1>1. MayCall /\ state = "Refining"
  BY DEF StopRefining
<1>2. CASE followingUp
  BY <1>1, <1>2, CancelSessionFollows DEF StopRefining
<1>3. CASE ~followingUp
  <2> DEFINE stack == Overtake(calls, WalkGuarded)
  <2>1. /\ microphone' = microphone /\ audio' = audio /\ media' = media /\ speech' = speech
        /\ setState("Idle", <<>>, stack) \/ setState("Delivering", <<"deliver">>, stack)
    BY <1>3 DEF StopRefining, microphoneVars
  <2>2. calls \in Seq(Frames) /\ FramesOf(calls) \cap AtOnce = {}
    BY <1>1, CallFrames
  <2>3. /\ stack \in Seq(Frames)
        /\ FramesOf(stack) \subseteq (FramesOf(calls) \ WalkGuarded) \cup {"overtaken"}
        /\ FramesOf(calls) \ WalkGuarded \subseteq FramesOf(stack)
    BY <2>2, OvertakenFrames
  <2> HIDE DEF stack
  <2>4. /\ FramesOf(stack) \cap AtOnce = {}
        /\ Waits("resumePausedMedia") => "resumePausedMedia" \in FramesOf(stack)
    BY <2>2, <2>3 DEF AtOnce, WalkGuarded, Waits
  <2>5. microphone = "Off" /\ state \notin Live /\ "Idle" \notin Live /\ "Delivering" \notin Live
    BY <1>1 DEF Inv, MicrophoneFits, Live
  <2>6. ~Failing
    <3>1. Free \/ Running("handlers")
      BY <1>1 DEF MayCall, Handling
    <3> QED BY <3>1 DEF Failing, Running, Free
  <2>7. Follows' /\ ~Failing'
    <3>1. CASE setState("Idle", <<>>, stack)
      BY <2>1, <2>3, <2>4, <2>5, <3>1, LeavesAloneFollow
    <3>2. CASE setState("Delivering", <<"deliver">>, stack)
      <4>1. "deliver" \in Frames \ AtOnce
        BY DEF Frames, AtOnce
      <4> QED BY <2>1, <2>3, <2>4, <2>5, <3>2, <4>1, LeavesWithFollow
    <3> QED BY <2>1, <3>1, <3>2
  <2> QED BY <2>1, <2>6, <2>7, KeptAsks
<1> QED BY <1>2, <1>3

-----------------------------------------------------------------------------
(* The microphone's answers; pausing, resuming and stopping.                 *)

LEMMA MayCallFinds ==
    ASSUME Inv, MayCall
    PROVE  /\ ~Failing /\ ~Running("speechFailed")
           /\ calls \in Seq(Frames) /\ FramesOf(calls) \cap AtOnce = {}
<1>1. Free \/ Running("handlers")
  BY DEF MayCall, Handling
<1>2. ~Failing /\ ~Running("speechFailed")
  BY <1>1 DEF Failing, Running, Free
<1> QED BY <1>2, CallFrames

LEMMA microphoneStartedFollows ==
    ASSUME Inv, Follows, failsInHandler' = failsInHandler, microphoneStarted
    PROVE  Follows' /\ Asks
<1>1. /\ Free /\ audio = "starting" /\ audio' = "running" /\ microphone = "Starting" /\ media' = media
      /\ microphone' = "On" /\ speech.started /\ speech \in Speeches
  BY DEF microphoneStarted, Follows, Heard, DeviceFits, Inv, TypeOK
<1>2. /\ calls \in Seq(Frames) /\ FramesOf(calls) = {} /\ FramesOf(calls) \cap AtOnce = {} /\ ~Failing
  BY <1>1, FreeFrames DEF Free, Failing, Running
<1>3. CASE state = "Starting"
  <2>1. speech.phase = "Starting" /\ speech.asked
    BY <1>1, <1>2, <1>3 DEF Inv, SpeechFits, Live, Follows, Heard
  <2>2. /\ speech' = [speech EXCEPT !.phase = "Listening", !.asked = FALSE]
        /\ setState("Listening", <<>>, calls)
    BY <1>1, <1>3, <2>1 DEF microphoneStarted
  <2>3. speech'.phase = "Listening" /\ speech'.started = speech.started /\ speech'.asked = FALSE
    BY <1>1, <2>2 DEF Speeches
  <2>4. state' = "Listening" /\ ~Failing' /\ ~Waits("stopMicrophone")'
    BY <1>2, <2>2, NoFrames, SetWaits
  <2>5. Heard' /\ MediaFits'
    BY <1>1, <2>3, <2>4 DEF Heard, DeviceFits, MediaFits, Live
  <2> QED BY <1>1, <1>2, <2>1, <2>3, <2>4, <2>5, AsksListen DEF Follows
<1>4. CASE state # "Starting"
  <2>1. state' = state /\ speech' = speech /\ calls' = calls
    BY <1>1, <1>4 DEF microphoneStarted
  <2>2. CallsKeep /\ ~Failing'
    BY <1>2, <2>1, SameCalls
  <2>3. Heard'
    BY <1>1, <1>4, <2>1, <2>2 DEF Follows, Heard, DeviceFits, CallsKeep, WaitsKeep
  <2>4. MediaFits'
    BY <1>1, <2>1, <2>2 DEF Follows, MediaFits, CallsKeep, WaitsKeep
  <2> QED BY <1>1, <1>2, <2>1, <2>2, <2>3, <2>4, AsksNothing DEF Follows
<1> QED BY <1>3, <1>4

(* The pause takes: the speech is paused with the session. *)
LEMMA PausedFollows ==
    ASSUME Inv, Follows, state = "Listening", ~Failing,
           calls \in Seq(Frames), FramesOf(calls) \cap AtOnce = {}, StoppedAs("Pausing", calls)
    PROVE  Follows' /\ Asks
<1>1. speech.phase = "Listening" /\ speech \in Speeches
  BY HearingFrames DEF Inv, TypeOK, Failing
<1>2. /\ microphone' = "Off" /\ audio' = "off" /\ speech' = [speech EXCEPT !.phase = "Paused"]
      /\ setState("Paused", <<"proceed">>, calls)
  BY <1>1 DEF StoppedAs
<1>3. <<"proceed">> \in Seq(Frames) /\ FramesOf(<<"proceed">>) = {"proceed"} /\ FramesOf(<<"proceed">>) \cap AtOnce = {}
  BY OneFrame DEF Frames, AtOnce
<1>4. /\ state' = "Paused" /\ ~Failing'
      /\ Waits("stopMicrophone")' => "stopMicrophone" \in {"proceed"} \cup FramesOf(calls)
  BY <1>2, <1>3, SetWaits
<1>5. ~Waits("stopMicrophone")'
  BY <1>4 DEF Follows, Heard, Waits
<1>6. Heard' /\ MediaFits'
  BY <1>2, <1>4, <1>5 DEF Heard, DeviceFits, MediaFits, Live
<1>7. speech'.phase = "Paused" /\ speech'.started = speech.started /\ speech'.asked = speech.asked
  BY <1>1, <1>2 DEF Speeches
<1> QED BY <1>1, <1>2, <1>4, <1>6, <1>7, AsksPause DEF Follows

LEMMA pauseFollows ==
    ASSUME Inv, Follows, failsInHandler' = failsInHandler, pause
    PROVE  Follows' /\ Asks
<1>1. MayCall /\ state = "Listening" /\ microphone # "Pausing" /\ StopMicrophoneTo("Pausing", calls)
  BY DEF pause
<1>2. ~Failing /\ calls \in Seq(Frames) /\ FramesOf(calls) \cap AtOnce = {}
  BY <1>1, MayCallFinds
<1>3. CASE microphone = "Off"
  BY <1>1, <1>2, <1>3, PausedFollows DEF StopMicrophoneTo
<1>4. CASE microphone # "Off"
  <2>1. microphone \in {"Starting", "On"}
    BY <1>1, <1>4 DEF Follows, Heard, Inv, TypeOK
  <2>2. /\ microphone' = "Pausing" /\ audio' = "stopping" /\ calls' = calls /\ state' = state
        /\ speech' = speech
    BY <1>1, <1>4, <2>1 DEF StopMicrophoneTo
  <2>3. CallsKeep /\ ~Failing' /\ audio # "off" /\ speech.started
    BY <1>2, <1>4, <2>1, <2>2, SameCalls DEF Follows, Heard, DeviceFits
  <2>4. Heard' /\ MediaFits'
    BY <1>1, <2>2, <2>3 DEF Follows, Heard, DeviceFits, MediaFits, CallsKeep, WaitsKeep, Live
  <2> QED BY <1>2, <2>2, <2>3, <2>4, AsksNothing DEF Follows
<1> QED BY <1>3, <1>4

LEMMA StopMicrophoneFollows ==
    ASSUME Inv, Follows, failsInHandler' = failsInHandler, StopMicrophone
    PROVE  Follows' /\ Asks
<1> DEFINE stack == Tail(calls)
<1>1. Running("stopMicrophone") /\ StopMicrophoneTo("Stopping", stack) /\ speech \in Speeches
  BY DEF StopMicrophone, Inv, TypeOK
<1>2. /\ stack \in Seq(Frames) /\ FramesOf(stack) \cap AtOnce = {}
      /\ FramesOf(calls) = {"stopMicrophone"} \cup FramesOf(stack)
  BY <1>1, Runs
<1>3. ~Failing /\ state \notin {"Starting", "Listening", "Paused"}
  BY <1>1, <1>2, OthersFail DEF Follows, Heard, Waits
<1> HIDE DEF stack
<1>4. CASE microphone = "Off"
  <2>1. StoppedAs("Stopping", stack) /\ audio = "off"
    BY <1>1, <1>4 DEF StopMicrophoneTo, Inv, MicrophoneFits
  <2>2. /\ microphone' = "Off" /\ audio' = "off" /\ state' = state
        /\ speech'.phase = speech.phase /\ speech'.started = speech.started /\ speech'.asked = speech.asked
    BY <1>1, <2>1 DEF StoppedAs, Speeches
  <2>3. CASE state = "Stopping"
    <3>1. media' = FALSE /\ calls' = <<"speech">> \o stack
      BY <2>1, <2>3 DEF StoppedAs
    <3>2. <<"speech">> \in Seq(Frames) /\ FramesOf(<<"speech">>) = {"speech"}
      BY OneFrame DEF Frames
    <3>3. calls' \in Seq(Frames) /\ FramesOf(calls)' = {"speech"} \cup FramesOf(stack)
      <4>1. <<"speech">> \o stack \in Seq(Frames) /\ FramesOf(<<"speech">> \o stack) = {"speech"} \cup FramesOf(stack)
        BY <1>2, <3>2, PushedFrames
      <4> QED BY <3>1, <4>1 DEF FramesOf
    <3>4. ~Failing'
      <4>1. "speechFailed" \notin FramesOf(calls)'
        BY <1>2, <3>3 DEF AtOnce
      <4> QED BY <3>3, <4>1, NotFailing
    <3>5. Heard' /\ MediaFits'
      BY <2>2, <2>3, <3>1 DEF Heard, DeviceFits, MediaFits
    <3> QED BY <1>3, <2>1, <2>2, <3>4, <3>5, AsksNothing DEF Follows
  <2>4. CASE state # "Stopping"
    <3>1. media' = media /\ calls' = stack
      BY <2>1, <2>4 DEF StoppedAs
    <3>2. calls' \in Seq(Frames) /\ FramesOf(calls)' = FramesOf(stack)
      BY <1>2, <3>1 DEF FramesOf
    <3>3. ~Failing' /\ (Waits("resumePausedMedia") => Waits("resumePausedMedia")')
      <4>1. "speechFailed" \notin FramesOf(calls)'
        BY <1>2, <3>2 DEF AtOnce
      <4> QED BY <1>2, <3>2, <4>1, NotFailing DEF Waits
    <3>4. state \notin Live
      BY <1>3, <2>4 DEF Live
    <3>5. Heard' /\ MediaFits'
      BY <1>3, <2>2, <2>4, <3>1, <3>3, <3>4 DEF Follows, Heard, DeviceFits, MediaFits
    <3> QED BY <1>3, <2>1, <2>2, <3>3, <3>5, AsksNothing DEF Follows
  <2> QED BY <2>3, <2>4
<1>5. CASE microphone # "Off"
  <2>1. /\ state = "Stopping" /\ audio # "off" /\ speech.started
        /\ microphone \notin {"Starting", "On"} => audio = "stopping"
    BY <1>3, <1>5 DEF Inv, MicrophoneFits, TypeOK, Follows, Heard, DeviceFits
  <2>2. /\ microphone' = "Stopping" /\ audio' = "stopping" /\ calls' = stack /\ state' = state
        /\ speech' = speech
    BY <1>1, <1>5, <2>1 DEF StopMicrophoneTo
  <2>3. calls' \in Seq(Frames) /\ "speechFailed" \notin FramesOf(calls)'
    BY <1>2, <2>2 DEF FramesOf, AtOnce
  <2>4. ~Failing'
    BY <2>3, NotFailing
  <2>5. Heard' /\ MediaFits'
    BY <2>1, <2>2 DEF Heard, DeviceFits, MediaFits, Live
  <2> QED BY <1>3, <2>1, <2>2, <2>4, <2>5, AsksNothing DEF Follows
<1> QED BY <1>4, <1>5

LEMMA microphoneStoppedFollows ==
    ASSUME Inv, Follows, failsInHandler' = failsInHandler, microphoneStopped
    PROVE  Follows' /\ Asks
<1>1. /\ Free /\ audio = "stopping" /\ StoppedAs(microphone, calls) /\ microphone \in {"Pausing", "Stopping"}
      /\ speech \in Speeches
  BY DEF microphoneStopped, Follows, Heard, DeviceFits, Inv, TypeOK
<1>2. /\ calls \in Seq(Frames) /\ FramesOf(calls) = {} /\ FramesOf(calls) \cap AtOnce = {} /\ ~Failing
  BY <1>1, FreeFrames DEF Free, Failing, Running
<1>3. CASE microphone = "Pausing"
  <2>1. state = "Listening"
    BY <1>2, <1>3 DEF Follows, Heard, Waits
  <2> QED BY <1>1, <1>2, <1>3, <2>1, PausedFollows
<1>4. CASE microphone = "Stopping"
  <2>1. state = "Stopping" /\ speech.phase = "Stopping"
    BY <1>2, <1>4 DEF Follows, Heard, Inv, SpeechFits, Live
  <2>2. /\ microphone' = "Off" /\ audio' = "off" /\ state' = state /\ media' = FALSE
        /\ speech'.phase = speech.phase /\ speech'.started = speech.started /\ speech'.asked = speech.asked
        /\ calls' = <<"speech">> \o calls
    BY <1>1, <1>4, <2>1 DEF StoppedAs, Speeches
  <2>3. ~Failing'
    <3>1. calls = <<>>
      BY <1>1 DEF Free
    <3>2. Head(calls') = "speech"
      BY <2>2, <3>1
    <3> QED BY <3>2 DEF Failing, Running
  <2>4. Heard' /\ MediaFits'
    BY <2>1, <2>2 DEF Heard, DeviceFits, MediaFits
  <2> QED BY <1>2, <2>1, <2>2, <2>3, <2>4, AsksMicrophone DEF Follows
<1> QED BY <1>1, <1>3, <1>4

(* The stop of a session that listens. *)
LEMMA StopFromListeningFollows ==
    ASSUME Inv, Follows, failsInHandler' = failsInHandler, state = "Listening", ~Failing,
           calls \in Seq(Frames), FramesOf(calls) \cap AtOnce = {},
           StopFromListening(calls),
           \/ microphone' = microphone /\ audio' = audio
           \/ microphone' = "Off" /\ audio' = "off",
           media' = media
    PROVE  Follows' /\ Asks
<1>1. /\ speech.phase = "Listening" /\ ~speech.stopped /\ speech \in Speeches
      /\ FramesOf(calls) \cap GoneFrames = {}
  BY HearingFrames DEF Inv, TypeOK, Failing
<1>2. /\ speech'.phase = "Stopping" /\ speech'.started = speech.started /\ speech'.asked = speech.asked
      /\ ~speech'.stopped
  BY <1>1 DEF StopFromListening, StopsSpeech, Speeches
<1>3. /\ <<"stopMicrophone">> \in Seq(Frames) /\ FramesOf(<<"stopMicrophone">>) = {"stopMicrophone"}
      /\ FramesOf(<<"stopMicrophone">>) \cap AtOnce = {} /\ "walk" \notin FramesOf(calls)
  BY <1>1, OneFrame DEF Frames, AtOnce, GoneFrames
<1>4. /\ state' = "Stopping" /\ ~Failing' /\ "stopMicrophone" \in FramesOf(calls)'
      /\ FramesOf(calls)' \cap GoesPast \subseteq {"stopMicrophone"}
  BY <1>3, SetWaits DEF StopFromListening
<1>5. Waits("stopMicrophone")' /\ FramesOf(calls)' \cap GoesPast = {}
  BY <1>4 DEF Waits, GoesPast
<1>6. Heard'
  BY <1>2, <1>4, <1>5 DEF Follows, Heard, DeviceFits
<1>7. MediaFits'
  BY <1>2, <1>4, <1>5 DEF MediaFits, Live
<1>8. audio' \in {audio, "off"}
  OBVIOUS
<1> QED BY <1>1, <1>2, <1>4, <1>6, <1>7, <1>8, AsksStop DEF Follows

LEMMA StopsFollow ==
    ASSUME Inv, Follows, failsInHandler' = failsInHandler, StopListening \/ StopPaused \/ resume
    PROVE  Follows' /\ Asks
<1>1. /\ MayCall /\ microphone' = microphone /\ audio' = audio /\ media' = media
  BY DEF StopListening, StopPaused, resume, microphoneVars
<1>2. ~Failing /\ ~Running("speechFailed") /\ calls \in Seq(Frames) /\ FramesOf(calls) \cap AtOnce = {}
  BY <1>1, MayCallFinds
<1>3. CASE StopListening
  BY <1>1, <1>2, <1>3, StopFromListeningFollows DEF StopListening
<1>4. CASE state = "Paused"
  <2>1. /\ speech.phase = "Paused" /\ microphone = "Off" /\ audio = "off" /\ speech \in Speeches
        /\ ~Waits("stopMicrophone")
    BY <1>2, <1>4, HearingFrames DEF Inv, TypeOK, MicrophoneFits, Follows, Heard
  <2>2. CASE StopPaused
    <3>1. /\ speech'.phase = "Stopping" /\ speech'.started = speech.started /\ speech'.asked = speech.asked
          /\ setState("Stopping", <<"resumePausedMedia", "proceed">>, calls)
      BY <2>1, <2>2 DEF StopPaused, StopsSpeech, Speeches
    <3>2. {"resumePausedMedia", "proceed"} \subseteq Frames /\ {"resumePausedMedia", "proceed"} \cap AtOnce = {}
      BY DEF Frames, AtOnce
    <3>3. /\ <<"resumePausedMedia", "proceed">> \in Seq(Frames)
          /\ FramesOf(<<"resumePausedMedia", "proceed">>) = {"resumePausedMedia", "proceed"}
      BY <3>2, TwoFrames
    <3>4. state' = "Stopping" /\ ~Failing' /\ "resumePausedMedia" \in FramesOf(calls)'
      BY <1>2, <3>1, <3>2, <3>3, SetWaits
    <3>5. Heard' /\ MediaFits'
      BY <1>1, <2>1, <3>4 DEF Heard, DeviceFits, MediaFits, Waits, Live
    <3>6. audio' \in {audio, "off"}
      BY <1>1
    <3> QED BY <1>2, <2>1, <3>1, <3>4, <3>5, <3>6, AsksStop DEF Follows
  <2>3. CASE resume
    <3>1. /\ speech'.phase = "Listening" /\ speech'.started = speech.started /\ speech'.asked = speech.asked
          /\ setState("Listening", <<"resumed">>, calls)
      BY <2>1, <2>3 DEF resume, Speeches
    <3>2. <<"resumed">> \in Seq(Frames) /\ FramesOf(<<"resumed">>) = {"resumed"} /\ FramesOf(<<"resumed">>) \cap AtOnce = {}
      BY OneFrame DEF Frames, AtOnce
    <3>3. /\ state' = "Listening" /\ ~Failing'
          /\ Waits("stopMicrophone")' => "stopMicrophone" \in {"resumed"} \cup FramesOf(calls)
      BY <1>2, <3>1, <3>2, SetWaits
    <3>4. ~Waits("stopMicrophone")'
      BY <2>1, <3>3 DEF Waits
    <3>5. Heard' /\ MediaFits'
      BY <1>1, <2>1, <3>3, <3>4 DEF Heard, DeviceFits, MediaFits, Live
    <3> QED BY <1>1, <1>2, <2>1, <3>1, <3>3, <3>5, AsksResume DEF Follows
  <2> QED BY <1>4, <2>2, <2>3 DEF StopListening, StopPaused, resume
<1> QED BY <1>3, <1>4 DEF StopPaused, resume

LEMMA microphoneFailedFollows ==
    ASSUME Inv, Follows, failsInHandler' = failsInHandler, microphoneFailed
    PROVE  Follows' /\ Asks
<1>1. Free
  BY DEF microphoneFailed
<1>2. calls \in Seq(Frames) /\ FramesOf(calls) \cap AtOnce = {} /\ ~Failing
  BY <1>1, FreeFrames DEF Free, Failing, Running
<1>3. CASE speech' = NoSpeech /\ FailSessionWith(selection, edits, refining, calls)
  <2>1. Follows' /\ ~Failing'
    BY <1>2, <1>3, FailSessionFollows
  <2> QED BY <1>3, <2>1, AsksCancel
<1>4. CASE /\ state = "Listening" /\ microphone' = "Off" /\ audio' = "off" /\ StopFromListening(calls)
           /\ media' = media
  BY <1>2, <1>4, StopFromListeningFollows
<1> QED BY <1>3, <1>4 DEF microphoneFailed, failSession

-----------------------------------------------------------------------------
LEMMA InitFollows == Init => Follows /\ Contract!Init
<1> SUFFICES ASSUME Init PROVE Follows /\ Contract!Init
  OBVIOUS
<1>1. calls = <<>> /\ FramesOf(calls) = {} /\ ~Failing
  BY NoFrames DEF Init, Failing, Running
<1>2. Heard /\ MediaFits
  BY <1>1 DEF Init, Heard, DeviceFits, MediaFits, Waits, Live
<1>3. Contract!Init
  BY <1>1 DEF Init, NoSpeech, Contract!Init, speechHears, Failing
<1> QED BY <1>2, <1>3 DEF Follows

LEMMA StutterFollows ==
    ASSUME Follows, UNCHANGED <<vars, failsInHandler>>
    PROVE  Follows' /\ Asks
<1>1. /\ state' = state /\ microphone' = microphone /\ audio' = audio /\ speech' = speech /\ media' = media
      /\ failsInHandler' = failsInHandler /\ calls' = calls
  BY DEF vars, microphoneVars
<1>2. CallsKeep
  BY <1>1, SameCalls
<1>3. speechHears' = speechHears /\ Failing' = Failing
  BY <1>1 DEF speechHears, Failing, Running
<1>4. UNCHANGED <<speech.phase, speech.started, speechHears, speech.asked, 0, 0, Failing>>
  BY <1>1, <1>3
<1>5. Asks
  BY <1>4 DEF Asks, Failing, Contract!vars
<1> QED BY <1>1, <1>2, <1>5, KeptFollows

LEMMA CodeFollows ==
    ASSUME Inv, Follows, failsInHandler' = failsInHandler, Code
    PROVE  Follows' /\ Asks
<1>1. CASE Announced \/ OvertakenReturns \/ SpeechReturns \/ RefinerReturns \/ Deliver
  BY <1>1, ReturnsFollow
<1>2. CASE StartFollowUp
  BY <1>2, StartFollows
<1>3. CASE \/ ClearTranscript \/ ShowPopup \/ Resumed \/ PassOver \/ Ready \/ Refine \/ PrepareNext
  BY <1>3, GoesOnFollows
<1>4. CASE continueStartupWithTarget
  BY <1>4, continueStartupWithTargetFollows
<1>5. CASE FailStartup
  BY <1>5, FailStartupFollows
<1>6. CASE StartMicrophone
  BY <1>6, StartMicrophoneFollows
<1>7. CASE StopMicrophone
  BY <1>7, StopMicrophoneFollows
<1>8. CASE ResumePausedMedia
  BY <1>8, ResumePausedMediaFollows
<1>9. CASE Proceed
  BY <1>9, ProceedFollows
<1>10. CASE speechChainExhausted
  BY <1>10, speechChainExhaustedFollows
<1>11. CASE endSpeechAfterFailure
  BY <1>11, endSpeechAfterFailureFollows
<1>12. CASE beginRefinement
  BY <1>12, beginRefinementFollows
<1>13. CASE Prepares \/ startRefiner
  BY <1>13, RefiningFollows
<1>14. CASE RefinersExhausted
  BY <1>14, RefinersExhaustedFollows
<1>15. CASE Replace
  BY <1>15, ReplacesFollow
<1> QED BY <1>1, <1>2, <1>3, <1>4, <1>5, <1>6, <1>7, <1>8, <1>9, <1>10, <1>11, <1>12, <1>13, <1>14, <1>15
     DEF Code

LEMMA NextFollows == Inv /\ Follows /\ [Next]_<<vars, failsInHandler>> => Follows' /\ Asks
<1> SUFFICES ASSUME Inv, Follows, [Next]_<<vars, failsInHandler>> PROVE Follows' /\ Asks
  OBVIOUS
<1>1. CASE UNCHANGED <<vars, failsInHandler>>
  BY <1>1, StutterFollows
<1>2. CASE Step /\ failsInHandler' = failsInHandler
  <2>1. CASE Code
    BY <1>2, <2>1, CodeFollows
  <2>2. CASE HandlersReturn
    BY <1>2, <2>2, ReturnsFollow
  <2>3. CASE Command
    <3>1. CASE startSession
      BY <3>1, StartFollows
    <3>2. CASE startFollowUp
      BY <1>2, <3>2, CallsFollow
    <3>3. CASE cancelForShutdown \/ cancel \/ StopStarting \/ DismissError
      BY <1>2, <3>3, EndsFollow
    <3>4. CASE StopListening \/ StopPaused \/ resume
      BY <1>2, <3>4, StopsFollow
    <3>5. CASE StopRefining
      BY <1>2, <3>5, StopRefiningFollows
    <3>6. CASE pause
      BY <1>2, <3>6, pauseFollows
    <3>7. CASE UndoPause
      BY <1>2, <3>7, UndoPauseFollows
    <3>8. CASE replaceSelection
      BY <1>2, <3>8, ReplacesFollow
    <3> QED BY <2>3, <3>1, <3>2, <3>3, <3>4, <3>5, <3>6, <3>7, <3>8 DEF Command
  <2>4. CASE Answer
    <3>1. CASE continueStartupAfterPopup \/ TargetCaptured \/ PreparationEnds
      BY <1>2, <3>1, CallsFollow
    <3>2. CASE SelectionChecked
      BY <1>2, <3>2, ReplacesFollow
    <3>3. CASE microphoneStarted
      BY <1>2, <3>3, microphoneStartedFollows
    <3>4. CASE microphoneStopped
      BY <1>2, <3>4, microphoneStoppedFollows
    <3>5. CASE finishDelivery \/ ReceiptEnds
      BY <1>2, <3>5, DeliveryFollows
    <3> QED BY <2>4, <3>1, <3>2, <3>3, <3>4, <3>5 DEF Answer
  <2>5. CASE microphoneFailed
    BY <1>2, <2>5, microphoneFailedFollows
  <2>6. CASE SpeechReport
    BY <1>2, <2>6, readyToListenFollows, SpeechEndedFollows, SpeechFailsFollows DEF SpeechReport
  <2>7. CASE TextArrives
    BY <1>2, <2>7, TextArrivesFollows
  <2>8. CASE RefinerReport
    BY <1>2, <2>8, RefinerReportFollows
  <2> QED BY <1>2, <2>1, <2>2, <2>3, <2>4, <2>5, <2>6, <2>7, <2>8 DEF Step
<1> QED BY <1>1, <1>2 DEF Next

LEMMA FollowsHolds == Spec => [](Inv /\ Follows)
<1>1. Init => Inv /\ Follows
  BY InitFits, InitFollows
<1>2. Inv /\ Follows /\ [Next]_<<vars, failsInHandler>> => (Inv /\ Follows)'
  BY NextFits, NextFollows
<1> QED BY <1>1, <1>2, PTL DEF Spec

(* Media the session paused plays again whenever no dictation is under way,  *)
(* whatever ended the one that paused it and whatever handlers called while  *)
(* it ended, unless the speech failed inside such a handler                  *)
(* (resumePausedMedia() on every way out).                                   *)
THEOREM MediaPlaysAgain == Spec => []MediaPlaysAtRest
<1>1. Inv /\ Follows => MediaPlaysAtRest
  <2> SUFFICES ASSUME Follows, Free, ~failsInHandler, media, state \notin Live PROVE FALSE
    BY DEF MediaPlaysAtRest, Live, Inv, TypeOK
  <2>1. Waits("resumePausedMedia")
    BY DEF Follows, MediaFits
  <2> QED BY <2>1, FreeFrames DEF Waits
<1> QED BY <1>1, FollowsHolds, PTL

(* The session implements its speech's contract from the caller's side: it   *)
(* starts idle, and every step of the session, a handler's calls among them, *)
(* is one step of SpeechContract or none (begin(), listen(), stop() and the  *)
(* speech's own reports, DictationSession.cpp).                              *)
THEOREM SessionAsksAsPromised == Spec => AsksAsPromised
<1>1. Init => Contract!Init
  BY InitFollows
<1>2. Inv /\ Follows /\ [Next]_<<vars, failsInHandler>> => [Contract!Next]_(Contract!vars)
  BY NextFollows DEF Asks
<1> QED BY <1>1, <1>2, FollowsHolds, PTL DEF Spec, AsksAsPromised
=============================================================================
