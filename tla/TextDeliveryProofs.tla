------------------------- MODULE TextDeliveryProofs -------------------------
(***************************************************************************)
(* That every request is answered once and in its order, that the paste    *)
(* keys go out only for the run they belong to, with its words on the      *)
(* clipboard, that no modifier stays down, and that what an answer says of *)
(* the clipboard is so, for any settings and any number of requests and    *)
(* copies.                                                                 *)
(***************************************************************************)
EXTENDS TextDelivery, SequenceTheorems, TLAPS

RunType == [id : 0..MaxRequests, step : Steps, focused : BOOLEAN, copied : BOOLEAN,
            saved : Content \cup {Nothing}, read : Content \cup {Nothing},
            method : Methods \cup {"none"}, left : Seq(Methods),
            receipt : {"none", "copied", "sent", "accepted", "verified"},
            restored : BOOLEAN]
SeenType == [without : Content, newer : BOOLEAN, raced : BOOLEAN, late : BOOLEAN,
             copies : 0..MaxCopies, answered : 0..MaxRequests]
KeyType == [step : {"idle", "clearing", "asking", "pressing", "releasing"}, ok : BOOLEAN]

-----------------------------------------------------------------------------
(* The inductive invariant: of the delivery, and of its keyboard.          *)

DeliveryTypes ==
    /\ requests \in Seq(Request)
    /\ startQueued \in BOOLEAN /\ gone \in BOOLEAN
    /\ asked \in 0..MaxRequests
    /\ run \in RunType
    /\ marked \in Content \cup {Nothing} /\ clipboard \in Content
    /\ publishing \subseteq Helper
    /\ seen \in SeenType

(* The queue holds what was asked for and not answered, in order, and a run
   that waits is that of the first. *)
InOrder ==
    /\ gone = TRUE => run = NoRun /\ requests = << >>
    /\ gone = FALSE =>
         /\ Len(requests) = asked - seen.answered
         /\ \A i \in 1..Len(requests) : requests[i].id = seen.answered + i
    /\ seen.answered <= asked
    /\ running => requests # << >> /\ run.id = requests[1].id
    /\ run.step = "answered" => run.id \in 1..seen.answered
    /\ run.step = "none" => run = NoRun

(* A helper works for the run that waits for it or for one that is over, and
   until it restores it publishes the words of its run. *)
HelpersKnown ==
    \A p \in publishing :
        /\ gone = TRUE \/ p.by <= seen.answered \/ (running /\ p.by = run.id)
        /\ p.by = run.id /\ run.step \notin {"restore", "answered"} => p.what = Words(run.id)

(* A run pastes only what it copied, unless something newer came since. *)
PasteSteps == {"prepare", "press", "backendCopy", "verify"}
OwnOnClipboard == clipboard = Words(run.id) \/ seen.newer = TRUE
WordsAreThere ==
    /\ run.step \in PasteSteps => OwnOnClipboard
    /\ run.step = "copy" /\ Mine = {} => OwnOnClipboard

(* What is restored was saved. *)
RestoresSaved == run.step \in {"reread", "restore"} => run.saved # Nothing

DeliverySound ==
    DeliveryTypes /\ InOrder /\ HelpersKnown /\ WordsAreThere /\ RestoresSaved

(* The keyboard works only for a run that presses keys, or was answered while
   it did. *)
KeysSound ==
    /\ keyboard \in KeyType /\ ctrl \in BOOLEAN /\ orphan \in BOOLEAN
    /\ keyboard.step # "idle" => run.step \in {"press", "answered"}
    /\ KeysAreLetGo

Inv == DeliverySound /\ KeysSound

(* A READY on its way is of something that was about to be published. *)
ReadyKnown == ready \subseteq Helper

-----------------------------------------------------------------------------
(* Where a run may go. *)

LEMMA WordsAreContent ==
    /\ \A id \in 1..MaxRequests : Words(id) \in Content
    /\ \A n \in 0..MaxCopies : Copy(n) \in Content
  BY DEF Content

LEMMA MethodsOrdered ==
    ASSUME NEW s \in Settings
    PROVE  orderedMethods(s) \in Seq(Methods)
  <1>1. s.output \in {"automatic", "insert", "ydotool", "wlcopy", "qt"}
    BY DeliverySettingsAssumption
  <1> DEFINE pastes == s.ydotoolEnabled /\ choosePasteMethod(s) # "clipboard"
             copies == <<"wlcopy", "qt">>
  <1>3. CASE s.output = "automatic"
    <2>1. orderedMethods(s) = (IF pastes THEN <<"ydotool">> ELSE << >>) \o copies
      BY <1>3 DEF orderedMethods
    <2>2. <<"ydotool">> \in Seq(Methods) /\ << >> \in Seq(Methods) /\ copies \in Seq(Methods)
      BY DEF Methods
    <2>3. \A m \in Seq(Methods) : m \o copies \in Seq(Methods)
      BY <2>2
    <2> HIDE DEF copies
    <2> QED
      BY <2>1, <2>2, <2>3
  <1>4. CASE s.output # "automatic"
    <2>1. orderedMethods(s) \in {copies, <<s.output>>}
      BY <1>4 DEF orderedMethods
    <2>2. copies \in Seq(Methods)
      BY DEF Methods
    <2>3. CASE orderedMethods(s) = <<s.output>>
      <3>1. CASE s.output \in Methods
        BY <2>3, <3>1
      <3> QED
        BY <1>1, <1>4, <3>1 DEF Methods
    <2> QED
      BY <2>1, <2>2, <2>3
  <1> QED
    BY <1>3, <1>4

LEMMA Finishes ==
    ASSUME NEW r \in RunType, NEW receipt \in {"none", "copied", "sent", "accepted", "verified"},
           NEW b \in BOOLEAN
    PROVE  /\ finish(r, receipt, b) \in RunType /\ finish(r, receipt, b).id = r.id
           /\ finish(r, receipt, b).step = "answered"
  BY DEF finish, RunType, Steps

(* The next backend presses keys, or copies; with none left the run ends. *)
LEMMA PastesThrough ==
    ASSUME NEW r \in RunType, NEW methods \in Seq(Methods)
    PROVE  LET t == pasteThroughBackend(r, methods)
           IN  /\ t \in RunType /\ t.id = r.id
               /\ t.step \in {"answered", "backendCopy", "press", "prepare"}
  <1>1. CASE methods = << >>
    BY <1>1, Finishes DEF pasteThroughBackend, finishCopied
  <1>2. CASE methods # << >>
    <2>1. Head(methods) \in Methods /\ Tail(methods) \in Seq(Methods)
      BY <1>2
    <2> DEFINE step == IF Head(methods) # "ydotool" THEN "backendCopy"
                       ELSE IF blind(settings) THEN "press" ELSE "prepare"
    <2>2. step \in Steps /\ step \in {"backendCopy", "press", "prepare"}
      BY DEF Steps
    <2>3. pasteThroughBackend(r, methods)
            = [r EXCEPT !.method = Head(methods), !.left = Tail(methods), !.step = step]
      BY <1>2 DEF pasteThroughBackend
    <2> HIDE DEF step
    <2> QED
      BY <2>1, <2>2, <2>3 DEF RunType
  <1> QED
    BY <1>1, <1>2

LEMMA InsertsOrPastes ==
    ASSUME NEW r \in RunType, settings \in Settings, NEW t \in insertOrPaste(r)
    PROVE  /\ t \in RunType /\ t.id = r.id
           /\ t.step \in {"answered", "insert", "backendCopy", "press", "prepare"}
           /\ t.step \in PasteSteps => r.copied
  <1>1. CASE t = [r EXCEPT !.step = "insert"]
    BY <1>1 DEF RunType, Steps, PasteSteps
  <1>2. CASE r.copied /\ t = pasteUnlessOnlyInserting(r)
    <2>1. finishCopied(r) \in RunType /\ finishCopied(r).id = r.id
          /\ finishCopied(r).step = "answered"
      BY Finishes DEF finishCopied
    <2>2. orderedMethods(settings) \in Seq(Methods)
      BY MethodsOrdered
    <2> DEFINE onwards == pasteThroughBackend(r, orderedMethods(settings))
    <2>3. /\ onwards \in RunType /\ onwards.id = r.id
          /\ onwards.step \in {"answered", "backendCopy", "press", "prepare"}
      BY <2>2, PastesThrough
    <2>4. t \in {finishCopied(r), onwards}
      BY <1>2 DEF pasteUnlessOnlyInserting
    <2> HIDE DEF onwards
    <2> QED
      BY <1>2, <2>1, <2>3, <2>4
  <1>3. CASE t = finish(r, "none", FALSE)
    BY <1>3, Finishes DEF PasteSteps
  <1> QED
    BY <1>1, <1>2, <1>3 DEF insertOrPaste

LEMMA Restores ==
    ASSUME NEW r \in RunType
    PROVE  /\ restore(r) \in RunType /\ restore(r).id = r.id
           /\ restore(r).step \in {"answered", "reread"}
           /\ restore(r).step = "reread" => restore(r).saved # Nothing
  <1>1. CASE r.saved = Nothing \/ marked = Nothing
    BY <1>1, Finishes DEF restore
  <1>2. CASE ~(r.saved = Nothing \/ marked = Nothing)
    BY <1>2 DEF restore, RunType, Steps
  <1> QED
    BY <1>1, <1>2
-----------------------------------------------------------------------------
(* What every step of a run that waits shares.                             *)

LEMMA Bounds ==
    MaxRequests \in Nat /\ MaxCopies \in Nat
  BY DeliveryBoundsAssumption

LEMMA RunningFacts ==
    ASSUME DeliverySound, running
    PROVE  /\ gone = FALSE
           /\ requests # << >> /\ requests \in Seq(Request) /\ settings \in Settings
           /\ run.id = requests[1].id /\ run.id = seen.answered + 1 /\ run.id \in 1..MaxRequests
           /\ run \in RunType
  <1>1. gone = FALSE
    BY DEF DeliverySound, DeliveryTypes, InOrder, NoRun, running
  <1>2. requests # << >> /\ requests \in Seq(Request) /\ run.id = requests[1].id /\ run \in RunType
    BY DEF DeliverySound, DeliveryTypes, InOrder
  <1>3. requests[1] \in Request /\ 1 \in 1..Len(requests)
    BY <1>2
  <1>4. run.id = seen.answered + 1
    BY <1>1, <1>2, <1>3 DEF DeliverySound, InOrder
  <1> QED
    BY <1>1, <1>2, <1>3, <1>4 DEF settings, Request

(* A run that goes on as r keeps the delivery sound, if r is fit to. *)
FitToGoOn(r, mark, helpers) ==
    /\ r \in RunType /\ r.id = run.id /\ r.step # "none"
    /\ mark \in Content \cup {Nothing}
    /\ helpers \subseteq publishing
    /\ r.step \in {"reread", "restore"} => r.saved # Nothing
    /\ r.step \in PasteSteps => OwnOnClipboard
    /\ run.step = "restore" => r.step = "answered"

LEMMA GoesOn ==
    ASSUME DeliverySound, running, NEW r, NEW mark, NEW helpers,
           FitToGoOn(r, mark, helpers), goesOn(r, mark, helpers)
    PROVE  DeliverySound' /\ [Contract!Next]_(Contract!vars)
  <1>1. /\ gone = FALSE
        /\ requests # << >> /\ requests \in Seq(Request)
        /\ run.id = requests[1].id /\ run.id = seen.answered + 1 /\ run.id \in 1..MaxRequests
    BY RunningFacts
  <1>2. /\ run' = r /\ r \in RunType /\ r.id = run.id /\ r.step # "none"
        /\ publishing' = helpers \cup Publishes(r) /\ helpers \subseteq publishing
        /\ startQueued' = startQueued /\ clipboard' = clipboard /\ asked' = asked /\ gone' = gone
    BY DEF FitToGoOn, goesOn
  <1>3. \A p \in Publishes(r) :
          /\ p \in Helper /\ p.by = run.id /\ r.step \in {"copy", "backendCopy", "restore"}
          /\ r.step # "restore" => p.what = Words(run.id)
    <2>1. Words(run.id) \in Content
      BY <1>1, WordsAreContent
    <2>2. r.step = "restore" => r.saved \in Content
      BY <1>2 DEF FitToGoOn, RunType
    <2> QED
      <3>1. run \in RunType /\ r.method \in Methods \cup {"none"}
        BY <1>2, RunningFacts DEF RunType
      <3>2. r.step = "copy" => Publishes(r) = {[what |-> Words(run.id), by |-> run.id, via |-> "copy"]}
        BY <1>2 DEF Publishes
      <3>3. r.step = "backendCopy" =>
              Publishes(r) = {[what |-> Words(run.id), by |-> run.id, via |-> r.method]}
        BY <1>2 DEF Publishes
      <3>4. r.step = "restore" => Publishes(r) = {[what |-> r.saved, by |-> run.id, via |-> "restore"]}
        BY <1>2 DEF Publishes
      <3>5. r.step \notin {"copy", "backendCopy", "restore"} => Publishes(r) = {}
        BY DEF Publishes
      <3> QED
        BY <1>1, <2>1, <2>2, <3>1, <3>2, <3>3, <3>4, <3>5 DEF Helper
  <1>4. marked' \in Content \cup {Nothing}
    BY DEF FitToGoOn, goesOn
  <1>5. asked \in 0..MaxRequests /\ seen \in SeenType /\ seen.answered <= asked
        /\ seen.answered \in Nat /\ asked \in Nat
    BY Bounds DEF DeliverySound, DeliveryTypes, InOrder, SeenType
  <1>6. /\ Len(requests) = asked - seen.answered /\ Len(requests) \in Nat /\ Len(requests) > 0
        /\ \A i \in 1..Len(requests) : requests[i].id = seen.answered + i
    BY <1>1, <1>5 DEF DeliverySound, InOrder
  <1>7. /\ requests' \in Seq(Request) /\ seen' \in SeenType /\ seen'.newer = seen.newer
        /\ InOrder'
        /\ seen'.answered \in {seen.answered, seen.answered + 1}
        /\ r.step = "answered" => seen'.answered = run.id
        /\ r.step # "answered" => seen'.answered = seen.answered
        /\ [Contract!Next]_(Contract!vars)
    <2>1. CASE r.step = "answered"
      <3>1. requests' = Tail(requests) /\ seen' = [seen EXCEPT !.answered = run.id]
        BY <1>2, <2>1 DEF goesOn
      <3>2. /\ requests' \in Seq(Request) /\ Len(requests') = Len(requests) - 1
            /\ \A i \in 1..Len(requests') : requests'[i] = requests[i + 1]
        BY <1>1, <1>6, <3>1
      <3>3. seen' \in SeenType /\ seen'.answered = seen.answered + 1 /\ seen'.newer = seen.newer
        BY <1>1, <1>5, <3>1 DEF SeenType
      <3>4. Len(requests') = asked' - seen'.answered /\ seen'.answered <= asked'
        <4> DEFINE n == Len(requests)
                   done == seen.answered
        <4>1. asked' = asked /\ seen'.answered = done + 1 /\ Len(requests') = n - 1
          BY <1>2, <3>2, <3>3
        <4>2. n \in Nat /\ n > 0 /\ done \in Nat /\ asked \in Nat /\ n = asked - done
          BY <1>5, <1>6
        <4> HIDE DEF n, done
        <4> QED
          BY <4>1, <4>2
      <3>5. \A i \in 1..Len(requests') : requests'[i].id = seen'.answered + i
        <4> SUFFICES ASSUME NEW i \in 1..Len(requests')
                     PROVE  requests'[i].id = seen'.answered + i
          OBVIOUS
        <4>1. i \in Nat /\ i + 1 \in 1..Len(requests)
          BY <1>6, <3>2
        <4>2. requests'[i].id = seen.answered + (i + 1)
          BY <1>6, <3>2, <4>1
        <4> QED
          BY <1>5, <3>3, <4>1, <4>2
      <3>6. InOrder'
        <4>1. run'.id \in 1..seen'.answered
          BY <1>1, <1>2, <1>5, <3>3
        <4> QED
          BY <1>1, <1>2, <2>1, <3>4, <3>5, <4>1 DEF InOrder, running
      <3>7. Contract!Answer
        BY <1>1, <1>2, <1>5, <1>6, <3>3 DEF Contract!Answer
      <3> QED
        BY <1>1, <2>1, <3>2, <3>3, <3>6, <3>7 DEF Contract!Next
    <2>2. CASE r.step # "answered"
      <3>1. requests' = requests /\ seen' = seen
        BY <2>2 DEF goesOn
      <3>2. InOrder'
        BY <1>1, <1>2, <3>1, <2>2 DEF InOrder, running, DeliverySound
      <3>3. Contract!vars' = Contract!vars
        BY <1>2, <3>1 DEF Contract!vars
      <3> QED
        BY <1>1, <1>5, <2>2, <3>1, <3>2, <3>3
    <2> QED
      BY <2>1, <2>2
  <1>8. publishing' \subseteq Helper
    BY <1>2, <1>3 DEF DeliverySound, DeliveryTypes
  <1>9. DeliveryTypes'
    BY <1>2, <1>4, <1>7, <1>8 DEF DeliveryTypes, DeliverySound
  <1>10. HelpersKnown'
    <2> SUFFICES ASSUME NEW p \in publishing'
                 PROVE  /\ p.by <= seen'.answered \/ (running' /\ p.by = run'.id)
                        /\ p.by = run'.id /\ run'.step \notin {"restore", "answered"}
                             => p.what = Words(run'.id)
      BY DEF HelpersKnown, Words
    <2>1. CASE p \in Publishes(r)
      BY <1>2, <1>3, <2>1 DEF running
    <2>2. CASE p \in publishing
      <3>1. p.by \in Nat
        BY <2>2, Bounds DEF DeliverySound, DeliveryTypes, Helper
      <3>2. p.by <= seen.answered \/ p.by = run.id
        BY <1>1, <2>2 DEF DeliverySound, HelpersKnown
      <3>3. p.by <= seen'.answered \/ (running' /\ p.by = run'.id)
        BY <1>1, <1>2, <1>5, <1>7, <3>1, <3>2 DEF running
      <3>4. ASSUME p.by = run.id, r.step \notin {"restore", "answered"}
            PROVE  p.what = Words(run.id)
        <4>1. run.step \notin {"restore", "answered"}
          BY <3>4 DEF FitToGoOn, running
        <4> QED
          BY <2>2, <3>4, <4>1 DEF DeliverySound, HelpersKnown
      <3> QED
        BY <1>2, <3>3, <3>4
    <2> QED
      BY <1>2, <2>1, <2>2
  <1>11. WordsAreThere' /\ RestoresSaved'
    <2>1. r.step \in PasteSteps => OwnOnClipboard'
      BY <1>2, <1>7 DEF FitToGoOn, OwnOnClipboard, Words
    <2>2. r.step = "copy" => [what |-> Words(r.id), by |-> r.id, via |-> "copy"] \in Mine'
      BY <1>2 DEF Publishes, Mine
    <2> QED
      BY <1>2, <2>1, <2>2 DEF WordsAreThere, RestoresSaved, FitToGoOn
  <1> QED
    BY <1>7, <1>9, <1>10, <1>11 DEF DeliverySound

(* A step that answers what the run waits for finds the keyboard at rest. *)
LEMMA Continues ==
    ASSUME Inv, running, NEW r, NEW mark, NEW helpers,
           FitToGoOn(r, mark, helpers), goesOn(r, mark, helpers),
           keyboard' = IF r.step = "press" THEN [NoKeys EXCEPT !.step = "clearing"] ELSE keyboard,
           ctrl' = ctrl, orphan' = orphan,
           run.step # "press" \/ r.step = "answered"
    PROVE  Inv' /\ [Contract!Next]_(Contract!vars)
  <1>1. DeliverySound' /\ [Contract!Next]_(Contract!vars)
    BY GoesOn DEF Inv
  <1>2. run' = r /\ ctrl' = ctrl /\ orphan' = orphan
        /\ keyboard' = IF r.step = "press" THEN [NoKeys EXCEPT !.step = "clearing"] ELSE keyboard
    BY DEF goesOn
  <1>3. CASE r.step = "press"
    <2>1. keyboard.step = "idle"
      BY <1>3 DEF Inv, KeysSound, running
    <2>2. keyboard' = [step |-> "clearing", ok |-> FALSE]
      BY <1>2, <1>3 DEF NoKeys
    <2>3. keyboard' \in KeyType /\ keyboard'.step = "clearing" /\ run'.step = "press"
      <3>1. [step |-> "clearing", ok |-> FALSE] \in KeyType
        BY DEF KeyType
      <3>2. keyboard'.step = "clearing"
        BY <2>2
      <3> QED
        BY <1>2, <1>3, <2>2, <3>1, <3>2
    <2>4. ctrl' => orphan'
      BY <1>2, <2>1 DEF Inv, KeysSound, KeysAreLetGo
    <2>5. ctrl' \in BOOLEAN /\ orphan' \in BOOLEAN
      BY <1>2 DEF Inv, KeysSound
    <2> QED
      BY <1>1, <2>3, <2>4, <2>5 DEF Inv, KeysSound, KeysAreLetGo
  <1>4. CASE r.step # "press"
    <2>1. keyboard' = keyboard
      BY <1>2, <1>4
    <2>2. keyboard.step # "idle" => r.step = "answered"
      BY DEF Inv, KeysSound, running
    <2> QED
      BY <1>1, <1>2, <2>1, <2>2 DEF Inv, KeysSound, KeysAreLetGo
  <1> QED
    BY <1>3, <1>4
-----------------------------------------------------------------------------
(* Each action.                                                            *)

LEMMA Answered ==
    ASSUME Inv, Answers
    PROVE  Inv' /\ [Contract!Next]_(Contract!vars)
  <1>1. PICK ok \in BOOLEAN :
           \/ \E canSnapshot \in BOOLEAN : focusChecked(ok, canSnapshot)
           \/ captured(ok) \/ copied(ok) \/ insertedDirectly(ok) \/ preparePasteInFocus(ok)
           \/ backendCopied(ok) \/ answerPaste(ok)
           \/ restorePreservingNewCopy(ok) \/ restored(ok)
    BY DEF Answers
  <1>2. /\ running
        /\ run.step \in {"focus", "capture", "copy", "insert", "prepare", "backendCopy", "verify",
                         "reread", "restore"}
    BY <1>1 DEF running, focusChecked, captured, copied, insertedDirectly, preparePasteInFocus,
                backendCopied, answerPaste, restorePreservingNewCopy, restored
  <1>3. /\ settings \in Settings /\ run.id \in 1..MaxRequests /\ run \in RunType
    BY <1>2, RunningFacts DEF Inv
  <1>4. /\ marked \in Content \cup {Nothing} /\ Words(run.id) \in Content /\ clipboard \in Content
        /\ publishing \ Mine \subseteq publishing
    BY <1>3, WordsAreContent DEF Inv, DeliverySound, DeliveryTypes
  <1>5. run.step \in PasteSteps => OwnOnClipboard
    BY DEF Inv, DeliverySound, WordsAreThere
  <1> DEFINE Fits(r) == /\ r \in RunType /\ r.id = run.id /\ r.step # "none"
                        /\ r.step \in {"reread", "restore"} => r.saved # Nothing
                        /\ r.step \in PasteSteps => OwnOnClipboard
                        /\ run.step = "restore" => r.step = "answered"
             KnownMark(m) == m \in Content \cup {Nothing}
  <1>6. ASSUME NEW r, NEW m, NEW helpers, continues(r, m, helpers), Fits(r), KnownMark(m),
               helpers \subseteq publishing
        PROVE  Inv' /\ [Contract!Next]_(Contract!vars)
    <2>1. FitToGoOn(r, m, helpers)
      BY <1>6 DEF FitToGoOn
    <2>2. /\ goesOn(r, m, helpers) /\ ctrl' = ctrl /\ orphan' = orphan
          /\ keyboard' = IF r.step = "press" THEN [NoKeys EXCEPT !.step = "clearing"] ELSE keyboard
      BY <1>6 DEF continues
    <2> QED
      BY <1>2, <2>1, <2>2, Continues
  <1>7. ASSUME NEW receipt \in {"none", "copied", "sent", "accepted", "verified"},
               NEW b \in BOOLEAN
        PROVE  Fits(finish(run, receipt, b))
    BY <1>3, <1>7, Finishes DEF PasteSteps
  <1>8. Fits(finishCopied(run))
    BY <1>7 DEF finishCopied
  <1>9. KnownMark(marked) /\ KnownMark(Words(run.id)) /\ KnownMark(Nothing)
    BY <1>4
  <1>10. run.step # "restore" => Fits(restore(run))
    BY <1>3, Restores DEF PasteSteps
  <1>11. ASSUME NEW canSnapshot \in BOOLEAN, focusChecked(ok, canSnapshot)
         PROVE  Inv' /\ [Contract!Next]_(Contract!vars)
    <2> DEFINE method == choosePasteMethod(settings)
               focused == method # "clipboard" /\ (blind(settings) \/ ok)
               saves == method # "clipboard" /\ settings.restore /\ canSnapshot
               step == IF saves THEN "capture" ELSE "copy"
               next == [run EXCEPT !.focused = focused, !.step = step]
    <2>1. focused \in BOOLEAN
      BY <1>1
    <2>2. step \in {"capture", "copy"}
      OBVIOUS
    <2>3. continues(next, marked, publishing) /\ run.step = "focus"
      BY <1>11 DEF focusChecked
    <2> HIDE DEF focused, step
    <2>4. next \in RunType /\ next.id = run.id /\ next.step = step
      BY <1>3, <2>1, <2>2 DEF RunType, Steps
    <2>5. Fits(next)
      BY <2>2, <2>3, <2>4 DEF PasteSteps
    <2> HIDE DEF next, Fits, KnownMark
    <2> QED
      BY <1>6, <1>9, <2>3, <2>5
  <1>12. CASE captured(ok)
    <2>1. PICK saved \in IF ok THEN Found ELSE {Nothing} :
            continues([run EXCEPT !.saved = saved, !.read = Nothing, !.step = "copy"],
                      marked, publishing)
      BY <1>12 DEF captured
    <2> DEFINE next == [run EXCEPT !.saved = saved, !.read = Nothing, !.step = "copy"]
    <2>2. run.step = "capture"
      BY <1>12 DEF captured
    <2>3. saved \in Content \cup {Nothing}
      BY <1>3, <1>4 DEF Found, RunType
    <2>4. next \in RunType /\ next.id = run.id /\ next.step = "copy"
      BY <1>3, <2>3 DEF RunType, Steps
    <2>5. Fits(next)
      BY <2>2, <2>4 DEF PasteSteps
    <2>6. continues(next, marked, publishing)
      BY <2>1
    <2> HIDE DEF next, Fits, KnownMark
    <2> QED
      BY <1>6, <1>9, <2>5, <2>6
  <1>13. CASE copied(ok)
    <2> DEFINE after == [run EXCEPT !.copied = ok]
               mark == IF ok THEN Words(run.id) ELSE marked
    <2>1. PICK r \in insertOrPaste(after) : continues(r, mark, publishing \ Mine)
      BY <1>13 DEF copied
    <2>2. run.step = "copy" /\ (ok <=> Mine = {})
      BY <1>13 DEF copied
    <2>3. after \in RunType /\ after.id = run.id /\ after.copied = ok
      BY <1>3 DEF RunType
    <2>4. ok => OwnOnClipboard
      BY <2>2 DEF Inv, DeliverySound, WordsAreThere
    <2> HIDE DEF after
    <2>5. /\ r \in RunType /\ r.id = after.id
          /\ r.step \in {"answered", "insert", "backendCopy", "press", "prepare"}
          /\ r.step \in PasteSteps => after.copied
      BY <1>3, <2>3, InsertsOrPastes
    <2>6. Fits(r) /\ KnownMark(mark)
      BY <1>9, <2>2, <2>3, <2>4, <2>5
    <2> HIDE DEF Fits, KnownMark, mark
    <2> QED
      BY <1>4, <1>6, <2>1, <2>6
  <1>14. CASE insertedDirectly(ok)
    <2> DEFINE r == IF run.copied /\ ok THEN restore(run)
                    ELSE finish(run, IF ok THEN "verified" ELSE "accepted", FALSE)
    <2>1. continues(r, marked, publishing) /\ run.step = "insert"
      BY <1>14 DEF insertedDirectly
    <2>2. Fits(finish(run, IF ok THEN "verified" ELSE "accepted", FALSE))
      BY <1>7
    <2> HIDE DEF Fits, KnownMark
    <2>3. Fits(r)
      BY <1>10, <2>1, <2>2
    <2> HIDE DEF r
    <2> QED
      BY <1>6, <1>9, <2>1, <2>3
  <1>15. CASE preparePasteInFocus(ok)
    <2> DEFINE press == [run EXCEPT !.step = "press"]
    <2>1. run.step = "prepare" /\ continues(IF ok THEN press ELSE finishCopied(run), marked, publishing)
      BY <1>15 DEF preparePasteInFocus
    <2>2. press \in RunType /\ press.id = run.id /\ press.step = "press"
      BY <1>3 DEF RunType, Steps
    <2>3. Fits(press)
      BY <1>5, <2>1, <2>2 DEF PasteSteps
    <2> HIDE DEF press, Fits, KnownMark
    <2> QED
      BY <1>6, <1>8, <1>9, <2>1, <2>3
  <1>16. CASE backendCopied(ok)
    <2> DEFINE onwards == pasteThroughBackend(run, run.left)
               mark == IF ok /\ run.method = "wlcopy" THEN Words(run.id) ELSE marked
    <2>1. /\ run.step = "backendCopy"
          /\ continues(IF ok THEN finishCopied(run) ELSE onwards, mark, publishing \ Mine)
      BY <1>16 DEF backendCopied
    <2>2. run.left \in Seq(Methods)
      BY <1>3 DEF RunType
    <2>3. /\ onwards \in RunType /\ onwards.id = run.id
          /\ onwards.step \in {"answered", "backendCopy", "press", "prepare"}
      BY <1>3, <2>2, PastesThrough
    <2>4. Fits(onwards)
      BY <1>5, <2>1, <2>3 DEF PasteSteps
    <2>5. KnownMark(mark)
      BY <1>9
    <2> HIDE DEF onwards, mark, Fits, KnownMark
    <2> QED
      BY <1>4, <1>6, <1>8, <2>1, <2>4, <2>5
  <1>17. CASE answerPaste(ok)
    <2>1. /\ run.step = "verify"
          /\ continues(IF ok THEN restore(run) ELSE finish(run, "sent", FALSE), marked, publishing)
      BY <1>17 DEF answerPaste
    <2>2. Fits(finish(run, "sent", FALSE))
      BY <1>7
    <2> HIDE DEF Fits, KnownMark
    <2> QED
      BY <1>6, <1>9, <1>10, <2>1, <2>2
  <1>18. CASE restorePreservingNewCopy(ok)
    <2> DEFINE done == [run EXCEPT !.read = Nothing]
               again == [done EXCEPT !.step = "restore"]
               mark == IF ok THEN Nothing ELSE marked
    <2>1. PICK content \in Found :
            continues(IF ok /\ content = marked THEN again ELSE finish(done, "verified", ok),
                      mark, publishing)
      BY <1>18 DEF restorePreservingNewCopy
    <2>2. run.step = "reread"
      BY <1>18 DEF restorePreservingNewCopy
    <2>3. done \in RunType /\ done.id = run.id /\ done.saved = run.saved
      BY <1>3 DEF RunType
    <2> HIDE DEF done
    <2>4. again \in RunType /\ again.id = run.id /\ again.step = "restore" /\ again.saved = run.saved
      BY <2>3 DEF RunType, Steps
    <2>5. run.saved # Nothing
      BY <2>2 DEF Inv, DeliverySound, RestoresSaved
    <2>6. Fits(again)
      BY <2>2, <2>4, <2>5 DEF PasteSteps
    <2>7. Fits(finish(done, "verified", ok)) /\ KnownMark(mark)
      BY <1>9, <2>3, Finishes DEF PasteSteps
    <2> HIDE DEF again, mark, Fits, KnownMark
    <2> QED
      BY <1>6, <2>1, <2>6, <2>7
  <1>19. CASE restored(ok)
    <2>1. continues(finish(run, "verified", ok), marked, publishing \ Mine)
      BY <1>19 DEF restored
    <2>2. Fits(finish(run, "verified", ok))
      BY <1>7
    <2> HIDE DEF Fits, KnownMark
    <2> QED
      BY <1>4, <1>6, <1>9, <2>1, <2>2
  <1> QED
    BY <1>1, <1>11, <1>12, <1>13, <1>14, <1>15, <1>16, <1>17, <1>18, <1>19

LEMMA DeadlineAnswers ==
    ASSUME Inv, deadline
    PROVE  Inv' /\ [Contract!Next]_(Contract!vars)
  <1>1. /\ running /\ goesOn(finish(run, "none", FALSE), marked, publishing)
        /\ keyboard' = keyboard /\ ctrl' = ctrl /\ orphan' = orphan
    BY DEF deadline, keyVars
  <1>2. run \in RunType /\ marked \in Content \cup {Nothing}
    BY DEF Inv, DeliverySound, DeliveryTypes
  <1>3. FitToGoOn(finish(run, "none", FALSE), marked, publishing)
        /\ finish(run, "none", FALSE).step = "answered"
    BY <1>2, Finishes DEF FitToGoOn, PasteSteps
  <1> QED
    BY <1>1, <1>3, Continues
(* A keyboard that has done its part, for a run that may be answered. *)
LEMMA KeyboardRests ==
    ASSUME Inv, keyboard.step # "idle", keyboard' = NoKeys, orphan' = orphan,
           ctrl' \in BOOLEAN, ctrl' = TRUE => keyboard.step \in {"clearing", "asking"} /\ ctrl = TRUE,
           NEW r, running => FitToGoOn(r, marked, publishing), backendDone(r)
    PROVE  Inv' /\ [Contract!Next]_(Contract!vars)
  <1>1. KeysSound'
    <2>1. NoKeys \in KeyType /\ NoKeys.step = "idle"
      BY DEF NoKeys, KeyType
    <2> QED
      BY <2>1 DEF Inv, KeysSound, KeysAreLetGo
  <1>2. CASE running
    <2>1. goesOn(r, marked, publishing)
      BY <1>2 DEF backendDone
    <2> QED
      BY <1>1, <1>2, <2>1, GoesOn DEF Inv
  <1>3. CASE ~running
    <2>1. UNCHANGED <<deliveryVars, run, marked, publishing, clipboard, seen>>
      BY <1>3 DEF backendDone
    <2>2. DeliverySound' /\ Contract!vars' = Contract!vars
      BY <2>1 DEF Inv, DeliverySound, DeliveryTypes, InOrder, HelpersKnown, WordsAreThere,
                  RestoresSaved, OwnOnClipboard, Mine, running, deliveryVars, Contract!vars
    <2> QED
      BY <1>1, <2>2 DEF Inv
  <1> QED
    BY <1>2, <1>3

(* What leaves the delivery alone leaves it sound. *)
LEMMA DeliveryAlone ==
    ASSUME DeliverySound,
           UNCHANGED <<deliveryVars, run, marked, publishing, clipboard, seen>>
    PROVE  DeliverySound' /\ [Contract!Next]_(Contract!vars)
  BY DEF DeliverySound, DeliveryTypes, InOrder, HelpersKnown, WordsAreThere,
         RestoresSaved, OwnOnClipboard, Mine, running, deliveryVars, Contract!vars

(* A run that waits while the keyboard works presses keys, and its words are
   what they paste. *)
LEMMA PressingRun ==
    ASSUME Inv, keyboard.step # "idle", running
    PROVE  /\ run.step = "press" /\ OwnOnClipboard /\ requests[1].id = run.id
           /\ FitToGoOn(finishCopied(run), marked, publishing)
           /\ FitToGoOn([run EXCEPT !.step = "verify"], marked, publishing)
  <1>1. run.step = "press" /\ requests[1].id = run.id
    BY RunningFacts DEF Inv, KeysSound, running
  <1>2. OwnOnClipboard
    BY <1>1 DEF Inv, DeliverySound, WordsAreThere, PasteSteps
  <1>3. run \in RunType /\ marked \in Content \cup {Nothing}
    BY DEF Inv, DeliverySound, DeliveryTypes
  <1>4. FitToGoOn(finishCopied(run), marked, publishing)
    BY <1>1, <1>3, Finishes DEF FitToGoOn, finishCopied, PasteSteps
  <1>5. [run EXCEPT !.step = "verify"] \in RunType
    BY <1>3 DEF RunType, Steps
  <1>6. FitToGoOn([run EXCEPT !.step = "verify"], marked, publishing)
    BY <1>1, <1>2, <1>3, <1>5 DEF FitToGoOn, RunType
  <1> QED
    BY <1>1, <1>2, <1>4, <1>6

LEMMA KeyStep ==
    ASSUME Inv, Keys
    PROVE  Inv' /\ [Contract!Next]_(Contract!vars)
  <1>1. DeliverySound /\ keyboard \in KeyType /\ ctrl \in BOOLEAN /\ orphan \in BOOLEAN
    BY DEF Inv, KeysSound
  <1> DEFINE Alone == UNCHANGED <<deliveryVars, run, marked, publishing, clipboard, seen>>
  <1>2. ASSUME Alone, KeysSound'
        PROVE  Inv' /\ [Contract!Next]_(Contract!vars)
    BY <1>1, <1>2, DeliveryAlone DEF Inv
  <1>3. CASE ydotoolMissing
    <2>1. /\ keyboard.step = "clearing" /\ keyboard' = NoKeys /\ backendDone(finishCopied(run))
          /\ ctrl' = ctrl /\ orphan' = orphan
      BY <1>3 DEF ydotoolMissing
    <2>2. running => FitToGoOn(finishCopied(run), marked, publishing)
      BY <2>1, PressingRun
    <2> QED
      BY <1>1, <2>1, <2>2, KeyboardRests
  <1>4. CASE modifiersReleased
    <2>1. Alone /\ keyboard.step = "clearing" /\ orphan' = orphan
      BY <1>4 DEF modifiersReleased
    <2>2. run.step \in {"press", "answered"} /\ run' = run
      BY <2>1 DEF Inv, KeysSound
    <2>3. \/ keyboard' = NoKeys /\ ctrl' = ctrl
          \/ keyboard' = [keyboard EXCEPT !.step = "pressing"] /\ ctrl' = TRUE
          \/ keyboard' = [keyboard EXCEPT !.step = "asking"] /\ ctrl' = ctrl
      BY <1>4 DEF modifiersReleased
    <2>4. ctrl => orphan
      BY <2>1 DEF Inv, KeysSound, KeysAreLetGo
    <2>5. ASSUME keyboard' = NoKeys, ctrl' = ctrl
          PROVE  KeysSound'
      BY <1>1, <2>1, <2>2, <2>4, <2>5 DEF KeysSound, KeysAreLetGo, NoKeys, KeyType
    <2>6. ASSUME keyboard' = [keyboard EXCEPT !.step = "pressing"], ctrl' = TRUE
          PROVE  KeysSound'
      <3>1. keyboard' \in KeyType /\ keyboard'.step = "pressing"
        BY <1>1, <2>6 DEF KeyType
      <3> QED
        BY <1>1, <2>1, <2>2, <2>6, <3>1 DEF KeysSound, KeysAreLetGo
    <2>7. ASSUME keyboard' = [keyboard EXCEPT !.step = "asking"], ctrl' = ctrl
          PROVE  KeysSound'
      <3>1. keyboard' \in KeyType /\ keyboard'.step = "asking"
        BY <1>1, <2>7 DEF KeyType
      <3> QED
        BY <1>1, <2>1, <2>2, <2>4, <2>7, <3>1 DEF KeysSound, KeysAreLetGo
    <2>8. KeysSound'
      BY <2>3, <2>5, <2>6, <2>7
    <2> QED
      BY <1>2, <2>1, <2>8
  <1>5. CASE keysReleased
    <2> DEFINE r == IF keyboard.ok THEN [run EXCEPT !.step = "verify"] ELSE finishCopied(run)
    <2>1. /\ keyboard.step = "releasing" /\ keyboard' = NoKeys /\ ctrl' = FALSE
          /\ orphan' = orphan /\ backendDone(r)
      BY <1>5 DEF keysReleased
    <2>2. running => FitToGoOn(r, marked, publishing)
      BY <2>1, PressingRun
    <2> HIDE DEF r
    <2> QED
      BY <1>1, <2>1, <2>2, KeyboardRests
  <1>6. CASE orphanReleased
    <2>1. Alone /\ keyboard' = keyboard /\ run' = run /\ ctrl' = FALSE /\ orphan' = FALSE
      BY <1>6 DEF orphanReleased
    <2> QED
      BY <1>2, <2>1 DEF Inv, KeysSound, KeysAreLetGo
  <1>7. ASSUME NEW ok \in BOOLEAN, clearToInject(ok)
        PROVE  Inv' /\ [Contract!Next]_(Contract!vars)
    <2>1. keyboard.step = "asking" /\ orphan' = orphan
      BY <1>7 DEF clearToInject
    <2>2. CASE Clear(ok)
      <3>1. Alone /\ keyboard' = [keyboard EXCEPT !.step = "pressing"] /\ ctrl' = TRUE
        BY <1>7, <2>2 DEF clearToInject
      <3>2. keyboard' \in KeyType /\ keyboard'.step = "pressing"
        BY <1>1, <3>1 DEF KeyType
      <3>3. run.step \in {"press", "answered"} /\ run' = run
        BY <2>1, <3>1 DEF Inv, KeysSound
      <3>4. KeysSound'
        BY <1>1, <2>1, <3>1, <3>2, <3>3 DEF KeysSound, KeysAreLetGo
      <3> QED
        BY <1>2, <3>1, <3>4
    <2>3. CASE ~Clear(ok)
      <3>1. keyboard' = NoKeys /\ ctrl' = ctrl /\ backendDone(finishCopied(run))
        BY <1>7, <2>3 DEF clearToInject
      <3>2. running => FitToGoOn(finishCopied(run), marked, publishing)
        BY <2>1, PressingRun
      <3> QED
        BY <1>1, <2>1, <3>1, <3>2, KeyboardRests
    <2> QED
      BY <2>2, <2>3
  <1>8. ASSUME NEW ok \in BOOLEAN, pressPasteKeys(ok)
        PROVE  Inv' /\ [Contract!Next]_(Contract!vars)
    <2>1. /\ keyboard.step = "pressing" /\ keyboard' = [step |-> "releasing", ok |-> ok]
          /\ Alone /\ ctrl' = ctrl /\ orphan' = orphan
      BY <1>8 DEF pressPasteKeys
    <2>2. keyboard' \in KeyType /\ keyboard'.step = "releasing"
      BY <1>8, <2>1 DEF KeyType
    <2>3. run.step \in {"press", "answered"} /\ run' = run
      BY <2>1 DEF Inv, KeysSound
    <2> QED
      BY <1>1, <1>2, <2>1, <2>2, <2>3 DEF KeysSound, KeysAreLetGo
  <1> QED
    BY <1>3, <1>4, <1>5, <1>6, <1>7, <1>8 DEF Keys
(* What happens to the delivery and around it leaves no run to press keys
   and no helper without a run. *)
LEMMA DeliverStep ==
    ASSUME Inv, deliver
    PROVE  Inv' /\ [Contract!Next]_(Contract!vars)
  <1>1. PICK s \in Settings : requests' = Append(requests, [id |-> asked + 1, settings |-> s])
    BY DEF deliver
  <1>2. /\ gone = FALSE /\ asked < MaxRequests /\ asked' = asked + 1 /\ startQueued' = TRUE
        /\ run' = run /\ marked' = marked /\ publishing' = publishing /\ clipboard' = clipboard
        /\ gone' = gone /\ seen' = seen
        /\ keyboard' = keyboard /\ ctrl' = ctrl /\ orphan' = orphan
    BY DEF deliver, keyVars, Inv, DeliverySound, DeliveryTypes
  <1>3. /\ asked \in 0..MaxRequests /\ seen.answered \in Nat /\ requests \in Seq(Request)
        /\ Len(requests) = asked - seen.answered /\ seen.answered <= asked
        /\ \A i \in 1..Len(requests) : requests[i].id = seen.answered + i
    BY <1>2, Bounds DEF Inv, DeliverySound, DeliveryTypes, InOrder, SeenType
  <1> DEFINE new == [id |-> asked + 1, settings |-> s]
  <1>4. new \in Request /\ new.id = asked + 1
    BY <1>2, <1>3, Bounds DEF Request
  <1> HIDE DEF new
  <1>5. /\ requests' \in Seq(Request) /\ Len(requests') = Len(requests) + 1
        /\ \A i \in 1..Len(requests) : requests'[i] = requests[i]
        /\ requests'[Len(requests) + 1] = new
    BY <1>1, <1>3, <1>4 DEF new
  <1>6. \A i \in 1..Len(requests') : requests'[i].id = seen.answered + i
    <2> SUFFICES ASSUME NEW i \in 1..Len(requests')
                 PROVE  requests'[i].id = seen.answered + i
      OBVIOUS
    <2>1. CASE i \in 1..Len(requests)
      BY <1>3, <1>5, <2>1
    <2>2. CASE i = Len(requests) + 1
      BY <1>3, <1>4, <1>5, <2>2
    <2> QED
      BY <1>3, <1>5, <2>1, <2>2
  <1>7. DeliveryTypes'
    BY <1>2, <1>3, <1>5, Bounds DEF Inv, DeliverySound, DeliveryTypes
  <1>8. running' <=> running
    BY <1>2 DEF running
  <1>9. InOrder'
    <2>1. running => requests # << >> /\ run.id = requests[1].id
      BY DEF Inv, DeliverySound, InOrder
    <2>2. running => requests' # << >> /\ requests'[1] = requests[1]
      BY <1>3, <1>5, <2>1
    <2>3. Len(requests') = asked' - seen'.answered /\ seen'.answered <= asked'
      BY <1>2, <1>3, <1>5
    <2>4. /\ run.step = "none" => run = NoRun
          /\ run.step = "answered" => run.id \in 1..seen.answered
      BY DEF Inv, DeliverySound, InOrder
    <2> QED
      BY <1>2, <1>6, <1>8, <2>1, <2>2, <2>3, <2>4 DEF InOrder, NoRun, Nothing
  <1>10. HelpersKnown' /\ WordsAreThere' /\ RestoresSaved'
    BY <1>2, <1>8 DEF Inv, DeliverySound, HelpersKnown, WordsAreThere, RestoresSaved,
                      OwnOnClipboard, Mine
  <1>11. KeysSound'
    BY <1>2 DEF Inv, KeysSound, KeysAreLetGo
  <1>12. Contract!Ask
    BY <1>2 DEF Contract!Ask
  <1> QED
    BY <1>7, <1>9, <1>10, <1>11, <1>12 DEF Inv, DeliverySound, Contract!Next

LEMMA StartStep ==
    ASSUME Inv, startNext
    PROVE  Inv' /\ [Contract!Next]_(Contract!vars)
  <1>1. /\ gone = FALSE /\ startQueued' = FALSE
        /\ requests' = requests /\ marked' = marked /\ publishing' = publishing
        /\ clipboard' = clipboard /\ asked' = asked /\ gone' = gone
        /\ keyboard' = keyboard /\ ctrl' = ctrl /\ orphan' = orphan
    BY DEF startNext, keyVars, Inv, DeliverySound, DeliveryTypes
  <1>2. CASE run = NoRun /\ requests # << >>
    <2>1. /\ run' = [NoRun EXCEPT !.id = requests[1].id, !.step = "focus"]
          /\ seen' = [seen EXCEPT !.without = clipboard, !.newer = FALSE, !.raced = FALSE,
                                  !.late = FALSE]
      BY <1>2 DEF startNext
    <2>2. /\ requests \in Seq(Request) /\ seen \in SeenType /\ clipboard \in Content
          /\ keyboard.step = "idle" /\ seen.answered \in Nat
          /\ Len(requests) = asked - seen.answered
      BY <1>1, <1>2, Bounds
         DEF Inv, DeliverySound, DeliveryTypes, InOrder, KeysSound, NoRun, SeenType
    <2>3. requests[1] \in Request /\ 1 \in 1..Len(requests)
      BY <1>2, <2>2
    <2>4. requests[1].id = seen.answered + 1 /\ requests[1].id \in 1..MaxRequests
      BY <1>1, <2>2, <2>3 DEF Inv, DeliverySound, InOrder, Request
    <2>5. NoRun \in RunType
      BY Bounds DEF NoRun, RunType, Steps, Methods
    <2>6. run' \in RunType /\ run'.id = requests[1].id /\ run'.step = "focus"
      <3> DEFINE id == requests[1].id
      <3>1. run' = [NoRun EXCEPT !.id = id, !.step = "focus"] /\ id \in 0..MaxRequests
        BY <2>1, <2>4, Bounds
      <3> HIDE DEF id
      <3>2. run' \in RunType /\ run'.id = id /\ run'.step = "focus"
        BY <2>5, <3>1 DEF RunType, Steps
      <3> QED
        BY <3>2 DEF id
    <2>7. seen' \in SeenType /\ seen'.answered = seen.answered
      BY <2>1, <2>2 DEF SeenType
    <2>8. DeliveryTypes'
      BY <1>1, <2>6, <2>7 DEF Inv, DeliverySound, DeliveryTypes
    <2>9. InOrder'
      BY <1>1, <1>2, <2>6, <2>7 DEF Inv, DeliverySound, InOrder
    <2>10. HelpersKnown'
      <3> SUFFICES ASSUME NEW p \in publishing
                   PROVE  p.by <= seen.answered /\ p.by # run'.id
        BY <1>1, <2>7 DEF HelpersKnown
      <3>1. p.by \in Nat
        BY Bounds DEF Inv, DeliverySound, DeliveryTypes, Helper
      <3>2. p.by <= seen.answered
        BY <1>1, <1>2 DEF Inv, DeliverySound, HelpersKnown, running, NoRun
      <3> QED
        BY <2>2, <2>4, <2>6, <3>1, <3>2
    <2>11. WordsAreThere' /\ RestoresSaved'
      BY <2>6 DEF WordsAreThere, RestoresSaved, PasteSteps
    <2>12. KeysSound'
      BY <1>1, <2>2 DEF Inv, KeysSound, KeysAreLetGo
    <2>13. Contract!vars' = Contract!vars
      BY <1>1, <2>7 DEF Contract!vars
    <2> QED
      BY <2>8, <2>9, <2>10, <2>11, <2>12, <2>13 DEF Inv, DeliverySound
  <1>3. CASE run # NoRun \/ requests = << >>
    <2>1. run' = run /\ seen' = seen
      BY <1>3 DEF startNext
    <2>2. DeliverySound' /\ Contract!vars' = Contract!vars
      BY <1>1, <2>1 DEF Inv, DeliverySound, DeliveryTypes, InOrder, HelpersKnown, WordsAreThere,
                        RestoresSaved, OwnOnClipboard, Mine, running, Contract!vars
    <2>3. KeysSound'
      BY <1>1, <2>1 DEF Inv, KeysSound, KeysAreLetGo
    <2> QED
      BY <2>2, <2>3 DEF Inv
  <1> QED
    BY <1>2, <1>3

LEMMA RunGoes ==
    ASSUME Inv, destroyed \/ leave
    PROVE  Inv' /\ [Contract!Next]_(Contract!vars)
  <1>1. /\ run' = NoRun /\ keyboard' = NoKeys /\ orphan' = (orphan \/ Orphans)
        /\ ctrl' = ctrl /\ marked' = marked /\ publishing' = publishing
        /\ clipboard' = clipboard /\ asked' = asked /\ seen' = seen /\ gone = FALSE
    BY DEF destroyed, leave, Inv, DeliverySound, DeliveryTypes
  <1>2. NoRun \in RunType /\ NoRun.id = 0 /\ NoRun.step = "none"
    BY Bounds DEF NoRun, RunType, Steps, Methods
  <1>3. KeysSound'
    <2>1. NoKeys \in KeyType /\ NoKeys.step = "idle"
      BY DEF NoKeys, KeyType
    <2>2. ctrl => orphan \/ Orphans
      BY DEF Inv, KeysSound, KeysAreLetGo, Orphans
    <2> QED
      BY <1>1, <2>1, <2>2 DEF Inv, KeysSound, KeysAreLetGo
  <1>4. WordsAreThere' /\ RestoresSaved'
    BY <1>1, <1>2 DEF WordsAreThere, RestoresSaved, PasteSteps
  <1>5. \A p \in publishing : p.by # run'.id
    BY <1>1, <1>2 DEF Inv, DeliverySound, DeliveryTypes, Helper
  <1>6. CASE destroyed
    <2>1. requests' = requests /\ startQueued' = TRUE /\ gone' = gone /\ run.step = "answered"
      BY <1>6 DEF destroyed
    <2>2. DeliveryTypes' /\ InOrder'
      BY <1>1, <1>2, <2>1 DEF Inv, DeliverySound, DeliveryTypes, InOrder, running
    <2>3. HelpersKnown'
      BY <1>1, <1>5, <2>1 DEF Inv, DeliverySound, HelpersKnown, running
    <2>4. Contract!vars' = Contract!vars
      BY <1>1, <2>1 DEF Contract!vars
    <2> QED
      BY <1>3, <1>4, <2>2, <2>3, <2>4 DEF Inv, DeliverySound
  <1>7. CASE leave
    <2>1. requests' = << >> /\ startQueued' = FALSE /\ gone' = TRUE
      BY <1>7 DEF leave
    <2>2. DeliveryTypes' /\ InOrder'
      <3>1. requests' \in Seq(Request)
        BY <2>1
      <3>2. DeliveryTypes'
        BY <1>1, <1>2, <2>1, <3>1 DEF Inv, DeliverySound, DeliveryTypes
      <3>3. InOrder'
        BY <1>1, <1>2, <2>1 DEF Inv, DeliverySound, InOrder, running
      <3> QED
        BY <3>2, <3>3
    <2>3. HelpersKnown'
      BY <1>1, <1>5, <2>1 DEF HelpersKnown
    <2>4. Contract!Leave
      BY <1>1, <2>1 DEF Contract!Leave
    <2> QED
      BY <1>3, <1>4, <2>2, <2>3, <2>4 DEF Inv, DeliverySound, Contract!Next
  <1> QED
    BY <1>6, <1>7

LEMMA WorldStep ==
    ASSUME Inv, World
    PROVE  Inv' /\ [Contract!Next]_(Contract!vars)
  <1>1. /\ UNCHANGED <<deliveryVars, run, marked, keyVars>>
        /\ publishing' \subseteq publishing
    BY DEF World, personCopies, publish, leftoverFails
  <1>2. running' <=> running
    BY <1>1 DEF running
  <1>3. KeysSound'
    BY <1>1 DEF Inv, KeysSound, KeysAreLetGo, keyVars
  <1>4. seen \in SeenType /\ clipboard \in Content /\ publishing \subseteq Helper
    BY DEF Inv, DeliverySound, DeliveryTypes
  <1>5. ASSUME NEW content \in Content
        PROVE  /\ ChangesTo(content) \in SeenType /\ ChangesTo(content).answered = seen.answered
               /\ ChangesTo(content).newer = TRUE /\ ChangesTo(content).copies = seen.copies
    <2> DEFINE raced == seen.raced \/ Mine # {} \/ run.read # Nothing
    <2>1. raced \in BOOLEAN
      BY <1>4 DEF SeenType
    <2>2. ChangesTo(content) = [seen EXCEPT !.without = content, !.newer = TRUE, !.raced = raced]
      BY DEF ChangesTo
    <2> HIDE DEF raced
    <2> QED
      BY <1>4, <1>5, <2>1, <2>2 DEF SeenType
  <1>6. /\ seen' \in SeenType /\ seen'.answered = seen.answered /\ clipboard' \in Content
        /\ WordsAreThere'
    <2>1. CASE personCopies
      <3> DEFINE n == seen.copies + 1
      <3>1. clipboard' = Copy(n) /\ seen' = [ChangesTo(Copy(n)) EXCEPT !.copies = n]
            /\ n \in 0..MaxCopies
        <4>1. seen.copies < MaxCopies /\ seen.copies \in 0..MaxCopies
          BY <1>4, <2>1 DEF personCopies, SeenType
        <4>2. clipboard' = Copy(n) /\ seen' = [ChangesTo(Copy(n)) EXCEPT !.copies = @ + 1]
          BY <2>1 DEF personCopies
        <4>3. n \in 0..MaxCopies
          BY <4>1, Bounds
        <4>4. ChangesTo(Copy(n)).copies = seen.copies
          BY <1>5, <4>3, WordsAreContent
        <4> QED
          BY <4>2, <4>3, <4>4
      <3>2. Copy(n) \in Content
        BY <3>1, WordsAreContent
      <3> HIDE DEF n
      <3>3. seen' \in SeenType /\ seen'.answered = seen.answered /\ seen'.newer = TRUE
        BY <1>5, <3>1, <3>2 DEF SeenType
      <3> QED
        BY <3>1, <3>2, <3>3 DEF WordsAreThere, OwnOnClipboard
    <2>2. ASSUME NEW p \in publishing, publish(p)
          PROVE  /\ seen' \in SeenType /\ seen'.answered = seen.answered /\ clipboard' \in Content
                 /\ WordsAreThere'
      <3>1. clipboard' = p.what /\ p.what \in Content
        BY <1>4, <2>2 DEF publish, Helper
      <3>2. CASE p.by # run.id
        <4>1. seen' = ChangesTo(p.what)
          BY <2>2, <3>2 DEF publish
        <4> QED
          BY <1>5, <3>1, <4>1 DEF WordsAreThere, OwnOnClipboard
      <3>3. CASE p.by = run.id
        <4>1. seen' = IF p.what = Words(run.id) THEN [seen EXCEPT !.newer = FALSE] ELSE seen
          BY <2>2, <3>3 DEF publish
        <4>2. seen' \in SeenType /\ seen'.answered = seen.answered
          BY <1>4, <4>1 DEF SeenType
        <4>3. run.step \notin {"restore", "answered"} => clipboard' = Words(run.id)
          BY <3>1, <3>3 DEF Inv, DeliverySound, HelpersKnown
        <4>4. WordsAreThere'
          BY <1>1, <4>3 DEF WordsAreThere, OwnOnClipboard, PasteSteps, Words
        <4> QED
          BY <3>1, <4>2, <4>4
      <3> QED
        BY <3>2, <3>3
    <2>3. ASSUME NEW p \in publishing, leftoverFails(p)
          PROVE  /\ seen' \in SeenType /\ seen'.answered = seen.answered /\ clipboard' \in Content
                 /\ WordsAreThere'
      <3>1. /\ seen' = seen /\ clipboard' = clipboard /\ run' = run
            /\ publishing' = publishing \ {p} /\ (p.by # run.id \/ ~running)
        BY <2>3 DEF leftoverFails
      <3>2. run.step = "copy" => Mine' = Mine
        BY <3>1 DEF Mine, running
      <3> QED
        BY <1>4, <3>1, <3>2 DEF Inv, DeliverySound, WordsAreThere, OwnOnClipboard
    <2> QED
      BY <2>1, <2>2, <2>3 DEF World
  <1>7. DeliveryTypes' /\ InOrder'
    BY <1>1, <1>2, <1>6 DEF Inv, DeliverySound, DeliveryTypes, InOrder, deliveryVars
  <1>8. HelpersKnown' /\ RestoresSaved'
    BY <1>1, <1>2, <1>6 DEF Inv, DeliverySound, HelpersKnown, RestoresSaved, deliveryVars, Words
  <1>9. Contract!vars' = Contract!vars
    BY <1>1, <1>6 DEF Contract!vars, deliveryVars
  <1> QED
    BY <1>3, <1>6, <1>7, <1>8, <1>9 DEF Inv, DeliverySound

(* What is read, and a READY heard late, leave the run where it is. *)
LEMMA OwnStep ==
    ASSUME Inv, ReadyKnown, OnItsOwn
    PROVE  Inv' /\ [Contract!Next]_(Contract!vars)
  <1>1. /\ UNCHANGED <<deliveryVars, keyVars, clipboard>> /\ gone = FALSE
        /\ run \in RunType /\ clipboard \in Content /\ marked \in Content \cup {Nothing}
        /\ publishing \subseteq Helper /\ seen \in SeenType
    BY DEF OnItsOwn, reads, restoresUnasked, readyHeardLate,
           Inv, DeliverySound, DeliveryTypes
  <1>2. KeysSound' <=> /\ keyboard.step # "idle" => run'.step \in {"press", "answered"}
    BY <1>1 DEF Inv, KeysSound, KeysAreLetGo, keyVars
  <1>3. CASE reads \/ restoresUnasked
    <2>1. PICK content \in Content \cup {Nothing} : run' = [run EXCEPT !.read = content]
      BY <1>1, <1>3 DEF reads, restoresUnasked
    <2>2. /\ run' \in RunType /\ run'.id = run.id /\ run'.step = run.step
          /\ run'.saved = run.saved
      BY <1>1, <2>1 DEF RunType
    <2>3. seen' = seen /\ run.step \in {"capture", "reread", "answered"} /\ marked' \in {marked, Nothing}
      BY <1>3 DEF reads, restoresUnasked
    <2>4. InOrder' /\ RestoresSaved'
      BY <1>1, <2>2, <2>3 DEF Inv, DeliverySound, InOrder, RestoresSaved, running, deliveryVars
    <2>5. KeysSound'
      BY <1>2, <2>2 DEF Inv, KeysSound
    <2>6. WordsAreThere'
      BY <2>2, <2>3 DEF WordsAreThere, PasteSteps
    <2>7. publishing' \subseteq Helper /\ HelpersKnown'
      <3>1. CASE reads
        <4>1. publishing' = publishing
          BY <3>1 DEF reads
        <4> QED
          BY <1>1, <2>2, <2>3, <4>1
             DEF Inv, DeliverySound, HelpersKnown, running, deliveryVars, Words
      <3>2. CASE restoresUnasked
        <4> DEFINE p == [what |-> run.saved, by |-> run.id, via |-> "restore"]
        <4>1. publishing' \subseteq publishing \cup {p}
          BY <3>2 DEF restoresUnasked
        <4>2. run.step = "answered" /\ run.saved \in Content
          BY <1>1, <3>2 DEF restoresUnasked, RunType
        <4>3. run.id \in 1..seen.answered /\ seen.answered \in 0..MaxRequests
          BY <1>1, <4>2 DEF Inv, DeliverySound, InOrder, SeenType
        <4>4. run.id \in 1..MaxRequests /\ run.id <= seen.answered
          BY <4>3, Bounds
        <4>5. p \in Helper /\ p.by <= seen.answered
          BY <4>2, <4>4 DEF Helper
        <4> HIDE DEF p
        <4>6. \A q \in publishing : q.by <= seen.answered
          BY <1>1, <4>2 DEF Inv, DeliverySound, HelpersKnown, running
        <4> QED
          BY <1>1, <2>2, <2>3, <4>1, <4>2, <4>5, <4>6 DEF HelpersKnown
      <3> QED
        BY <1>3, <3>1, <3>2
    <2>8. DeliveryTypes'
      BY <1>1, <2>2, <2>3, <2>7 DEF Inv, DeliverySound, DeliveryTypes, deliveryVars
    <2>9. Contract!vars' = Contract!vars
      BY <1>1, <2>3 DEF Contract!vars, deliveryVars
    <2> QED
      BY <2>4, <2>5, <2>6, <2>7, <2>8, <2>9 DEF Inv, DeliverySound
  <1>4. ASSUME NEW p \in ready, readyHeardLate(p)
        PROVE  Inv' /\ [Contract!Next]_(Contract!vars)
    <2>1. /\ run' = run /\ publishing' = publishing /\ marked' \in {marked, p.what}
      BY <1>4 DEF readyHeardLate
    <2>2. p.what \in Content
      BY <1>4 DEF ReadyKnown, Helper
    <2> DEFINE late == seen.late \/ (running /\ run.copied)
    <2>3. late \in BOOLEAN /\ seen' = [seen EXCEPT !.late = late]
      BY <1>1, <1>4 DEF readyHeardLate, SeenType, RunType
    <2> HIDE DEF late
    <2>4. seen' \in SeenType /\ seen'.answered = seen.answered /\ seen'.newer = seen.newer
      BY <1>1, <2>3 DEF SeenType
    <2>5. DeliveryTypes' /\ InOrder' /\ RestoresSaved'
      BY <1>1, <2>1, <2>2, <2>4
         DEF Inv, DeliverySound, DeliveryTypes, InOrder, RestoresSaved, running, deliveryVars
    <2>6. HelpersKnown' /\ WordsAreThere'
      BY <1>1, <2>1, <2>4
         DEF Inv, DeliverySound, HelpersKnown, WordsAreThere, OwnOnClipboard, Mine, running,
             deliveryVars, Words
    <2>7. KeysSound'
      BY <1>2, <2>1 DEF Inv, KeysSound
    <2>8. Contract!vars' = Contract!vars
      BY <1>1, <2>4 DEF Contract!vars, deliveryVars
    <2> QED
      BY <2>5, <2>6, <2>7, <2>8 DEF Inv, DeliverySound
  <1> QED
    BY <1>3, <1>4 DEF OnItsOwn

LEMMA ReadyStays ==
    ASSUME Inv, ReadyKnown, [Next]_vars
    PROVE  ReadyKnown'
  <1>1. publishing \subseteq Helper
    BY DEF Inv, DeliverySound, DeliveryTypes
  <1>2. ASSUME ready' \subseteq ready \cup publishing
        PROVE  ReadyKnown'
    BY <1>1, <1>2 DEF ReadyKnown
  <1>3. CASE Answers
    <2>1. \E r, m, h : continues(r, m, h)
      BY <1>3 DEF Answers, focusChecked, captured, copied, insertedDirectly,
                  preparePasteInFocus, backendCopied, answerPaste,
                  restorePreservingNewCopy, restored
    <2> QED
      BY <1>2, <2>1 DEF continues
  <1>4. CASE deliver \/ startNext \/ deadline \/ destroyed \/ leave \/ UNCHANGED vars
    BY <1>2, <1>4 DEF deliver, startNext, deadline, destroyed, leave, vars
  <1>5. CASE OnItsOwn
    BY <1>2, <1>5 DEF OnItsOwn, reads, restoresUnasked, readyHeardLate
  <1>6. CASE Keys
    BY <1>2, <1>6 DEF Keys, ydotoolMissing, modifiersReleased, keysReleased, orphanReleased,
                      clearToInject, pressPasteKeys, backendDone
  <1>7. CASE World
    BY <1>2, <1>7 DEF World, personCopies, publish, leftoverFails
  <1> QED
    BY <1>3, <1>4, <1>5, <1>6, <1>7 DEF Next

-----------------------------------------------------------------------------
(* What an answer says of the clipboard: the invariant of its borrowing.   *)

(* A run's words are nowhere before that run. *)
Unheard(j) == j > seen.answered /\ (running => j # run.id)
NoneEarly ==
    gone = FALSE =>
        \A j \in 1..MaxRequests :
            Unheard(j) =>
                /\ clipboard # Words(j) /\ run.saved # Words(j) /\ run.read # Words(j)
                /\ \A p \in publishing : p.what # Words(j)
OthersBring ==
    running => \A p \in publishing : p.by # run.id => p.what # Words(run.id)

(* In these steps a run has no helper at work; the one that restores brings
   what was saved. *)
QuietSteps == {"focus", "capture", "insert", "prepare", "press", "verify", "reread"}
HelpersServe ==
    /\ run.step \in QuietSteps => Mine = {}
    /\ run.step = "restore" => \A p \in Mine : p.what = run.saved

(* What excuses a run: a race over the clipboard, or the READY of an earlier
   run's copy after that of its own. *)
Excused == seen.raced = TRUE \/ seen.late = TRUE

(* A run that may still restore copied, and has its words on record; and none
   that copies a second time presses keys later. *)
MayRestore(r) ==
    \/ r.step \in {"prepare", "press", "verify", "reread"}
    \/ r.step = "insert" /\ r.copied = TRUE
CopiesOnly(methods) == \A i \in 1..Len(methods) : methods[i] # "ydotool"
OnRecord ==
    /\ MayRestore(run) => run.copied = TRUE /\ (marked = Words(run.id) \/ Excused)
    /\ run.step = "backendCopy" => CopiesOnly(run.left)

(* The clipboard holds the words or what would be there without them; and
   what was saved is what would be there, unless something newer took the
   place of the words.  What is being read is there still. *)
Kept(r) == r.saved = seen.without \/ Excused
Borrowed ==
    /\ run.step \in {"focus", "capture"} => clipboard = seen.without /\ run.saved = Nothing
    /\ running /\ run.step # "restore" => clipboard \in {seen.without, Words(run.id)}
    /\ run.saved # Nothing /\ run.step = "copy" /\ Mine # {} => Kept(run)
    /\ run.saved # Nothing /\ (run.step = "copy" \/ MayRestore(run)) =>
         Kept(run) \/ clipboard # Words(run.id)
    /\ run.step = "restore" =>
         IF Mine = {} THEN clipboard = seen.without \/ Excused ELSE Kept(run)
Reading ==
    running /\ run.read # Nothing =>
        run.step \in {"capture", "reread"} /\ (run.read = clipboard \/ Excused)

Borrowing == NoneEarly /\ OthersBring /\ HelpersServe /\ OnRecord /\ Borrowed /\ Reading

(* ClipboardAsSaid, of one step, and of a run that goes on as r. *)
Said(r) ==
    /\ r.receipt \in {"copied", "sent"} => OwnOnClipboard
    /\ r.restored = TRUE => clipboard = seen.without \/ Excused
SaysSo == run'.step = "answered" /\ running => Said(run')

(* A run that goes on as r borrows on. *)
FitToBorrow(r, mark, helpers) ==
    /\ r.id = run.id /\ r.step \notin {"none", "focus"} /\ helpers \subseteq publishing
    /\ r.saved \in {run.saved, run.read, clipboard, Nothing}
    /\ r.read = Nothing \/ (r.step = "answered" /\ r.read = run.read)
    /\ r.step \in QuietSteps \cup {"restore"} => \A p \in helpers : p.by # run.id
    /\ MayRestore(r) => r.copied = TRUE /\ (mark = Words(run.id) \/ Excused)
    /\ r.step = "backendCopy" => CopiesOnly(r.left)
    /\ r.step = "capture" => clipboard = seen.without /\ r.saved = Nothing
    /\ run.step = "restore" => r.step = "answered"
    /\ r.step \in {"copy", "restore"} => r.saved = Nothing \/ Kept(r)
    /\ r.step = "restore" => r.saved # Nothing
    /\ MayRestore(r) /\ r.saved # Nothing => Kept(r) \/ clipboard # Words(run.id)
    /\ r.step = "answered" => Said(r)

LEMMA BorrowsOn ==
    ASSUME Inv, Borrowing, running, NEW r, NEW mark, NEW helpers,
           FitToBorrow(r, mark, helpers), goesOn(r, mark, helpers)
    PROVE  Borrowing' /\ SaysSo
  <1>1. /\ gone = FALSE /\ run.id = seen.answered + 1 /\ run.id \in 1..MaxRequests
        /\ seen \in SeenType /\ seen.answered \in Nat
    <2>1. gone = FALSE /\ run.id = seen.answered + 1 /\ run.id \in 1..MaxRequests
      BY RunningFacts DEF Inv
    <2>2. seen \in SeenType
      BY DEF Inv, DeliverySound, DeliveryTypes
    <2> QED
      BY <2>1, <2>2, Bounds DEF SeenType
  <1>2. /\ run' = r /\ r.id = run.id /\ r.step \notin {"none", "focus"}
        /\ publishing' = helpers \cup Publishes(r) /\ helpers \subseteq publishing
        /\ clipboard' = clipboard /\ gone' = gone
    BY DEF FitToBorrow, goesOn
  <1>3. /\ seen'.without = seen.without /\ seen'.newer = seen.newer
        /\ Excused' <=> Excused
        /\ seen'.answered = IF r.step = "answered" THEN run.id ELSE seen.answered
    BY <1>1, <1>2 DEF goesOn, SeenType, Excused
  <1>4. \A p \in Publishes(r) :
          /\ p.by = run.id /\ r.step \in {"copy", "backendCopy", "restore"}
          /\ p.what = IF r.step = "restore" THEN r.saved ELSE Words(run.id)
    BY <1>2 DEF Publishes
  <1>5. r.step \in {"copy", "restore"} => Publishes(r) # {}
    BY DEF Publishes
  <1>6. /\ running' <=> r.step # "answered"
        /\ MayRestore(run') <=> MayRestore(r)
        /\ MayRestore(r) => r.step \in QuietSteps
        /\ Kept(run') <=> Kept(r)
        /\ Kept(run)' <=> Kept(r)
        /\ Words(run.id)' = Words(run.id) /\ Nothing' = Nothing
    BY <1>2, <1>3 DEF running, MayRestore, Kept, QuietSteps, Words, Nothing
  <1>7. NoneEarly'
    <2> SUFFICES ASSUME NEW j \in 1..MaxRequests, Unheard(j)'
                 PROVE  /\ clipboard # Words(j) /\ r.saved # Words(j) /\ r.read # Words(j)
                        /\ \A p \in publishing' : p.what # Words(j)
      BY <1>2 DEF NoneEarly, Words
    <2>1. j > seen.answered /\ j # run.id
      BY <1>1, <1>2, <1>3, <1>6 DEF Unheard
    <2>2. /\ clipboard # Words(j) /\ run.saved # Words(j) /\ run.read # Words(j)
          /\ \A p \in publishing : p.what # Words(j)
      BY <1>1, <2>1 DEF Borrowing, NoneEarly, Unheard
    <2>3. Nothing # Words(j) /\ Words(run.id) # Words(j)
      BY <2>1 DEF Nothing, Words
    <2>4. r.saved # Words(j) /\ r.read # Words(j)
      BY <2>2, <2>3 DEF FitToBorrow
    <2> QED
      BY <1>2, <1>4, <2>2, <2>3, <2>4
  <1>8. OthersBring'
    BY <1>2, <1>4 DEF OthersBring, Borrowing, Words
  <1>9. /\ r.step \in QuietSteps => Mine' = {}
        /\ r.step = "restore" => Mine' # {} /\ \A p \in Mine' : p.what = r.saved
        /\ r.step = "copy" => Mine' # {}
    BY <1>2, <1>4, <1>5 DEF FitToBorrow, Mine, QuietSteps
  <1>10. HelpersServe'
    BY <1>2, <1>9 DEF HelpersServe
  <1>11. OnRecord'
    <2>1. MayRestore(r) => marked' = mark
      BY DEF goesOn, MayRestore
    <2>2. r.step = "backendCopy" => CopiesOnly(r.left)
      BY DEF FitToBorrow
    <2>3. MayRestore(r) => r.copied = TRUE /\ (marked' = Words(run.id) \/ Excused')
      BY <1>3, <2>1 DEF FitToBorrow
    <2> QED
      BY <1>2, <1>6, <2>2, <2>3 DEF OnRecord, CopiesOnly
  <1>12. Borrowed'
    <2>1. r.step # "answered" => clipboard \in {seen.without, Words(run.id)}
      BY DEF FitToBorrow, Borrowing, Borrowed
    <2>2. Borrowed' <=>
            /\ r.step \in {"focus", "capture"} => clipboard = seen.without /\ r.saved = Nothing
            /\ running' /\ r.step # "restore" => clipboard \in {seen.without, Words(run.id)}
            /\ r.saved # Nothing /\ r.step = "copy" /\ Mine' # {} => Kept(r)
            /\ r.saved # Nothing /\ (r.step = "copy" \/ MayRestore(r)) =>
                 Kept(r) \/ clipboard # Words(run.id)
            /\ r.step = "restore" =>
                 IF Mine' = {} THEN clipboard = seen.without \/ Excused ELSE Kept(r)
      BY <1>2, <1>3 DEF Borrowed, Kept, MayRestore, Words, Nothing
    <2> QED
      BY <1>2, <1>6, <1>9, <2>1, <2>2 DEF FitToBorrow
  <1>13. SaysSo
    BY <1>2 DEF SaysSo, FitToBorrow
  <1>14. Reading'
    BY <1>2, <1>6 DEF Reading, FitToBorrow
  <1> QED
    BY <1>7, <1>8, <1>10, <1>11, <1>12, <1>13, <1>14 DEF Borrowing

(* Nothing is answered and nothing borrowed where the delivery is alone. *)
LEMMA BorrowsAlone ==
    ASSUME Borrowing,
           UNCHANGED <<run, marked, publishing, clipboard, gone, seen>>
    PROVE  Borrowing' /\ SaysSo
  <1>1. running' <=> running
    BY DEF running
  <1>2. NoneEarly' /\ OthersBring'
    BY <1>1 DEF Borrowing, NoneEarly, OthersBring, Unheard, Words
  <1>3. HelpersServe' /\ OnRecord'
    BY DEF Borrowing, HelpersServe, OnRecord, Mine, MayRestore, CopiesOnly, Words, Excused
  <1>4. Borrowed' /\ Reading'
    BY <1>1 DEF Borrowing, Borrowed, Reading, Mine, MayRestore, Kept, Words, Nothing, Excused
  <1>5. SaysSo
    BY DEF SaysSo, running
  <1> QED
    BY <1>2, <1>3, <1>4, <1>5 DEF Borrowing

-----------------------------------------------------------------------------
(* Where a run may go, and what it says of the clipboard then.             *)

(* The backend that presses keys is tried first. *)
LEMMA KeysComeFirst ==
    ASSUME NEW s \in Settings
    PROVE  CopiesOnly(Tail(orderedMethods(s)))
  <1> DEFINE keys == <<"ydotool">>
             copies == <<"wlcopy", "qt">>
  <1>1. orderedMethods(s) \in {copies, keys \o copies, << >> \o copies, <<s.output>>}
    BY DEF orderedMethods
  <1>2. /\ Tail(copies) = <<"qt">> /\ Tail(<<s.output>>) = << >> /\ << >> \o copies = copies
        /\ CopiesOnly(<<"qt">>) /\ CopiesOnly(copies) /\ CopiesOnly(<< >>)
    BY DEF CopiesOnly
  <1>3. CopiesOnly(Tail(keys \o copies))
    <2>1. /\ keys \in Seq(Methods) /\ Len(keys) = 1
          /\ copies \in Seq(Methods) /\ Len(copies) = 2
      BY DEF Methods
    <2> HIDE DEF keys, copies
    <2> DEFINE both == keys \o copies
    <2>2. /\ both \in Seq(Methods) /\ Len(both) = Len(keys) + Len(copies)
          /\ \A i \in 1..(Len(keys) + Len(copies)) :
               both[i] = IF i <= Len(keys) THEN keys[i] ELSE copies[i - Len(keys)]
      BY <2>1, ConcatProperties
    <2> HIDE DEF both
    <2>3. Len(both) = 3 /\ both # << >>
      <3>1. Len(both) = 3
        BY <2>1, <2>2
      <3> QED
        BY <3>1
    <2>4. /\ Len(Tail(both)) = 2
          /\ \A i \in 1..Len(Tail(both)) : Tail(both)[i] = both[i + 1]
      <3>1. both \in Seq(Methods) /\ both # << >> /\ Len(both) = 3
        BY <2>2, <2>3
      <3>2. /\ Len(Tail(both)) = Len(both) - 1
            /\ \A i \in 1..Len(Tail(both)) : Tail(both)[i] = both[i + 1]
        BY <3>1, HeadTailProperties
      <3>3. Len(Tail(both)) = 2
        BY <3>1, <3>2
      <3> QED
        BY <3>2, <3>3
    <2> SUFFICES ASSUME NEW i \in 1..2
                 PROVE  Tail(both)[i] # "ydotool"
      BY <2>4 DEF CopiesOnly, both
    <2>5. copies[i] # "ydotool"
      BY <1>2, <2>1 DEF CopiesOnly
    <2>6. Tail(both)[i] = both[i + 1]
      BY <2>4
    <2>7. both[i + 1] = copies[(i + 1) - 1]
      <3>1. i + 1 \in 1..3 /\ ~(i + 1 <= 1) /\ Len(keys) = 1 /\ Len(copies) = 2
        BY <2>1
      <3> QED
        BY <2>2, <3>1
    <2>8. (i + 1) - 1 = i
      OBVIOUS
    <2> QED
      BY <2>5, <2>6, <2>7, <2>8
  <1> HIDE DEF keys, copies
  <1> QED
    BY <1>1, <1>2, <1>3

LEMMA FinishesSaying ==
    ASSUME NEW r \in RunType, NEW receipt \in {"none", "copied", "sent", "accepted", "verified"},
           NEW b \in BOOLEAN
    PROVE  LET t == finish(r, receipt, b)
           IN  /\ t.id = r.id /\ t.step = "answered" /\ t.saved = r.saved /\ t.read = r.read
               /\ t.receipt = receipt /\ t.restored = b
  BY DEF finish, RunType

(* What stays of a run r that goes on as t. *)
SameRun(t, r) ==
    /\ t \in RunType /\ t.id = r.id /\ t.saved = r.saved /\ t.read = r.read
    /\ t.copied = r.copied

LEMMA PastesBorrowing ==
    ASSUME NEW r \in RunType, NEW methods \in Seq(Methods)
    PROVE  LET t == pasteThroughBackend(r, methods)
           IN  \/ t = finishCopied(r)
               \/ /\ SameRun(t, r)
                  /\ t.step = "backendCopy" /\ t.left = Tail(methods) /\ methods # << >>
               \/ /\ SameRun(t, r)
                  /\ t.step \in {"press", "prepare"}
                  /\ methods # << >> /\ Head(methods) = "ydotool"
  <1>1. CASE methods = << >>
    BY <1>1 DEF pasteThroughBackend
  <1>2. CASE methods # << >>
    <2>1. Head(methods) \in Methods /\ Tail(methods) \in Seq(Methods)
      BY <1>2
    <2> DEFINE step == IF Head(methods) # "ydotool" THEN "backendCopy"
                       ELSE IF blind(settings) THEN "press" ELSE "prepare"
    <2>2. /\ step \in {"backendCopy", "press", "prepare"}
          /\ step = "backendCopy" \/ Head(methods) = "ydotool"
      OBVIOUS
    <2>3. pasteThroughBackend(r, methods)
            = [r EXCEPT !.method = Head(methods), !.left = Tail(methods), !.step = step]
      BY <1>2 DEF pasteThroughBackend
    <2> HIDE DEF step
    <2>4. /\ SameRun(pasteThroughBackend(r, methods), r)
          /\ pasteThroughBackend(r, methods).step = step
          /\ pasteThroughBackend(r, methods).left = Tail(methods)
      BY <2>1, <2>2, <2>3 DEF RunType, SameRun, Steps
    <2> QED
      BY <1>2, <2>2, <2>4
  <1> QED
    BY <1>1, <1>2

LEMMA InsertsBorrowing ==
    ASSUME NEW r \in RunType, settings \in Settings, NEW t \in insertOrPaste(r)
    PROVE  \/ r.copied /\ t = finishCopied(r)
           \/ t = finish(r, "none", FALSE)
           \/ SameRun(t, r) /\ t.step = "insert"
           \/ SameRun(t, r) /\ r.copied /\ t.step = "backendCopy" /\ CopiesOnly(t.left)
           \/ SameRun(t, r) /\ r.copied /\ t.step \in {"press", "prepare"}
  <1>1. CASE t = [r EXCEPT !.step = "insert"]
    BY <1>1 DEF RunType, Steps, SameRun
  <1>2. CASE r.copied /\ t = pasteUnlessOnlyInserting(r)
    <2>1. orderedMethods(settings) \in Seq(Methods)
      BY MethodsOrdered
    <2>2. CopiesOnly(Tail(orderedMethods(settings)))
      BY KeysComeFirst
    <2>3. t \in {finishCopied(r), pasteThroughBackend(r, orderedMethods(settings))}
      BY <1>2 DEF pasteUnlessOnlyInserting
    <2> QED
      BY <1>2, <2>1, <2>2, <2>3, PastesBorrowing
  <1>3. CASE t = finish(r, "none", FALSE)
    BY <1>3
  <1> QED
    BY <1>1, <1>2, <1>3 DEF insertOrPaste

LEMMA CopiesOnlyOnwards ==
    ASSUME NEW methods \in Seq(Methods), CopiesOnly(methods), methods # << >>
    PROVE  Head(methods) # "ydotool" /\ CopiesOnly(Tail(methods))
  <1>1. Len(methods) \in Nat /\ Len(methods) > 0
    BY EmptySeq
  <1>2. Head(methods) = methods[1] /\ 1 \in 1..Len(methods)
    BY <1>1
  <1>3. /\ Len(Tail(methods)) = Len(methods) - 1
        /\ \A i \in 1..Len(Tail(methods)) : Tail(methods)[i] = methods[i + 1]
    BY HeadTailProperties
  <1>4. ASSUME NEW i \in 1..Len(Tail(methods))
        PROVE  Tail(methods)[i] # "ydotool"
    <2>1. i + 1 \in 1..Len(methods)
      BY <1>1, <1>3
    <2> QED
      BY <1>3, <2>1 DEF CopiesOnly
  <1> QED
    BY <1>2, <1>4 DEF CopiesOnly

(* A run that ends as it says may end so. *)
LEMMA EndFits ==
    ASSUME NEW r \in RunType, r.id = run.id, r.saved = run.saved,
           r.read = run.read \/ r.read = Nothing,
           NEW mark, NEW helpers \in SUBSET publishing,
           NEW receipt \in {"none", "copied", "sent", "accepted", "verified"},
           NEW b \in BOOLEAN,
           receipt \in {"copied", "sent"} => OwnOnClipboard,
           b => clipboard = seen.without \/ Excused
    PROVE  FitToBorrow(finish(r, receipt, b), mark, helpers)
  <1> DEFINE t == finish(r, receipt, b)
  <1>1. /\ t.id = run.id /\ t.step = "answered" /\ t.saved = run.saved
        /\ t.read = run.read \/ t.read = Nothing
        /\ t.receipt = receipt /\ t.restored = b
    BY FinishesSaying
  <1> HIDE DEF t
  <1>2. Said(t)
    BY <1>1 DEF Said
  <1>3. FitToBorrow(t, mark, helpers)
    BY <1>1, <1>2 DEF FitToBorrow, MayRestore, QuietSteps
  <1> QED
    BY <1>3 DEF t

(* Nothing is at work for a run that gives a quiet answer. *)
LEMMA NoneOfMine ==
    ASSUME Mine = {}
    PROVE  \A p \in publishing : p.by # run.id
  BY DEF Mine

(* A verified run that borrowed has its words on record and restores. *)
LEMMA RestoreFits ==
    ASSUME Inv, Borrowing, running, MayRestore(run), run.step \in {"insert", "verify"}
    PROVE  FitToBorrow(restore(run), marked, publishing)
  <1>1. run \in RunType /\ run.id \in 1..MaxRequests
    BY RunningFacts DEF Inv
  <1>2. /\ run.copied = TRUE /\ (marked = Words(run.id) \/ Excused)
        /\ Words(run.id) # Nothing
    BY DEF Borrowing, OnRecord, Words, Nothing
  <1>3. \A p \in publishing : p.by # run.id
    BY NoneOfMine DEF Borrowing, HelpersServe, QuietSteps
  <1>4. run.read = Nothing
    BY DEF Borrowing, Reading
  <1>5. CASE run.saved = Nothing \/ marked = Nothing
    <2> DEFINE b == run.saved # Nothing
    <2>1. restore(run) = finish(run, "verified", b)
      BY <1>5 DEF restore
    <2>2. b \in BOOLEAN /\ (b => Excused)
      BY <1>2, <1>5
    <2> HIDE DEF b
    <2> QED
      BY <1>1, <2>1, <2>2, EndFits
  <1>6. CASE ~(run.saved = Nothing \/ marked = Nothing)
    <2> DEFINE t == [run EXCEPT !.step = "reread"]
    <2>1. restore(run) = t
      BY <1>6 DEF restore
    <2>2. /\ t.step = "reread" /\ t.id = run.id /\ t.saved = run.saved
          /\ t.read = Nothing /\ t.copied = TRUE
      BY <1>1, <1>2, <1>4 DEF RunType
    <2> HIDE DEF t
    <2>3. Kept(run) \/ clipboard # Words(run.id)
      BY <1>6 DEF Borrowing, Borrowed
    <2>4. Kept(t) <=> Kept(run)
      BY <2>2 DEF Kept
    <2>5. FitToBorrow(t, marked, publishing)
      BY <1>2, <1>3, <2>2, <2>3, <2>4 DEF FitToBorrow, running
    <2> QED
      BY <2>1, <2>5
  <1> QED
    BY <1>5, <1>6

(* Every answer. *)
LEMMA AnswersFit ==
    ASSUME Inv, Borrowing, Answers
    PROVE  running /\ \E r, m, h : FitToBorrow(r, m, h) /\ goesOn(r, m, h)
  <1>1. PICK ok \in BOOLEAN :
           \/ \E canSnapshot \in BOOLEAN : focusChecked(ok, canSnapshot)
           \/ captured(ok) \/ copied(ok) \/ insertedDirectly(ok) \/ preparePasteInFocus(ok)
           \/ backendCopied(ok) \/ answerPaste(ok)
           \/ restorePreservingNewCopy(ok) \/ restored(ok)
    BY DEF Answers
  <1>2. /\ running
        /\ run.step \in {"focus", "capture", "copy", "insert", "prepare", "backendCopy", "verify",
                         "reread", "restore"}
    BY <1>1 DEF running, focusChecked, captured, copied, insertedDirectly, preparePasteInFocus,
                backendCopied, answerPaste, restorePreservingNewCopy, restored
  <1>3. /\ settings \in Settings /\ run.id \in 1..MaxRequests /\ run \in RunType
    BY <1>2, RunningFacts DEF Inv
  <1>4. run.step \in PasteSteps => OwnOnClipboard
    BY DEF Inv, DeliverySound, WordsAreThere
  <1>5. publishing \ Mine \subseteq publishing /\ \A p \in publishing \ Mine : p.by # run.id
    BY DEF Mine
  <1>6. run.step \in QuietSteps => \A p \in publishing : p.by # run.id
    BY NoneOfMine DEF Borrowing, HelpersServe
  <1>7. ASSUME NEW r, NEW m, NEW h, continues(r, m, h), FitToBorrow(r, m, h)
        PROVE  running /\ \E q, n, g : FitToBorrow(q, n, g) /\ goesOn(q, n, g)
    BY <1>2, <1>7 DEF continues
  <1>8. OwnOnClipboard =>
          \A m : \A h \in SUBSET publishing : FitToBorrow(finishCopied(run), m, h)
    BY <1>3, EndFits DEF finishCopied
  <1>9. /\ publishing \in SUBSET publishing /\ (publishing \ Mine) \in SUBSET publishing
        /\ run.step \notin {"capture", "reread"} => run.read = Nothing
    BY <1>2 DEF Borrowing, Reading
  <1>10. ASSUME NEW canSnapshot \in BOOLEAN, focusChecked(ok, canSnapshot)
         PROVE  running /\ \E r, m, h : FitToBorrow(r, m, h) /\ goesOn(r, m, h)
    <2> DEFINE method == choosePasteMethod(settings)
               focused == method # "clipboard" /\ (blind(settings) \/ ok)
               saves == method # "clipboard" /\ settings.restore /\ canSnapshot
               step == IF saves THEN "capture" ELSE "copy"
               next == [run EXCEPT !.focused = focused, !.step = step]
    <2>1. step \in {"capture", "copy"}
      OBVIOUS
    <2>2. continues(next, marked, publishing) /\ run.step = "focus"
      BY <1>10 DEF focusChecked
    <2> HIDE DEF focused, step
    <2>3. /\ next.id = run.id /\ next.step = step /\ next.saved = run.saved
          /\ next.read = Nothing
      BY <1>3, <1>9, <2>2 DEF RunType
    <2> HIDE DEF next
    <2>4. clipboard = seen.without /\ run.saved = Nothing
      BY <2>2 DEF Borrowing, Borrowed
    <2>5. FitToBorrow(next, marked, publishing)
      BY <1>6, <2>1, <2>2, <2>3, <2>4 DEF FitToBorrow, MayRestore, QuietSteps
    <2> QED
      BY <1>7, <2>2, <2>5
  <1>11. CASE captured(ok)
    <2>1. PICK saved \in IF ok THEN Found ELSE {Nothing} :
            continues([run EXCEPT !.saved = saved, !.read = Nothing, !.step = "copy"],
                      marked, publishing)
      BY <1>11 DEF captured
    <2> DEFINE next == [run EXCEPT !.saved = saved, !.read = Nothing, !.step = "copy"]
    <2>2. run.step = "capture" /\ (ok => run.read # Nothing)
      BY <1>11 DEF captured
    <2>3. saved \in {run.read, clipboard, Nothing}
      BY DEF Found
    <2>4. next.id = run.id /\ next.step = "copy" /\ next.saved = saved /\ next.read = Nothing
      BY <1>3 DEF RunType
    <2>5. continues(next, marked, publishing)
      BY <2>1
    <2> HIDE DEF next
    <2>6. clipboard = seen.without
      BY <2>2 DEF Borrowing, Borrowed
    <2>7. run.read = Nothing \/ run.read = clipboard \/ Excused
      BY <1>2 DEF Borrowing, Reading
    <2>8. next.saved = Nothing \/ Kept(next)
      BY <2>3, <2>4, <2>6, <2>7 DEF Kept
    <2>9. FitToBorrow(next, marked, publishing)
      BY <1>6, <2>2, <2>3, <2>4, <2>8 DEF FitToBorrow, MayRestore, QuietSteps
    <2> QED
      BY <1>7, <2>5, <2>9
  <1>12. CASE copied(ok)
    <2> DEFINE after == [run EXCEPT !.copied = ok]
               mark == IF ok THEN Words(run.id) ELSE marked
    <2>1. PICK r \in insertOrPaste(after) : continues(r, mark, publishing \ Mine)
      BY <1>12 DEF copied
    <2>2. run.step = "copy" /\ (ok <=> Mine = {})
      BY <1>12 DEF copied
    <2>3. /\ after \in RunType /\ after.id = run.id /\ after.copied = ok
          /\ after.saved = run.saved /\ after.read = Nothing
      BY <1>3, <1>9, <2>2 DEF RunType
    <2>4. ok => OwnOnClipboard
      BY <2>2 DEF Inv, DeliverySound, WordsAreThere
    <2>5. run.saved # Nothing => Kept(run) \/ clipboard # Words(run.id)
      BY <2>2 DEF Borrowing, Borrowed
    <2>6. ok => mark = Words(run.id)
      OBVIOUS
    <2> HIDE DEF after, mark
    <2>7. CASE \/ after.copied /\ r = finishCopied(after)
               \/ r = finish(after, "none", FALSE)
      <3>1. /\ r.id = run.id /\ r.step = "answered" /\ r.saved = run.saved /\ r.read = Nothing
            /\ r.restored = FALSE /\ (r.receipt = "none" \/ (r.receipt = "copied" /\ ok))
        <4>1. \/ ok /\ r = finish(after, "copied", FALSE)
              \/ r = finish(after, "none", FALSE)
          BY <2>3, <2>7 DEF finishCopied
        <4>2. ASSUME NEW receipt \in {"copied", "none"}, r = finish(after, receipt, FALSE)
              PROVE  /\ r.id = after.id /\ r.step = "answered" /\ r.saved = after.saved
                     /\ r.read = after.read
                     /\ r.receipt = receipt /\ r.restored = FALSE
          BY <2>3, <4>2 DEF finish, RunType
        <4> QED
          BY <2>3, <4>1, <4>2
      <3>2. Said(r)
        BY <2>4, <3>1 DEF Said
      <3>3. FitToBorrow(r, mark, publishing \ Mine)
        BY <1>5, <3>1, <3>2 DEF FitToBorrow, MayRestore, QuietSteps
      <3> QED
        BY <1>7, <2>1, <3>3
    <2>8. CASE \/ SameRun(r, after) /\ r.step = "insert"
               \/ SameRun(r, after) /\ after.copied /\ r.step = "backendCopy" /\ CopiesOnly(r.left)
               \/ SameRun(r, after) /\ after.copied /\ r.step \in {"press", "prepare"}
      <3>1. r.id = run.id /\ r.saved = run.saved /\ r.copied = ok /\ r.read = Nothing
        BY <2>3, <2>8 DEF SameRun
      <3>2. Kept(r) <=> Kept(run)
        BY <3>1 DEF Kept
      <3>3. MayRestore(r) => ok
        BY <2>3, <2>8, <3>1 DEF MayRestore
      <3>4. r.step \in {"insert", "backendCopy", "press", "prepare"}
            /\ (r.step = "backendCopy" => CopiesOnly(r.left))
        BY <2>8
      <3>5. FitToBorrow(r, mark, publishing \ Mine)
        BY <1>5, <2>2, <2>5, <2>6, <3>1, <3>2, <3>3, <3>4 DEF FitToBorrow
      <3> QED
        BY <1>7, <2>1, <3>5
    <2> QED
      BY <1>3, <2>1, <2>3, <2>7, <2>8, InsertsBorrowing
  <1>13. CASE insertedDirectly(ok)
    <2> DEFINE said == IF ok THEN "verified" ELSE "accepted"
    <2>1. /\ run.step = "insert"
          /\ continues(IF run.copied /\ ok THEN restore(run) ELSE finish(run, said, FALSE),
                       marked, publishing)
      BY <1>13 DEF insertedDirectly
    <2>2. said \in {"verified", "accepted"}
      OBVIOUS
    <2> HIDE DEF said
    <2>3. FitToBorrow(finish(run, said, FALSE), marked, publishing)
      BY <1>3, <1>9, <2>2, EndFits
    <2>4. run.copied => MayRestore(run)
      BY <1>3, <2>1 DEF MayRestore, RunType
    <2>5. run.copied => FitToBorrow(restore(run), marked, publishing)
      BY <1>2, <2>1, <2>4, RestoreFits
    <2> QED
      BY <1>7, <2>1, <2>3, <2>5
  <1>14. CASE preparePasteInFocus(ok)
    <2> DEFINE press == [run EXCEPT !.step = "press"]
    <2>1. run.step = "prepare" /\ continues(IF ok THEN press ELSE finishCopied(run), marked, publishing)
      BY <1>14 DEF preparePasteInFocus
    <2>2. /\ press.id = run.id /\ press.step = "press" /\ press.saved = run.saved
          /\ press.read = Nothing /\ press.copied = run.copied
      BY <1>3, <1>9, <2>1 DEF RunType
    <2> HIDE DEF press
    <2>3. MayRestore(run) /\ (Kept(press) <=> Kept(run))
      BY <2>1, <2>2 DEF MayRestore, Kept
    <2>4. /\ run.copied = TRUE /\ (marked = Words(run.id) \/ Excused)
          /\ run.saved # Nothing => Kept(run) \/ clipboard # Words(run.id)
      BY <2>3 DEF Borrowing, OnRecord, Borrowed
    <2>5. FitToBorrow(press, marked, publishing)
      BY <1>6, <2>1, <2>2, <2>3, <2>4 DEF FitToBorrow, QuietSteps
    <2>6. FitToBorrow(finishCopied(run), marked, publishing)
      BY <1>4, <1>8, <1>9, <2>1 DEF PasteSteps
    <2> QED
      BY <1>7, <2>1, <2>5, <2>6
  <1>15. CASE backendCopied(ok)
    <2> DEFINE onwards == pasteThroughBackend(run, run.left)
               mark == IF ok /\ run.method = "wlcopy" THEN Words(run.id) ELSE marked
    <2>1. /\ run.step = "backendCopy"
          /\ continues(IF ok THEN finishCopied(run) ELSE onwards, mark, publishing \ Mine)
      BY <1>15 DEF backendCopied
    <2>2. run.left \in Seq(Methods) /\ CopiesOnly(run.left)
      BY <1>3, <2>1 DEF RunType, Borrowing, OnRecord
    <2>3. \/ onwards = finishCopied(run)
          \/ SameRun(onwards, run) /\ onwards.step = "backendCopy" /\ CopiesOnly(onwards.left)
      BY <1>3, <2>2, PastesBorrowing, CopiesOnlyOnwards
    <2> HIDE DEF onwards, mark
    <2>4. FitToBorrow(finishCopied(run), mark, publishing \ Mine)
      BY <1>4, <1>8, <1>9, <2>1 DEF PasteSteps
    <2>5. ASSUME SameRun(onwards, run), onwards.step = "backendCopy", CopiesOnly(onwards.left)
          PROVE  FitToBorrow(onwards, mark, publishing \ Mine)
      BY <1>5, <1>9, <2>1, <2>5 DEF FitToBorrow, SameRun, MayRestore, QuietSteps
    <2> QED
      BY <1>7, <2>1, <2>3, <2>4, <2>5
  <1>16. CASE answerPaste(ok)
    <2>1. /\ run.step = "verify"
          /\ continues(IF ok THEN restore(run) ELSE finish(run, "sent", FALSE), marked, publishing)
      BY <1>16 DEF answerPaste
    <2>2. FitToBorrow(finish(run, "sent", FALSE), marked, publishing)
      BY <1>3, <1>4, <1>9, <2>1, EndFits DEF PasteSteps
    <2>3. FitToBorrow(restore(run), marked, publishing)
      BY <1>2, <2>1, RestoreFits DEF MayRestore
    <2> QED
      BY <1>7, <2>1, <2>2, <2>3
  <1>17. CASE restorePreservingNewCopy(ok)
    <2> DEFINE done == [run EXCEPT !.read = Nothing]
               again == [done EXCEPT !.step = "restore"]
               mark == IF ok THEN Nothing ELSE marked
    <2>1. /\ run.step = "reread" /\ (ok => run.read # Nothing)
          /\ \E content \in Found :
               continues(IF ok /\ content = marked THEN again ELSE finish(done, "verified", ok),
                         mark, publishing)
      BY <1>17 DEF restorePreservingNewCopy
    <2>2. PICK content \in Found :
            continues(IF ok /\ content = marked THEN again ELSE finish(done, "verified", ok),
                      mark, publishing)
      BY <2>1
    <2>3. /\ done \in RunType /\ done.id = run.id /\ done.saved = run.saved
          /\ done.read = Nothing
      BY <1>3 DEF RunType
    <2> HIDE DEF done
    <2>4. /\ again.id = run.id /\ again.step = "restore" /\ again.saved = run.saved
          /\ again.read = Nothing
      BY <2>3 DEF RunType
    <2> HIDE DEF again, mark
    <2>5. run.saved # Nothing
      BY <2>1 DEF Inv, DeliverySound, RestoresSaved
    <2>6. /\ marked = Words(run.id) \/ Excused
          /\ Kept(run) \/ clipboard # Words(run.id)
          /\ clipboard \in {seen.without, Words(run.id)}
      BY <1>2, <2>1, <2>5 DEF Borrowing, OnRecord, Borrowed, MayRestore
    <2>7. ok => content = clipboard \/ Excused
      BY <1>2, <2>1 DEF Borrowing, Reading, Found
    <2>8. ASSUME ok, content = marked
          PROVE  FitToBorrow(again, mark, publishing)
      <3>1. Kept(again)
        BY <2>4, <2>6, <2>7, <2>8 DEF Kept
      <3> QED
        BY <1>6, <2>1, <2>4, <2>5, <3>1 DEF FitToBorrow, MayRestore, QuietSteps
    <2>9. ASSUME ~(ok /\ content = marked)
          PROVE  FitToBorrow(finish(done, "verified", ok), mark, publishing)
      <3>1. ok => clipboard = seen.without \/ Excused
        BY <2>6, <2>7, <2>9
      <3> QED
        BY <1>9, <2>3, <3>1, EndFits
    <2> QED
      BY <1>7, <2>2, <2>8, <2>9
  <1>18. CASE restored(ok)
    <2>1. /\ run.step = "restore" /\ (ok <=> Mine = {})
          /\ continues(finish(run, "verified", ok), marked, publishing \ Mine)
      BY <1>18 DEF restored
    <2>2. ok => clipboard = seen.without \/ Excused
      BY <2>1 DEF Borrowing, Borrowed
    <2>3. FitToBorrow(finish(run, "verified", ok), marked, publishing \ Mine)
      BY <1>3, <1>9, <2>2, EndFits
    <2> QED
      BY <1>7, <2>1, <2>3
  <1> QED
    BY <1>1, <1>10, <1>11, <1>12, <1>13, <1>14, <1>15, <1>16, <1>17, <1>18

-----------------------------------------------------------------------------
(* The borrowing is kept by every step, and every answer says what is so.  *)

LEMMA AnswersBorrow ==
    ASSUME Inv, Borrowing, Answers \/ deadline
    PROVE  Borrowing' /\ SaysSo
  <1>1. CASE Answers
    BY <1>1, AnswersFit, BorrowsOn
  <1>2. CASE deadline
    <2>1. running /\ goesOn(finish(run, "none", FALSE), marked, publishing)
      BY <1>2 DEF deadline
    <2>2. run \in RunType
      BY <2>1, RunningFacts DEF Inv
    <2>3. FitToBorrow(finish(run, "none", FALSE), marked, publishing)
      BY <2>2, EndFits
    <2> QED
      BY <2>1, <2>3, BorrowsOn
  <1> QED
    BY <1>1, <1>2

(* The keyboard's answers come to a run that presses keys. *)
LEMMA KeysBorrow ==
    ASSUME Inv, Borrowing, Keys
    PROVE  Borrowing' /\ SaysSo
  <1> DEFINE Alone == UNCHANGED <<run, marked, publishing, clipboard, gone, seen>>
             verify == [run EXCEPT !.step = "verify"]
  <1>1. ASSUME NEW r \in {finishCopied(run), verify}, keyboard.step # "idle", backendDone(r)
        PROVE  Borrowing' /\ SaysSo
    <2>1. CASE running
      <3>1. run.step = "press" /\ OwnOnClipboard /\ run \in RunType
        BY <1>1, <2>1, PressingRun, RunningFacts DEF Inv
      <3>2. FitToBorrow(finishCopied(run), marked, publishing)
        BY <3>1, EndFits DEF finishCopied
      <3>3. /\ verify.id = run.id /\ verify.step = "verify" /\ verify.saved = run.saved
            /\ verify.read = run.read /\ verify.copied = run.copied
        BY <3>1 DEF RunType
      <3> HIDE DEF verify
      <3>4. MayRestore(run) /\ (Kept(verify) <=> Kept(run))
        BY <3>1, <3>3 DEF MayRestore, Kept
      <3>5. /\ run.copied = TRUE /\ (marked = Words(run.id) \/ Excused)
            /\ Mine = {} /\ run.read = Nothing
            /\ run.saved # Nothing => Kept(run) \/ clipboard # Words(run.id)
        BY <2>1, <3>1, <3>4
           DEF Borrowing, OnRecord, Borrowed, Reading, HelpersServe, QuietSteps
      <3>6. FitToBorrow(verify, marked, publishing)
        BY <3>1, <3>3, <3>4, <3>5, NoneOfMine DEF FitToBorrow
      <3>7. goesOn(r, marked, publishing)
        BY <1>1, <2>1 DEF backendDone
      <3> QED
        BY <1>1, <2>1, <3>2, <3>6, <3>7, BorrowsOn
    <2>2. CASE ~running
      <3>1. Alone
        BY <1>1, <2>2 DEF backendDone, deliveryVars
      <3> QED
        BY <3>1, BorrowsAlone
    <2> QED
      BY <2>1, <2>2
  <1>2. \/ Alone
        \/ keyboard.step # "idle" /\ \E r \in {finishCopied(run), verify} : backendDone(r)
    <2>1. CASE ydotoolMissing
      BY <2>1 DEF ydotoolMissing
    <2>2. CASE keysReleased
      BY <2>2 DEF keysReleased
    <2>3. CASE modifiersReleased \/ orphanReleased
      BY <2>3 DEF modifiersReleased, orphanReleased, deliveryVars
    <2>4. ASSUME NEW ok \in BOOLEAN, clearToInject(ok) \/ pressPasteKeys(ok)
          PROVE  \/ Alone
                 \/ keyboard.step # "idle" /\ \E r \in {finishCopied(run), verify} : backendDone(r)
      BY <2>4 DEF clearToInject, pressPasteKeys, deliveryVars
    <2> QED
      BY <2>1, <2>2, <2>3, <2>4 DEF Keys
  <1> HIDE DEF verify
  <1> QED
    BY <1>1, <1>2, BorrowsAlone

(* A run begins with nothing borrowed. *)
LEMMA StartBorrows ==
    ASSUME Inv, Borrowing, startNext
    PROVE  Borrowing' /\ SaysSo
  <1>1. /\ gone = FALSE /\ marked' = marked /\ publishing' = publishing
        /\ clipboard' = clipboard /\ gone' = gone
    BY DEF startNext, Inv, DeliverySound, DeliveryTypes
  <1>2. CASE run' = run /\ seen' = seen
    BY <1>1, <1>2, BorrowsAlone
  <1>3. CASE run = NoRun /\ requests # << >>
    <2>1. /\ run' = [NoRun EXCEPT !.id = requests[1].id, !.step = "focus"]
          /\ seen' = [seen EXCEPT !.without = clipboard, !.newer = FALSE, !.raced = FALSE,
                                  !.late = FALSE]
      BY <1>2, <1>3 DEF startNext
    <2>2. /\ run'.id = requests[1].id /\ run'.step = "focus" /\ run'.saved = Nothing
          /\ run'.read = Nothing
          /\ ~running /\ running'
      BY <1>3, <2>1 DEF NoRun, running
    <2>3. seen \in SeenType /\ seen.answered \in Nat
      BY Bounds DEF Inv, DeliverySound, DeliveryTypes, SeenType
    <2>4. seen'.without = clipboard /\ seen'.answered = seen.answered
      BY <2>1, <2>3 DEF SeenType
    <2>5. requests[1].id = seen.answered + 1 /\ requests[1].id \in 1..MaxRequests
      <3>1. requests \in Seq(Request) /\ Len(requests) \in Nat /\ Len(requests) > 0
        BY <1>3, EmptySeq DEF Inv, DeliverySound, DeliveryTypes
      <3>2. 1 \in 1..Len(requests) /\ requests[1] \in Request
        BY <3>1
      <3> QED
        BY <1>1, <3>2 DEF Inv, DeliverySound, InOrder, Request
    <2>6. \A j \in 1..MaxRequests : j > seen.answered =>
            /\ clipboard # Words(j)
            /\ \A p \in publishing : p.what # Words(j)
      BY <1>1, <2>2 DEF Borrowing, NoneEarly, Unheard
    <2>7. NoneEarly'
      BY <1>1, <2>2, <2>4, <2>6 DEF NoneEarly, Unheard, Words, Nothing
    <2>8. OthersBring'
      <3>1. requests[1].id > seen.answered
        BY <2>3, <2>5
      <3> QED
        BY <1>1, <2>2, <2>5, <2>6, <3>1 DEF OthersBring, Words
    <2>9. Mine' = {}
      <3>1. \A p \in publishing : p.by <= seen.answered /\ p.by \in Nat
        BY <1>1, <2>2, Bounds
           DEF Inv, DeliverySound, DeliveryTypes, HelpersKnown, Helper
      <3>2. \A p \in publishing : p.by # requests[1].id
        BY <2>3, <2>5, <3>1
      <3> QED
        BY <1>1, <2>2, <3>2 DEF Mine
    <2>10. HelpersServe' /\ OnRecord'
      BY <2>2, <2>9 DEF HelpersServe, OnRecord, MayRestore
    <2>11. Borrowed' /\ Reading'
      BY <1>1, <2>2, <2>4 DEF Borrowed, Reading, MayRestore, Nothing
    <2>12. SaysSo
      BY <2>2 DEF SaysSo
    <2> QED
      BY <2>7, <2>8, <2>10, <2>11, <2>12 DEF Borrowing
  <1> QED
    BY <1>2, <1>3 DEF startNext

LEMMA GoesBorrowingNothing ==
    ASSUME Inv, Borrowing, destroyed \/ leave
    PROVE  Borrowing' /\ SaysSo
  <1>1. /\ run' = NoRun /\ publishing' = publishing /\ clipboard' = clipboard /\ seen' = seen
        /\ gone = FALSE /\ (gone' = TRUE \/ run.step = "answered")
    BY DEF destroyed, leave, Inv, DeliverySound, DeliveryTypes
  <1>2. run'.step = "none" /\ run'.saved = Nothing /\ run'.read = Nothing /\ ~running'
    BY <1>1 DEF NoRun, running
  <1>3. NoneEarly'
    <2> SUFFICES ASSUME gone' = FALSE, NEW j \in 1..MaxRequests, Unheard(j)'
                 PROVE  /\ clipboard # Words(j) /\ Nothing # Words(j)
                        /\ \A p \in publishing : p.what # Words(j)
      BY <1>1, <1>2 DEF NoneEarly, Words, Nothing
    <2>1. ~running
      BY <1>1 DEF running
    <2>2. Unheard(j)
      BY <1>1, <2>1 DEF Unheard
    <2> QED
      BY <1>1, <2>2 DEF Borrowing, NoneEarly, Words, Nothing
  <1>4. OthersBring' /\ HelpersServe' /\ OnRecord' /\ Borrowed' /\ Reading'
    BY <1>2 DEF OthersBring, HelpersServe, OnRecord, Borrowed, Reading, MayRestore, QuietSteps
  <1>5. SaysSo
    BY <1>2 DEF SaysSo
  <1> QED
    BY <1>3, <1>4, <1>5 DEF Borrowing

(* What changes the clipboard from outside the run. *)
LEMMA ChangesBorrow ==
    ASSUME Inv, Borrowing, NEW content, NEW gives \in SUBSET publishing,
           \A j \in 1..MaxRequests : Unheard(j) \/ (running /\ j = run.id) => content # Words(j),
           \A p \in publishing \ gives : p.by # run.id,
           UNCHANGED <<run, marked, gone>>, publishing' = gives, clipboard' = content,
           seen'.answered = seen.answered, seen'.without = content,
           seen'.raced = (seen.raced \/ Mine # {} \/ run.read # Nothing),
           seen'.late = seen.late
    PROVE  Borrowing' /\ SaysSo
  <1>1. (running' <=> running) /\ Mine' = Mine
    BY DEF running, Mine
  <1>2. NoneEarly' /\ OthersBring'
    BY <1>1 DEF Borrowing, NoneEarly, OthersBring, Unheard, Words
  <1>3. seen.raced \in BOOLEAN
    BY DEF Inv, DeliverySound, DeliveryTypes, SeenType
  <1>4. /\ Excused => Excused'
        /\ Mine # {} \/ run.read # Nothing => Excused'
    BY <1>3 DEF Excused
  <1>5. HelpersServe' /\ OnRecord'
    BY <1>1, <1>4 DEF Borrowing, HelpersServe, OnRecord, MayRestore, CopiesOnly, Words
  <1>6. running => content # Words(run.id)
    BY RunningFacts DEF Inv
  <1>7. Borrowed'
    <2>1. (run.step = "copy" => running) /\ (running \/ ~MayRestore(run))
      BY DEF running, MayRestore
    <2>2. Mine # {} => Kept(run)'
      BY <1>4 DEF Kept
    <2> QED
      BY <1>1, <1>4, <1>6, <2>1, <2>2 DEF Borrowing, Borrowed, Kept, MayRestore, Words, Nothing
  <1>8. Reading'
    BY <1>1, <1>4 DEF Borrowing, Reading, Nothing
  <1>9. SaysSo
    BY DEF SaysSo, running
  <1> QED
    BY <1>2, <1>5, <1>7, <1>8, <1>9 DEF Borrowing

LEMMA WorldBorrows ==
    ASSUME Inv, Borrowing, World
    PROVE  Borrowing' /\ SaysSo
  <1>1. /\ seen \in SeenType /\ clipboard \in Content /\ publishing \subseteq Helper
        /\ seen.raced \in BOOLEAN
    BY DEF Inv, DeliverySound, DeliveryTypes, SeenType
  <1>2. UNCHANGED <<run, marked, gone>>
    BY DEF World, personCopies, publish, leftoverFails, deliveryVars
  <1>3. ASSUME NEW content
        PROVE  /\ ChangesTo(content).answered = seen.answered
               /\ ChangesTo(content).without = content
               /\ ChangesTo(content).raced = (seen.raced \/ Mine # {} \/ run.read # Nothing)
               /\ ChangesTo(content).late = seen.late
    BY <1>1 DEF ChangesTo, SeenType
  <1>4. CASE personCopies
    <2> DEFINE copy == Copy(seen.copies + 1)
    <2>1. /\ clipboard' = copy /\ publishing' = publishing
          /\ seen' = [ChangesTo(copy) EXCEPT !.copies = @ + 1]
      BY <1>4 DEF personCopies
    <2>2. \A j \in 1..MaxRequests : copy # Words(j)
      BY DEF Copy, Words
    <2> HIDE DEF copy
    <2>3. /\ seen'.answered = ChangesTo(copy).answered /\ seen'.without = ChangesTo(copy).without
          /\ seen'.raced = ChangesTo(copy).raced /\ seen'.late = ChangesTo(copy).late
      BY <2>1 DEF ChangesTo
    <2> QED
      BY <1>2, <1>3, <2>1, <2>2, <2>3, ChangesBorrow
  <1>5. ASSUME NEW p \in publishing, publish(p), p.by # run.id
        PROVE  Borrowing' /\ SaysSo
    <2>1. clipboard' = p.what /\ publishing' = publishing \ {p} /\ seen' = ChangesTo(p.what)
      BY <1>5 DEF publish
    <2>2. gone = TRUE => ~running
      BY DEF Inv, DeliverySound, InOrder, NoRun, running
    <2>3. CASE gone = FALSE
      <3>1. \A j \in 1..MaxRequests :
              Unheard(j) \/ (running /\ j = run.id) => p.what # Words(j)
        BY <1>5, <2>3 DEF Borrowing, NoneEarly, OthersBring
      <3>2. \A q \in publishing \ (publishing \ {p}) : q.by # run.id
        BY <1>5
      <3> QED
        BY <1>2, <1>3, <2>1, <3>1, <3>2, ChangesBorrow
    <2>4. CASE gone # FALSE
      <3>1. gone' = TRUE /\ run = NoRun /\ run' = NoRun
        BY <1>2, <2>4 DEF Inv, DeliverySound, DeliveryTypes, InOrder
      <3>2. run'.step = "none" /\ ~running'
        BY <3>1 DEF NoRun, running
      <3> QED
        BY <3>1, <3>2 DEF Borrowing, NoneEarly, OthersBring, HelpersServe, OnRecord, Borrowed,
                          Reading, MayRestore, QuietSteps, SaysSo
    <2> QED
      BY <2>3, <2>4
  <1>6. ASSUME NEW p \in publishing, publish(p), p.by = run.id
        PROVE  Borrowing' /\ SaysSo
    <2>1. /\ clipboard' = p.what /\ publishing' = publishing \ {p}
          /\ seen' = IF p.what = Words(run.id) THEN [seen EXCEPT !.newer = FALSE] ELSE seen
      BY <1>6 DEF publish
    <2>2. /\ seen'.answered = seen.answered /\ seen'.without = seen.without
          /\ Excused' <=> Excused
      BY <1>1, <2>1 DEF SeenType, Excused
    <2>3. (running' <=> running) /\ Mine' \subseteq Mine /\ p \in Mine
      BY <1>2, <1>6, <2>1 DEF running, Mine
    <2>4. NoneEarly'
      BY <1>2, <2>1, <2>2, <2>3 DEF Borrowing, NoneEarly, Unheard, Words
    <2>5. OthersBring' /\ HelpersServe' /\ OnRecord'
      BY <1>2, <2>1, <2>3
         DEF Borrowing, OthersBring, HelpersServe, OnRecord, MayRestore, CopiesOnly, Words, Excused
    <2>6. /\ run.step \notin QuietSteps
          /\ run.step = "restore" => p.what = run.saved /\ Kept(run)
          /\ run.step \notin {"restore", "answered"} => p.what = Words(run.id)
      BY <1>6, <2>3 DEF Borrowing, HelpersServe, Borrowed, Inv, DeliverySound, HelpersKnown
    <2>7. Borrowed'
      BY <1>2, <2>1, <2>2, <2>3, <2>6
         DEF Borrowing, Borrowed, Kept, MayRestore, QuietSteps, running, Words, Nothing
    <2>8. Reading'
      BY <1>2, <2>3, <2>6 DEF Borrowing, Reading, QuietSteps, Nothing
    <2>9. SaysSo
      BY <1>2 DEF SaysSo, running
    <2> QED
      BY <2>4, <2>5, <2>7, <2>8, <2>9 DEF Borrowing
  <1>7. ASSUME NEW p \in publishing, leftoverFails(p)
        PROVE  Borrowing' /\ SaysSo
    <2>1. /\ seen' = seen /\ clipboard' = clipboard
          /\ publishing' = publishing \ {p} /\ (p.by # run.id \/ ~running)
      BY <1>7 DEF leftoverFails
    <2>2. (running' <=> running) /\ Mine' \subseteq Mine /\ (running => Mine' = Mine)
      BY <1>2, <2>1 DEF running, Mine
    <2>3. NoneEarly' /\ OthersBring'
      BY <1>2, <2>1, <2>2 DEF Borrowing, NoneEarly, OthersBring, Unheard, Words
    <2>4. HelpersServe' /\ OnRecord'
      BY <1>2, <2>1, <2>2
         DEF Borrowing, HelpersServe, OnRecord, MayRestore, CopiesOnly, Words, Excused
    <2>5. Borrowed' /\ Reading'
      BY <1>2, <2>1, <2>2
         DEF Borrowing, Borrowed, Reading, Kept, MayRestore, running, Words, Nothing, Excused
    <2>6. SaysSo
      BY <1>2 DEF SaysSo, running
    <2> QED
      BY <2>3, <2>4, <2>5, <2>6 DEF Borrowing
  <1> QED
    BY <1>4, <1>5, <1>6, <1>7 DEF World

(* What is read is there, and a READY heard late excuses the run. *)
LEMMA OwnBorrows ==
    ASSUME Inv, Borrowing, OnItsOwn
    PROVE  Borrowing' /\ SaysSo
  <1>1. /\ clipboard' = clipboard /\ gone' = gone /\ run \in RunType /\ seen \in SeenType
    BY DEF OnItsOwn, reads, restoresUnasked, readyHeardLate, deliveryVars,
           Inv, DeliverySound, DeliveryTypes
  <1>2. CASE reads
    <2>1. /\ run' = [run EXCEPT !.read = clipboard] /\ run.step \in {"capture", "reread"}
          /\ marked' = marked /\ publishing' = publishing /\ seen' = seen
      BY <1>2 DEF reads
    <2>2. /\ run'.id = run.id /\ run'.step = run.step /\ run'.saved = run.saved
          /\ run'.copied = run.copied /\ run'.left = run.left /\ run'.read = clipboard
          /\ running /\ running'
      BY <1>1, <2>1 DEF RunType, running
    <2>3. NoneEarly' /\ OthersBring'
      BY <1>1, <2>1, <2>2 DEF Borrowing, NoneEarly, OthersBring, Unheard, Words
    <2>4. HelpersServe' /\ OnRecord'
      BY <2>1, <2>2 DEF Borrowing, HelpersServe, OnRecord, Mine, MayRestore, CopiesOnly, Words,
                        Excused
    <2>5. Borrowed'
      BY <1>1, <2>1, <2>2 DEF Borrowing, Borrowed, Mine, MayRestore, Kept, Words, Nothing, Excused
    <2>6. Reading'
      BY <1>1, <2>1, <2>2 DEF Reading
    <2>7. SaysSo
      BY <2>1, <2>2 DEF SaysSo
    <2> QED
      BY <2>3, <2>4, <2>5, <2>6, <2>7 DEF Borrowing
  <1>3. CASE restoresUnasked
    <2> DEFINE p == [what |-> run.saved, by |-> run.id, via |-> "restore"]
    <2>1. /\ run' = [run EXCEPT !.read = Nothing] /\ run.step = "answered" /\ seen' = seen
          /\ publishing' \subseteq publishing \cup {p}
      BY <1>3 DEF restoresUnasked
    <2>2. /\ run'.id = run.id /\ run'.step = "answered" /\ run'.saved = run.saved
          /\ run'.read = Nothing /\ ~running /\ ~running'
      BY <1>1, <2>1 DEF RunType, running
    <2>3. p.what = run.saved
      OBVIOUS
    <2> HIDE DEF p
    <2>4. NoneEarly'
      <3> SUFFICES ASSUME gone = FALSE, NEW j \in 1..MaxRequests, Unheard(j)'
                   PROVE  /\ clipboard # Words(j) /\ run.saved # Words(j) /\ Nothing # Words(j)
                          /\ \A q \in publishing' : q.what # Words(j)
        BY <1>1, <2>2 DEF NoneEarly, Words
      <3>1. Unheard(j)
        BY <2>1, <2>2 DEF Unheard
      <3> QED
        BY <2>1, <2>3, <3>1 DEF Borrowing, NoneEarly, Words, Nothing
    <2>5. OthersBring' /\ HelpersServe' /\ OnRecord' /\ Borrowed' /\ Reading'
      BY <2>2 DEF OthersBring, HelpersServe, OnRecord, Borrowed, Reading, MayRestore, QuietSteps
    <2>6. SaysSo
      BY <2>2 DEF SaysSo
    <2> QED
      BY <2>4, <2>5, <2>6 DEF Borrowing
  <1>4. ASSUME NEW p \in ready, readyHeardLate(p)
        PROVE  Borrowing' /\ SaysSo
    <2>1. run' = run /\ publishing' = publishing
      BY <1>4 DEF readyHeardLate
    <2> DEFINE late == seen.late \/ (running /\ run.copied)
    <2>2. late \in BOOLEAN /\ seen' = [seen EXCEPT !.late = late]
      BY <1>1, <1>4 DEF readyHeardLate, SeenType, RunType
    <2>3. (seen.late = TRUE => late) /\ (running /\ run.copied = TRUE => late)
      OBVIOUS
    <2> HIDE DEF late
    <2>4. /\ seen'.answered = seen.answered /\ seen'.without = seen.without
          /\ Excused => Excused'
          /\ running /\ run.copied = TRUE => Excused'
      BY <1>1, <2>2, <2>3 DEF SeenType, Excused
    <2>5. running' <=> running
      BY <2>1 DEF running
    <2>6. NoneEarly' /\ OthersBring'
      BY <1>1, <2>1, <2>4, <2>5 DEF Borrowing, NoneEarly, OthersBring, Unheard, Words
    <2>7. HelpersServe' /\ OnRecord'
      <3>1. MayRestore(run) => running
        BY DEF MayRestore, running
      <3> QED
        BY <2>1, <2>4, <3>1
           DEF Borrowing, HelpersServe, OnRecord, Mine, MayRestore, CopiesOnly, Words
    <2>8. Borrowed' /\ Reading'
      BY <1>1, <2>1, <2>4, <2>5
         DEF Borrowing, Borrowed, Reading, Mine, MayRestore, Kept, Words, Nothing
    <2>9. SaysSo
      BY <2>1 DEF SaysSo, running
    <2> QED
      BY <2>6, <2>7, <2>8, <2>9 DEF Borrowing
  <1> QED
    BY <1>2, <1>3, <1>4 DEF OnItsOwn

LEMMA StepsBorrow ==
    ASSUME Inv, Borrowing, [Next]_vars
    PROVE  Borrowing' /\ SaysSo
  <1>1. CASE deliver \/ UNCHANGED vars
    BY <1>1, BorrowsAlone DEF deliver, vars
  <1> QED
    BY <1>1, AnswersBorrow, KeysBorrow, StartBorrows, GoesBorrowingNothing, OwnBorrows,
       WorldBorrows DEF Next

LEMMA StartsBorrowing ==
    ASSUME Init
    PROVE  Borrowing
  <1>1. run.step = "none" /\ run.saved = Nothing /\ run.read = Nothing /\ ~running
    BY DEF Init, NoRun, running
  <1>2. NoneEarly
    BY <1>1 DEF Init, NoneEarly, Copy, Words, Nothing
  <1> QED
    BY <1>1, <1>2 DEF Borrowing, OthersBring, HelpersServe, OnRecord, Borrowed, Reading, MayRestore,
                      QuietSteps

-----------------------------------------------------------------------------
(* The theorems. *)

LEMMA Starts ==
    ASSUME Init
    PROVE  Inv /\ ReadyKnown /\ Contract!Init
  <1>1. NoRun \in RunType /\ NoRun.step = "none" /\ NoKeys \in KeyType /\ NoKeys.step = "idle"
    BY Bounds DEF NoRun, RunType, Steps, Methods, NoKeys, KeyType
  <1>2. seen \in SeenType /\ seen.answered = 0
    BY Bounds, WordsAreContent DEF Init, SeenType
  <1>3. DeliveryTypes
    <2>1. requests \in Seq(Request) /\ asked \in 0..MaxRequests /\ clipboard \in Content
      BY Bounds, WordsAreContent DEF Init
    <2> QED
      BY <1>1, <1>2, <2>1 DEF Init, DeliveryTypes
  <1>4. InOrder /\ HelpersKnown /\ WordsAreThere /\ RestoresSaved
    BY <1>1, <1>2 DEF Init, InOrder, HelpersKnown, WordsAreThere, RestoresSaved, running,
                      PasteSteps
  <1>5. KeysSound
    BY <1>1 DEF Init, KeysSound, KeysAreLetGo
  <1> QED
    BY <1>2, <1>3, <1>4, <1>5 DEF Inv, DeliverySound, Init, ReadyKnown, Contract!Init

LEMMA StepsKeep ==
    ASSUME Inv, ReadyKnown, [Next]_vars
    PROVE  Inv' /\ [Contract!Next]_(Contract!vars)
  <1>1. CASE UNCHANGED vars
    <2>1. UNCHANGED <<deliveryVars, run, marked, publishing, clipboard, seen>>
          /\ UNCHANGED keyVars
      BY <1>1 DEF vars, deliveryVars, keyVars
    <2>2. KeysSound'
      BY <2>1 DEF Inv, KeysSound, KeysAreLetGo, keyVars
    <2> QED
      BY <2>1, <2>2, DeliveryAlone DEF Inv
  <1> QED
    BY <1>1, DeliverStep, StartStep, Answered, DeadlineAnswers, RunGoes, KeyStep, OwnStep,
       WorldStep
       DEF Next

(* The invariant holds throughout. *)
LEMMA Invariance ==
    Spec => [](Inv /\ ReadyKnown)
  <1>1. Init => Inv /\ ReadyKnown
    BY Starts
  <1>2. Inv /\ ReadyKnown /\ [Next]_vars => Inv' /\ ReadyKnown'
    BY StepsKeep, ReadyStays
  <1> QED
    BY <1>1, <1>2, PTL DEF Spec

(* Everything a delivery keeps has its type: whatever the settings, the queue
   holds requests and the clipboard holds words or a copy. *)
THEOREM DeliveryTypeCorrect ==
    Spec => []TypeOK
  <1>1. Inv /\ ReadyKnown => TypeOK
    BY DEF Inv, ReadyKnown, DeliverySound, DeliveryTypes, KeysSound, TypeOK,
           RunType, SeenType, KeyType
  <1> QED
    BY <1>1, Invariance, PTL

(* No modifier stays down: from the keystroke that may press it to its
   release, something is left to release it, though the run it was for is
   answered or the delivery destroyed meanwhile. *)
THEOREM ModifiersAreLetGo ==
    Spec => []KeysAreLetGo
  <1>1. Inv => KeysAreLetGo
    BY DEF Inv, KeysSound
  <1> QED
    BY <1>1, Invariance, PTL

(* Every request is answered at most once, in the order they were asked, and
   none once the delivery is gone: the safety of KeepsContract, whatever the
   settings and however the helpers answer. *)
THEOREM AnswersInOrder ==
    Spec => Contract!Safety
  <1>1. Init => Contract!Init
    BY Starts
  <1>2. Inv /\ ReadyKnown /\ [Next]_vars => [Contract!Next]_(Contract!vars)
    BY StepsKeep
  <1> QED
    BY <1>1, <1>2, Invariance, PTL DEF Spec, Contract!Safety

(* The keys go out only for the run at the head of the queue, while it is
   still to be answered, and paste its words unless something newer came. *)
THEOREM PastesItsOwn ==
    Spec => KeysPasteOwn
  <1> DEFINE PastesOwn ==
        keyboard'.step = "pressing" /\ keyboard.step # "pressing" =>
          /\ run.step = "press" /\ requests[1].id = run.id
          /\ clipboard = Words(run.id) \/ seen.newer
  <1>1. ASSUME Inv, [Next]_vars, keyboard'.step = "pressing", keyboard.step # "pressing"
        PROVE  PastesOwn
    <2>1. running /\ keyboard.step # "idle"
      <3>1. CASE modifiersReleased
        BY <1>1, <3>1 DEF modifiersReleased, NoKeys
      <3>2. ASSUME NEW ok \in BOOLEAN, clearToInject(ok)
            PROVE  running /\ keyboard.step # "idle"
        BY <1>1, <3>2 DEF clearToInject, NoKeys, Clear
      <3>3. CASE UNCHANGED keyboard
        BY <1>1, <3>3
      <3>4. CASE keyboard' \in {NoKeys, [NoKeys EXCEPT !.step = "clearing"]}
        BY <1>1, <3>4 DEF NoKeys
      <3>5. CASE Answers
        <4>1. \E r, m, h : continues(r, m, h)
          BY <3>5 DEF Answers, focusChecked, captured, copied, insertedDirectly,
                      preparePasteInFocus, backendCopied, answerPaste,
                      restorePreservingNewCopy, restored
        <4>2. keyboard' \in {keyboard, NoKeys, [NoKeys EXCEPT !.step = "clearing"]}
          BY <4>1 DEF continues
        <4> QED
          BY <3>3, <3>4, <4>2
      <3>6. CASE \/ deliver \/ startNext \/ deadline \/ OnItsOwn \/ World \/ orphanReleased
                 \/ UNCHANGED vars
        BY <3>3, <3>6 DEF deliver, startNext, deadline, OnItsOwn, reads, restoresUnasked,
                          readyHeardLate, World, personCopies, publish, leftoverFails,
                          orphanReleased, vars, keyVars
      <3>7. CASE destroyed \/ leave \/ ydotoolMissing \/ keysReleased
        BY <3>4, <3>7 DEF destroyed, leave, ydotoolMissing, keysReleased
      <3>8. ASSUME NEW ok \in BOOLEAN, pressPasteKeys(ok)
            PROVE  running /\ keyboard.step # "idle"
        BY <1>1, <3>8 DEF pressPasteKeys
      <3> QED
        BY <1>1, <3>1, <3>2, <3>5, <3>6, <3>7, <3>8 DEF Next, Keys
    <2>2. /\ run.step = "press" /\ requests[1].id = run.id
          /\ clipboard = Words(run.id) \/ seen.newer
      BY <1>1, <2>1, PressingRun DEF OwnOnClipboard
    <2> QED
      BY <2>2
  <1>2. Inv /\ [Next]_vars => [PastesOwn]_vars
    BY <1>1
  <1> QED
    BY <1>2, Invariance, PTL DEF Spec, KeysPasteOwn

(* What an answer says of the clipboard is so, however the helpers are timed:
   one that copied or sent leaves the words there, unless something newer
   came, and one that restored leaves what would be there had the delivery not
   borrowed it, unless a copy was made while it was about to publish or while
   wl-paste read.  Of a run that heard the READY of an earlier run's copy after
   its own it says nothing. *)
THEOREM SaysWhatIsThere ==
    Spec => ClipboardAsSaid
  <1> DEFINE AsSaid ==
        run'.step = "answered" /\ running /\ ~seen.late =>
          /\ run'.receipt \in {"copied", "sent"} => clipboard = Words(run.id) \/ seen.newer
          /\ run'.restored => clipboard = seen.without \/ seen.raced
  <1>1. Init => Inv /\ ReadyKnown /\ Borrowing
    BY Starts, StartsBorrowing
  <1>2. Inv /\ ReadyKnown /\ Borrowing /\ [Next]_vars => Inv' /\ ReadyKnown' /\ Borrowing'
    BY StepsKeep, ReadyStays, StepsBorrow
  <1>3. Inv /\ ReadyKnown /\ Borrowing /\ [Next]_vars => [AsSaid]_vars
    <2> SUFFICES ASSUME Inv, ReadyKnown, Borrowing, [Next]_vars,
                        run'.step = "answered", running, ~seen.late
                 PROVE  AsSaid
      OBVIOUS
    <2>1. Said(run')
      BY StepsBorrow DEF SaysSo
    <2>2. run' \in RunType
      BY StepsKeep DEF Inv, DeliverySound, DeliveryTypes
    <2>3. run'.restored \in BOOLEAN
      BY <2>2 DEF RunType
    <2> QED
      BY <2>1, <2>3 DEF Said, OwnOnClipboard, Excused
  <1> QED
    BY <1>1, <1>2, <1>3, PTL DEF Spec, ClipboardAsSaid
=============================================================================
