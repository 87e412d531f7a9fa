---------------------------- MODULE TextDelivery ----------------------------
(***************************************************************************)
(* TextDelivery: the queue of requests, the Run that takes one of them     *)
(* through its steps, the clipboard it borrows through the Wayland helpers *)
(* (ClipboardDelivery, WlClipboardDelivery, WaylandClipboardOwner) and the *)
(* paste keys it presses (YdotoolDelivery).                                *)
(*                                                                         *)
(* Every step that waits is answered later, by the Target provider or by a *)
(* helper process, or never: then the deadline answers for the run.  What  *)
(* is hard is what a run leaves behind when it is answered with a step     *)
(* still under way: a helper that is about to publish its words, a key     *)
(* that is down, an answer that comes for a run that is over, a copy that  *)
(* is put on record after a later one.                                     *)
(*                                                                         *)
(* An action is what the code does from one answer to its next wait.       *)
(***************************************************************************)
EXTENDS Naturals, Sequences

CONSTANTS
    Settings,      \* what a request may be asked with, see choosePasteMethod
    MaxRequests,   \* bound: the requests asked for
    MaxCopies      \* bound: what the person copies meanwhile

ASSUME DeliveryBoundsAssumption == MaxRequests \in Nat /\ MaxCopies \in Nat
ASSUME DeliverySettingsAssumption ==
    Settings \subseteq
        [rule : {"clipboard", "insert", "paste"},   \* the paste rule's method
         global : BOOLEAN,                          \* a rule for every app
         trackable : BOOLEAN,                       \* the Target can be told apart
         secure : BOOLEAN,                          \* the Target is a secret field
         output : {"automatic", "insert", "ydotool", "wlcopy", "qt"},
         ydotoolEnabled : BOOLEAN,
         restore : BOOLEAN]                         \* restoreClipboardAfterTyping

VARIABLES
    requests,     \* m_requests: the one under way first
    startQueued,  \* a call of startNext() waits in the event loop
    run,          \* m_run and its members
    marked,       \* m_copiedParts of the WlClipboardDelivery
    publishing,   \* copies and restores that are about to be published
    ready,        \* those that were, and whose READY was not heard yet
    keyboard,     \* the YdotoolDelivery of the run's backend
    clipboard,    \* what the compositor's clipboard holds
    ctrl,         \* the paste shortcut's modifier is down
    orphan,       \* a release of the modifiers runs that no one waits for
    asked,        \* how many requests were asked for
    gone,         \* the TextDelivery was destroyed
    seen          \* for the properties: what became of the clipboard during
                  \* the run, and the last answer

deliveryVars == <<requests, startQueued, asked, gone>>
keyVars == <<keyboard, ctrl, orphan>>
vars == <<requests, startQueued, run, marked, publishing, ready, keyboard, clipboard,
          ctrl, orphan, asked, gone, seen>>

-----------------------------------------------------------------------------
(* What the clipboard can hold: something the person copied, or the words  *)
(* of a request.                                                           *)

Nothing == <<"nothing", 0>>
Copy(n) == <<"copy", n>>
Words(id) == <<"words", id>>
Content == {Copy(n) : n \in 0..MaxCopies} \cup {Words(id) : id \in 1..MaxRequests}

NoRun == [id |-> 0, step |-> "none", focused |-> FALSE, copied |-> FALSE, saved |-> Nothing,
          read |-> Nothing, method |-> "none", left |-> << >>, receipt |-> "none",
          restored |-> FALSE]
Steps == {"none", "focus", "capture", "copy", "insert", "prepare", "press",
          "backendCopy", "verify", "reread", "restore", "answered"}
Methods == {"ydotool", "wlcopy", "qt", "insert"}
NoKeys == [step |-> "idle", ok |-> FALSE]

\* A copy or a restore: what, for which request, and which step's.
Helper == [what : Content, by : 1..MaxRequests,
           via : Methods \cup {"none", "copy", "restore"}]

Request == [id : 1..MaxRequests, settings : Settings]
settings == requests[1].settings

\* The run still waits for an answer: m_done is set.
running == run.step \notin {"none", "answered"}

\* The deliver call, the run and the helpers' part of a method's choice.
blind(s) == ~s.trackable /\ s.global /\ s.rule = "paste"
choosePasteMethod(s) ==
    IF ~s.secure /\ (s.trackable \/ blind(s)) THEN s.rule ELSE "clipboard"

insertionAsked(s) == choosePasteMethod(s) = "insert" \/ s.output = "insert"
insertionOnly(s) == choosePasteMethod(s) # "clipboard" /\ insertionAsked(s)
insertionRequested(s) ==
    choosePasteMethod(s) # "clipboard" /\ (insertionAsked(s) \/ s.output = "automatic")

orderedMethods(s) ==
    LET pastes == s.ydotoolEnabled /\ choosePasteMethod(s) # "clipboard"
        copies == <<"wlcopy", "qt">>
    IN  CASE s.output = "automatic" -> (IF pastes THEN <<"ydotool">> ELSE << >>) \o copies
          [] s.output = "ydotool" /\ ~pastes -> copies
          [] OTHER -> <<s.output>>

-----------------------------------------------------------------------------
Init ==
    /\ requests = << >> /\ startQueued = FALSE /\ run = NoRun
    /\ marked = Nothing /\ publishing = {} /\ ready = {}
    /\ keyboard = NoKeys /\ ctrl = FALSE /\ orphan = FALSE
    /\ clipboard = Copy(0)
    /\ asked = 0 /\ gone = FALSE
    /\ seen = [without |-> Copy(0), newer |-> FALSE, raced |-> FALSE,
               late |-> FALSE, copies |-> 0, answered |-> 0]

deliver ==
    /\ ~gone /\ asked < MaxRequests
    /\ \E s \in Settings : requests' = Append(requests, [id |-> asked + 1, settings |-> s])
    /\ asked' = asked + 1
    /\ startQueued' = TRUE
    /\ UNCHANGED <<run, marked, publishing, ready, keyVars, clipboard, gone, seen>>

\* Nothing starts beside a run that is still there, answered or not.
startNext ==
    /\ startQueued /\ ~gone
    /\ startQueued' = FALSE
    /\ \/ /\ run = NoRun /\ requests # << >>
          /\ run' = [NoRun EXCEPT !.id = requests[1].id, !.step = "focus"]
          /\ seen' = [seen EXCEPT !.without = clipboard, !.newer = FALSE, !.raced = FALSE,
                                  !.late = FALSE]
       \/ /\ run # NoRun \/ requests = << >>
          /\ UNCHANGED <<run, seen>>
    /\ UNCHANGED <<requests, marked, publishing, ready, keyVars, clipboard, asked, gone>>

-----------------------------------------------------------------------------
(* Where a run goes from its state r, as a run.  What each step asks of the *)
(* helpers and the keyboard is in goesOn below.                             *)

finish(r, receipt, restored) ==
    [r EXCEPT !.step = "answered", !.receipt = receipt, !.restored = restored]
finishCopied(r) == finish(r, "copied", FALSE)

\* The backends still left are tried in turn.  One that presses keys looks at
\* the focus first, unless it pastes blindly into whatever is in front.
pasteThroughBackend(r, methods) ==
    IF methods = << >> THEN finishCopied(r)
    ELSE [r EXCEPT !.method = Head(methods), !.left = Tail(methods),
                   !.step = IF Head(methods) # "ydotool" THEN "backendCopy"
                            ELSE IF blind(settings) THEN "press" ELSE "prepare"]

pasteUnlessOnlyInserting(r) ==
    IF insertionOnly(settings) \/ ~r.focused THEN finishCopied(r)
    ELSE pasteThroughBackend(r, orderedMethods(settings))

\* The words go straight into the app where that is asked and taken; the
\* copy is the least a person gets otherwise.
insertOrPaste(r) ==
    (IF insertionRequested(settings) THEN {[r EXCEPT !.step = "insert"]} ELSE {})
    \cup {IF r.copied THEN pasteUnlessOnlyInserting(r) ELSE finish(r, "none", FALSE)}

\* The previous clipboard comes back after a verified insertion or paste, if
\* there is one saved.  Without a copy on record the restore has nothing to
\* do and counts as done.
restore(r) ==
    IF r.saved = Nothing \/ marked = Nothing
    THEN finish(r, "verified", r.saved # Nothing)
    ELSE [r EXCEPT !.step = "reread"]

\* The publishing each step asks for.  A copy is the helper's or, once that
\* failed, wl-copy's.
Publishes(r) ==
    CASE r.step = "copy" -> {[what |-> Words(r.id), by |-> r.id, via |-> "copy"]}
      [] r.step = "backendCopy" -> {[what |-> Words(r.id), by |-> r.id, via |-> r.method]}
      [] r.step = "restore" -> {[what |-> r.saved, by |-> r.id, via |-> "restore"]}
      [] OTHER -> {}
Mine == {p \in publishing : p.by = run.id}

\* The run goes on as r, with mark on record and the helpers at work reduced
\* to those in helpers.  An answer stops the run, takes its request off the
\* queue and is announced.
goesOn(r, mark, helpers) ==
    /\ run' = r
    /\ publishing' = helpers \cup Publishes(r)
    /\ marked' = IF r.step = "copy" \/ (r.step = "backendCopy" /\ r.method = "wlcopy")
                 THEN Nothing ELSE mark
    /\ requests' = IF r.step = "answered" THEN Tail(requests) ELSE requests
    /\ seen' = IF r.step = "answered" THEN [seen EXCEPT !.answered = r.id] ELSE seen
    /\ UNCHANGED <<startQueued, clipboard, asked, gone>>

\* The steps that leave the keyboard alone but to begin with it.  The READY
\* of what the run published is heard.
continues(r, mark, helpers) ==
    /\ goesOn(r, mark, helpers)
    /\ ready' = {p \in ready : p.by # run.id}
    /\ keyboard' = IF r.step = "press" THEN [NoKeys EXCEPT !.step = "clearing"] ELSE keyboard
    /\ UNCHANGED <<ctrl, orphan>>

-----------------------------------------------------------------------------
(* The answers a run waits for.  None of them does anything once the run   *)
(* was answered or the delivery is gone (whileRunning).                    *)

\* The Target provider says whether the Target has focus; whether the
\* clipboard can be read is the computer's.
focusChecked(same, canSnapshot) ==
    LET method == choosePasteMethod(settings)
        saves == method # "clipboard" /\ settings.restore /\ canSnapshot
    IN  /\ run.step = "focus" /\ ~gone
        /\ continues([run EXCEPT !.focused = method # "clipboard" /\ (blind(settings) \/ same),
                                 !.step = IF saves THEN "capture" ELSE "copy"],
                     marked, publishing)

\* wl-paste lists the formats and then reads them, one process after another:
\* what is read is of the clipboard as the list found it, or of what came onto
\* it by the answer.
reads ==
    /\ run.step \in {"capture", "reread"} /\ run.read = Nothing /\ ~gone
    /\ run' = [run EXCEPT !.read = clipboard]
    /\ UNCHANGED <<deliveryVars, marked, publishing, ready, keyVars, clipboard, seen>>
Found == {run.read, clipboard}

captured(ok) ==
    /\ run.step = "capture" /\ ~gone
    /\ ok => run.read # Nothing
    /\ \E content \in IF ok THEN Found ELSE {Nothing} :
         continues([run EXCEPT !.saved = content, !.read = Nothing, !.step = "copy"],
                   marked, publishing)

\* The words were published, or neither the helper nor wl-copy could.
copied(ok) ==
    /\ run.step = "copy" /\ ~gone
    /\ ok <=> Mine = {}
    /\ \E r \in insertOrPaste([run EXCEPT !.copied = ok]) :
         continues(r, IF ok THEN Words(run.id) ELSE marked, publishing \ Mine)

insertedDirectly(verified) ==
    /\ run.step = "insert" /\ ~gone
    /\ continues(IF run.copied /\ verified THEN restore(run)
                 ELSE finish(run, IF verified THEN "verified" ELSE "accepted", FALSE),
                 marked, publishing)

\* The focus moved, or the Target cannot be readied, or the keys may go on.
preparePasteInFocus(same) ==
    /\ run.step = "prepare" /\ ~gone
    /\ continues(IF same THEN [run EXCEPT !.step = "press"] ELSE finishCopied(run),
                 marked, publishing)

\* A clipboard backend that fails leaves its turn to the next one.
backendCopied(ok) ==
    /\ run.step = "backendCopy" /\ ~gone
    /\ ok <=> Mine = {}
    /\ continues(IF ok THEN finishCopied(run) ELSE pasteThroughBackend(run, run.left),
                 IF ok /\ run.method = "wlcopy" THEN Words(run.id) ELSE marked,
                 publishing \ Mine)

answerPaste(verified) ==
    /\ run.step = "verify" /\ ~gone
    /\ continues(IF verified THEN restore(run) ELSE finish(run, "sent", FALSE),
                 marked, publishing)

\* A restore that trusts its snapshot, whatever was copied since.
RestoreOverNewCopy(ok) ==
    /\ run.step = "reread" /\ ~gone
    /\ ok => run.read # Nothing
    /\ LET r == [run EXCEPT !.read = Nothing]
       IN  continues(IF ok THEN [r EXCEPT !.step = "restore"] ELSE finish(r, "verified", ok),
                     IF ok THEN Nothing ELSE marked, publishing)

\* The restore reads the clipboard first: what is not the copy on record is
\* kept, and only that copy is replaced.
restorePreservingNewCopy(ok) ==
    /\ run.step = "reread" /\ ~gone
    /\ ok => run.read # Nothing
    /\ LET r == [run EXCEPT !.read = Nothing]
       IN  \E content \in Found :
             continues(IF ok /\ content = marked THEN [r EXCEPT !.step = "restore"]
                       ELSE finish(r, "verified", ok),
                       IF ok THEN Nothing ELSE marked, publishing)

\* The deadline answered meanwhile, and the run is not gone yet: the clipboard
\* hears what was read, and restores for a run that no longer waits.
restoresUnasked ==
    /\ run.step = "answered" /\ run.saved # Nothing /\ run.read # Nothing /\ ~gone
    /\ run' = [run EXCEPT !.read = Nothing]
    /\ marked' = Nothing
    /\ \E content \in Found :
         publishing' = IF content = marked
                       THEN publishing \cup {[what |-> run.saved, by |-> run.id, via |-> "restore"]}
                       ELSE publishing
    /\ UNCHANGED <<deliveryVars, ready, keyVars, clipboard, seen>>

restored(ok) ==
    /\ run.step = "restore" /\ ~gone
    /\ ok <=> Mine = {}
    /\ continues(finish(run, "verified", ok), marked, publishing \ Mine)

\* What never answers is answered for.  What the run asked for goes on.
deadline ==
    /\ running /\ ~gone
    /\ goesOn(finish(run, "none", FALSE), marked, publishing)
    /\ UNCHANGED <<ready, keyVars>>

-----------------------------------------------------------------------------
(* The paste keys: release the modifiers, ask the gate, press, release.    *)
(* The keyboard goes on by itself while the run it belongs to is there,    *)
(* answered or not.                                                        *)

\* The run hears of its backend, unless it was answered meanwhile.
backendDone(r) ==
    /\ ready' = ready
    /\ IF running THEN goesOn(r, marked, publishing)
       ELSE UNCHANGED <<deliveryVars, run, marked, publishing, clipboard, seen>>

\* ydotool is not there.
ydotoolMissing ==
    /\ keyboard.step = "clearing" /\ running
    /\ keyboard' = NoKeys
    /\ backendDone(finishCopied(run))
    /\ UNCHANGED <<ctrl, orphan>>

\* The keystroke waits for the gate, which refuses at once when the run was
\* answered, and asks the Target provider unless the paste is blind.
modifiersReleased ==
    /\ keyboard.step = "clearing"
    /\ \/ ~running /\ keyboard' = NoKeys /\ ctrl' = ctrl
       \/ running /\ blind(settings) /\ keyboard' = [keyboard EXCEPT !.step = "pressing"]
          /\ ctrl' = TRUE
       \/ running /\ ~blind(settings) /\ keyboard' = [keyboard EXCEPT !.step = "asking"]
          /\ ctrl' = ctrl
    /\ UNCHANGED <<deliveryVars, run, marked, publishing, ready, clipboard, orphan, seen>>

\* A gate that asks for the focus alone.
ClearBySight(same) == same

\* The gate's answer counts only while the run is still to be answered.
Clear(same) == same /\ running

clearToInject(same) ==
    /\ keyboard.step = "asking"
    /\ IF Clear(same)
       THEN /\ keyboard' = [keyboard EXCEPT !.step = "pressing"]
            /\ ctrl' = TRUE
            /\ UNCHANGED <<deliveryVars, run, marked, publishing, ready, clipboard, seen>>
       ELSE /\ keyboard' = NoKeys
            /\ ctrl' = ctrl
            /\ backendDone(finishCopied(run))
    /\ UNCHANGED orphan

\* A keystroke that failed may have left the modifier down.
pressPasteKeys(ok) ==
    /\ keyboard.step = "pressing"
    /\ keyboard' = [step |-> "releasing", ok |-> ok]
    /\ UNCHANGED <<deliveryVars, run, marked, publishing, ready, clipboard, ctrl, orphan, seen>>

keysReleased ==
    /\ keyboard.step = "releasing"
    /\ keyboard' = NoKeys
    /\ ctrl' = FALSE
    /\ backendDone(IF keyboard.ok THEN [run EXCEPT !.step = "verify"] ELSE finishCopied(run))
    /\ UNCHANGED orphan

\* A release left behind by a run that is gone.
orphanReleased ==
    /\ orphan
    /\ orphan' = FALSE
    /\ ctrl' = FALSE
    /\ UNCHANGED <<deliveryVars, run, marked, publishing, ready, clipboard, keyboard, seen>>

\* A stopped keystroke that is taken to need no release.
OrphansReleasing == keyboard.step = "releasing"

\* The backends go with their run: a keystroke under way is stopped and its
\* modifiers released, by no one in particular.
Orphans == keyboard.step \in {"pressing", "releasing"}

\* A run that goes without starting the next.
DestroyedQuietly ==
    /\ run.step = "answered" /\ ~gone
    /\ run' = NoRun
    /\ keyboard' = NoKeys
    /\ orphan' = (orphan \/ Orphans)
    /\ UNCHANGED <<requests, startQueued, asked, gone, marked, publishing, ready, clipboard, ctrl,
                   seen>>

\* The run is gone once it was answered, and the next may start.
destroyed ==
    /\ run.step = "answered" /\ ~gone
    /\ run' = NoRun
    /\ startQueued' = TRUE
    /\ keyboard' = NoKeys
    /\ orphan' = (orphan \/ Orphans)
    /\ UNCHANGED <<requests, asked, gone, marked, publishing, ready, clipboard, ctrl, seen>>

\* ~TextDelivery, with whatever is under way.
leave ==
    /\ ~gone
    /\ gone' = TRUE
    /\ run' = NoRun /\ requests' = << >> /\ startQueued' = FALSE
    /\ keyboard' = NoKeys
    /\ orphan' = (orphan \/ Orphans)
    /\ UNCHANGED <<asked, marked, publishing, ready, clipboard, ctrl, seen>>

-----------------------------------------------------------------------------
(* The world around it.                                                    *)

\* The clipboard comes to hold what the run did not put there.  The run races
\* with it while it is about to publish, or has begun to read.
ChangesTo(content) ==
    [seen EXCEPT !.without = content, !.newer = TRUE,
                 !.raced = @ \/ Mine # {} \/ run.read # Nothing]

\* What was asked for is published, for a run that still waits for it or one
\* that was answered, or is gone, meanwhile.  A helper then says READY.
publish(p) ==
    /\ publishing' = publishing \ {p}
    /\ ready' = IF p.via = "qt" THEN ready ELSE ready \cup {p}
    /\ clipboard' = p.what
    /\ seen' = IF p.by # run.id THEN ChangesTo(p.what)
               ELSE IF p.what = Words(run.id) THEN [seen EXCEPT !.newer = FALSE] ELSE seen
    /\ UNCHANGED <<deliveryVars, run, marked, keyVars>>

\* What a run that no longer waits had asked for can be published by nobody.
leftoverFails(p) ==
    /\ p.by # run.id \/ ~running
    /\ publishing' = publishing \ {p}
    /\ UNCHANGED <<deliveryVars, run, marked, ready, keyVars, clipboard, seen>>

\* The READY of a copy the run asked for answers to the run, which need not
\* wait for it any more; that of the WlCopyBackend's to the clipboard itself,
\* whatever became of the run.  Then the copy is on record, in the place of
\* any later one.
Marks(p) == p.via = "wlcopy" \/ (p.via = "copy" /\ p.by = run.id)
readyHeardLate(p) ==
    /\ ~gone
    /\ p.by # run.id \/ ~running
    /\ ready' = ready \ {p}
    /\ marked' = IF Marks(p) THEN p.what ELSE marked
    /\ seen' = [seen EXCEPT !.late = @ \/ (running /\ run.copied)]
    /\ UNCHANGED <<deliveryVars, run, publishing, keyVars, clipboard>>

personCopies ==
    /\ seen.copies < MaxCopies
    /\ clipboard' = Copy(seen.copies + 1)
    /\ seen' = [ChangesTo(Copy(seen.copies + 1)) EXCEPT !.copies = @ + 1]
    /\ UNCHANGED <<deliveryVars, run, marked, publishing, ready, keyVars>>

Answers ==
    \E ok \in BOOLEAN :
        \/ \E canSnapshot \in BOOLEAN : focusChecked(ok, canSnapshot)
        \/ captured(ok) \/ copied(ok) \/ insertedDirectly(ok) \/ preparePasteInFocus(ok)
        \/ backendCopied(ok) \/ answerPaste(ok)
        \/ restorePreservingNewCopy(ok) \/ restored(ok)
OnItsOwn ==
    \/ reads \/ restoresUnasked
    \/ \E p \in ready : readyHeardLate(p)
Keys ==
    \/ ydotoolMissing \/ modifiersReleased \/ keysReleased \/ orphanReleased
    \/ \E ok \in BOOLEAN : clearToInject(ok) \/ pressPasteKeys(ok)
World ==
    \/ personCopies
    \/ \E p \in publishing : publish(p) \/ leftoverFails(p)

Next == deliver \/ startNext \/ Answers \/ OnItsOwn \/ deadline \/ destroyed \/ leave \/ Keys \/ World

\* The event loop runs what is queued and its timer; nothing is assumed of
\* the provider, the helpers or the keyboard.
Spec == Init /\ [][Next]_vars
        /\ WF_vars(startNext) /\ WF_vars(deadline) /\ WF_vars(destroyed)

-----------------------------------------------------------------------------
TypeOK ==
    /\ requests \in Seq(Request)
    /\ startQueued \in BOOLEAN /\ gone \in BOOLEAN /\ ctrl \in BOOLEAN /\ orphan \in BOOLEAN
    /\ asked \in 0..MaxRequests
    /\ run \in [id : 0..MaxRequests, step : Steps, focused : BOOLEAN, copied : BOOLEAN,
                saved : Content \cup {Nothing}, read : Content \cup {Nothing},
                method : Methods \cup {"none"}, left : Seq(Methods),
                receipt : {"none", "copied", "sent", "accepted", "verified"},
                restored : BOOLEAN]
    /\ marked \in Content \cup {Nothing} /\ clipboard \in Content
    /\ publishing \subseteq Helper /\ ready \subseteq Helper
    /\ keyboard \in [step : {"idle", "clearing", "asking", "pressing", "releasing"}, ok : BOOLEAN]
    /\ seen \in [without : Content, newer : BOOLEAN, raced : BOOLEAN, late : BOOLEAN,
                 copies : 0..MaxCopies, answered : 0..MaxRequests]

\* Every request is answered once, in order, though a provider or a helper
\* never answers: TextDelivery.h's promise to the session, which knows a
\* receipt by its place in the order alone.
Contract == INSTANCE DeliveryContract WITH answered <- seen.answered
KeepsContract == Contract!Spec

\* The paste keys go out only for a run that is still to be answered, and
\* paste its own words unless something newer came onto the clipboard.
KeysPasteOwn ==
    [][keyboard'.step = "pressing" /\ keyboard.step # "pressing" =>
         /\ run.step = "press" /\ requests[1].id = run.id
         /\ clipboard = Words(run.id) \/ seen.newer]_vars

\* What the answer says of the clipboard is what a person finds there: the
\* words, unless something newer came; after a restore what would be there
\* had the delivery not borrowed it.  Only a copy made while the run is about
\* to publish, or while wl-paste reads, can be lost; and nothing is said of a
\* run that heard the READY of an earlier run's copy after that of its own,
\* which takes the place of its words on record.
ClipboardAsSaid ==
    [][run'.step = "answered" /\ running /\ ~seen.late =>
         /\ run'.receipt \in {"copied", "sent"} => clipboard = Words(run.id) \/ seen.newer
         /\ run'.restored => clipboard = seen.without \/ seen.raced]_vars


\* A modifier that may be down is being pressed by a keystroke under way, or
\* about to be released, whoever is left to do it.
KeysAreLetGo == ctrl => keyboard.step \in {"pressing", "releasing"} \/ orphan
=============================================================================
