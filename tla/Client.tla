------------------------------- MODULE Client -------------------------------
(***************************************************************************)
(* The client in the browser once the player is in a team: the catalogue   *)
(* loads of main.ts and the world they build, the overlays of ui/ and when *)
(* the controls are suspended, and in the challenge panel the submit box   *)
(* and the launch area with its polling.                                   *)
(*                                                                         *)
(* One event is handled at a time, but requests are answered in any order, *)
(* late, or not, and a handler goes on after its panel is gone.  The       *)
(* server is what other modules make of it: the team's solves only grow,   *)
(* an instance comes and goes.  Banners and messages are left out.         *)
(***************************************************************************)
EXTENDS Integers, FiniteSets, Bags, BagsExt

CONSTANTS
    Challenges, Dynamic,    \* the dynamic ones of them
    Windows,                \* places for overlays, each used again once nothing waits for it
    MaxCalls,               \* no more than these requests and timers at a time
    MaxPanels,              \* no more than these challenge panels on the page at a time
    Failure,                \* the answer of a request that fails, for whatever reason
    Bare,                   \* a world descriptor without challenges
    Nothing

Statuses == {"none", "pending", "ready"}

LoadSet == [phase : {"world", "list"}, since : SUBSET Challenges, seeded : BOOLEAN,
            said : {Nothing, Failure, Bare} \union SUBSET Challenges]

CallSet ==
    [kind : {"submit"}, win : Windows, ch : Challenges,
     said : {Nothing, Failure, "correct"}] \union
    [kind : {"poll", "launch", "timer"}, win : Windows, ch : Dynamic,
     said : {Nothing, Failure} \union Statuses]

OverlaySet == [kind : {"board"}, ch : {Nothing}, shows : {"blank"},
               hidden : {FALSE}, off : {FALSE}] \union
              [kind : {"panel"}, ch : Challenges,
               shows : {"blank", "spinner", "connection", "error"},
               hidden : BOOLEAN, off : BOOLEAN]

ASSUME ClientAssumption ==
    /\ Nothing \notin OverlaySet \union Challenges
    /\ \A said \in {Nothing, Failure} : said \notin Statuses \union {"correct"}
    /\ Dynamic \subseteq Challenges
    /\ MaxCalls \in Nat \ {0} /\ MaxPanels \in Nat \ {0}

VARIABLES
    server,     \* what the team has solved, and the instances it has
    loads,      \* bag of the loadChallenges that are waiting for an answer
    calls,      \* bag of what panels wait for, timers included
    challenges, \* the variable that the loads share: what the team has solved
    shown,      \* the world on the screen: its list, and what was confirmed before
    windows,    \* window -> the overlay there
    paused, ready,
    confirmed   \* the solves the server has confirmed to this client

vars == <<server, loads, calls, challenges, shown, windows, paused, ready, confirmed>>
netVars == <<loads, calls>>
pageVars == <<challenges, shown, windows, paused, ready, confirmed>>


\* A loadChallenges: its request, the solves confirmed before it, whether it was
\* given a seed, and the answer.
Load(phase, since, seeded, said) ==
    [phase |-> phase, since |-> since, seeded |-> seeded, said |-> said]

NewLoad(since) == Load("world", since, FALSE, Nothing)

Call(kind, w, c, said) == [kind |-> kind, win |-> w, ch |-> c, said |-> said]

\* An overlay, and of the launch area what it shows and if its button is hidden or off.
Overlay(kind, c, shows, hidden, off) ==
    [kind |-> kind, ch |-> c, shows |-> shows, hidden |-> hidden, off |-> off]

NoWindow == [w \in Windows |-> Nothing]

Init ==
    /\ server \in [solved : {{}}, inst : [Dynamic -> {"none"}]]
    /\ loads = SetToBag({NewLoad({})}) /\ calls = EmptyBag
    /\ challenges = {} /\ shown = Nothing
    /\ windows = NoWindow /\ paused = FALSE /\ ready = FALSE /\ confirmed = {}

Change(bag, old, new) == BagAdd(BagRemove(bag, old), new)

Room == BagCardinality(loads) + BagCardinality(calls) < MaxCalls

-----------------------------------------------------------------------------
\* Loading the world

\* GET /api/v1/world and GET /api/challenges; an older backend sends no challenges
\* with the first.
AnswerLoad(k) ==
    /\ k.said = Nothing
    /\ \E said \in {Failure, server.solved}
                   \union (IF k.phase = "world" THEN {Bare} ELSE {}) :
         loads' = Change(loads, k, Load(k.phase, k.since, k.seeded, said))
    /\ UNCHANGED <<server, calls, pageVars>>

\* World.rebuild from the shared list, which no other load can come to in between.
Rebuild(k) ==
    /\ challenges' = k.said
    /\ shown' = [list |-> challenges', since |-> k.since]

\* The first load ends: the keys are listened to from now on.
LoadEnds(k) ==
    /\ loads' = BagRemove(loads, k)
    /\ ready' = TRUE
    /\ UNCHANGED <<server, calls, windows, paused, confirmed>>

Listed(k) == k.said \notin {Nothing, Failure, Bare}

AskForList(k, seeded) ==
    /\ loads' = Change(loads, k, Load("list", k.since, seeded, Nothing))
    /\ UNCHANGED <<server, calls, pageVars>>

\* Seeded defect: the list is assigned, and the world built from the shared variable
\* in a later turn, so that another load may have assigned its own.
WorldArrivesInTwo(k) ==
    /\ k.phase = "world"
    /\ \/ /\ Listed(k) /\ ~k.seeded
          /\ challenges' = k.said
          /\ loads' = Change(loads, k, Load("world", k.since, TRUE, k.said))
          /\ UNCHANGED <<server, calls, shown, windows, paused, ready, confirmed>>
       \/ /\ Listed(k) /\ k.seeded
          /\ shown' = [list |-> challenges, since |-> k.since]
          /\ UNCHANGED challenges /\ LoadEnds(k)
       \/ k.said = Bare /\ AskForList(k, TRUE)
       \/ k.said = Failure /\ AskForList(k, FALSE)

WorldArrives(k) ==
    /\ k.phase = "world"
    /\ \/ Listed(k) /\ Rebuild(k) /\ LoadEnds(k)
       \/ k.said = Bare /\ AskForList(k, TRUE)
       \/ k.said = Failure /\ AskForList(k, FALSE)

\* Also a descriptor whose list failed is a failure: the list is asked for once more.
ListArrives(k) ==
    /\ k.phase = "list"
    /\ \/ Listed(k) /\ Rebuild(k) /\ LoadEnds(k)
       \/ k.said = Failure /\ k.seeded /\ AskForList(k, FALSE)
       \/ k.said = Failure /\ ~k.seeded /\ LoadEnds(k) /\ UNCHANGED <<challenges, shown>>

-----------------------------------------------------------------------------
\* Overlays

Board == Overlay("board", Nothing, "blank", FALSE, FALSE)

Panel(c) == Overlay("panel", c, "blank", FALSE, FALSE)

Open(w, overlay) ==
    /\ windows[w] = Nothing /\ \A k \in DOMAIN calls : k.win # w
    /\ windows' = [windows EXCEPT ![w] = overlay]
    /\ paused' = TRUE
    /\ UNCHANGED <<server, loads, challenges, shown, ready, confirmed>>

PanelAt(w) == windows[w] # Nothing /\ windows[w].kind = "panel"

\* The E key near a building; a panel of a dynamic challenge asks for its instance.
OpenPanel(w, c) ==
    /\ ready /\ ~paused
    /\ shown # Nothing
    /\ Cardinality({v \in Windows : PanelAt(v)}) < MaxPanels
    /\ Open(w, Panel(c))
    /\ IF c \in Dynamic THEN Room /\ calls' = BagAdd(calls, Call("poll", w, c, Nothing))
                        ELSE UNCHANGED calls

\* The button for the scoreboard is there from the beginning, and for the keyboard
\* also under an overlay; the Tab key does what it does, but not when paused.
OpenBoard(w) == Open(w, Board) /\ UNCHANGED calls

\* Seeded defect: a click beside the card removes the overlay and tells nobody.
CloseOnly(w) ==
    /\ windows[w] # Nothing
    /\ windows' = [windows EXCEPT ![w] = Nothing]
    /\ UNCHANGED <<server, loads, calls, challenges, shown, paused, ready, confirmed>>

\* By its cross or by a click beside its card, where one listener removes the overlay
\* and the other resumes the controls; what it waits for still comes.
Dismiss(w) ==
    /\ windows[w] # Nothing
    /\ windows' = [windows EXCEPT ![w] = Nothing]
    /\ paused' = FALSE
    /\ UNCHANGED <<server, loads, calls, challenges, shown, ready, confirmed>>

\* The page is loaded again: what the server was asked before, nobody waits for.
Reload ==
    /\ loads' = SetToBag({NewLoad({})}) /\ calls' = EmptyBag
    /\ challenges' = {} /\ shown' = Nothing
    /\ windows' = NoWindow /\ paused' = FALSE /\ ready' = FALSE /\ confirmed' = {}
    /\ UNCHANGED server

-----------------------------------------------------------------------------
\* The challenge panel

OnlyCalls == UNCHANGED <<server, loads, challenges, shown, paused, ready, confirmed>>

\* The Enter key submits while the button is disabled, too.
Submit(w) ==
    /\ PanelAt(w) /\ Room
    /\ calls' = BagAdd(calls, Call("submit", w, windows[w].ch, Nothing))
    /\ OnlyCalls /\ UNCHANGED windows

\* The button hides once there is an instance, and is disabled by a click.
Launch(w) ==
    /\ PanelAt(w) /\ windows[w].ch \in Dynamic /\ Room
    /\ ~windows[w].hidden /\ ~windows[w].off
    /\ windows' = [windows EXCEPT ![w] = Overlay("panel", @.ch, "spinner", FALSE, TRUE)]
    /\ calls' = BagAdd(calls, Call("launch", w, windows[w].ch, Nothing))
    /\ OnlyCalls

\* The server handles a request of a panel, or it is lost, or its answer is.  A wrong
\* flag is a failure: it changes the message.
Answer(k) ==
    /\ k.said = Nothing
    /\ \E said \in {Failure, "correct"} \union Statuses :
         /\ calls' = Change(calls, k, Call(k.kind, k.win, k.ch, said))
         /\ \/ k.kind = "poll" /\ said = server.inst[k.ch] /\ UNCHANGED server
            \/ /\ k.kind = "launch"
               /\ server' = [server EXCEPT !.inst[k.ch] = IF @ = "none" THEN "pending" ELSE @]
               /\ said \in {server'.inst[k.ch], Failure}
            \/ /\ k.kind = "submit" /\ said \in {"correct", Failure}
               /\ server' = [server EXCEPT !.solved = @ \union {k.ch}]
            \/ k.kind # "timer" /\ said = Failure /\ UNCHANGED server
    /\ UNCHANGED <<loads, pageVars>>

\* What an answer does to the panel, if that is still there.
Shows(w, shows, hidden, off) ==
    windows' = IF ~PanelAt(w) THEN windows
               ELSE [windows EXCEPT ![w] = Overlay("panel", @.ch, shows, hidden, off)]

ShowsStatus(k) ==
    \/ k.said = "ready" /\ Shows(k.win, "connection", TRUE, windows[k.win].off)
    \/ k.said = "pending" /\ Shows(k.win, "spinner", TRUE, windows[k.win].off)
    \/ k.said = "none" /\ Shows(k.win, "blank", FALSE, windows[k.win].off)

\* Seeded defect: the panel of a pending instance does not ask again.
ShowInstanceOnce(k) ==
    /\ ShowsStatus(k)
    /\ calls' = BagRemove(calls, k)

\* showInstance: a pending instance is asked for again, in a while.
ShowInstance(k) ==
    /\ ShowsStatus(k)
    /\ calls' = IF k.said = "pending" THEN Change(calls, k, Call("timer", k.win, k.ch, Nothing))
                ELSE BagRemove(calls, k)

\* A poll that fails is the last one; after a launch that fails there is the button.
InstanceArrives(k) ==
    /\ k.kind \in {"poll", "launch"}
    /\ \/ ShowInstance(k)
       \/ /\ k.said = Failure
          /\ Shows(k.win, "error", windows[k.win].hidden, windows[k.win].off /\ k.kind = "poll")
          /\ calls' = BagRemove(calls, k)
    /\ OnlyCalls

TimerFires(k) ==
    /\ k.kind = "timer"
    /\ calls' = Change(calls, k, Call("poll", k.win, k.ch, Nothing))
    /\ OnlyCalls /\ UNCHANGED windows

\* onSolved loads the world again, whether the panel is still open or not.
VerdictArrives(k) ==
    /\ k.kind = "submit" /\ k.said # Nothing
    /\ calls' = BagRemove(calls, k)
    /\ IF k.said = "correct"
         THEN /\ confirmed' = confirmed \union {k.ch}
              /\ loads' = BagAdd(loads, NewLoad(confirmed'))
         ELSE UNCHANGED <<confirmed, loads>>
    /\ UNCHANGED <<server, challenges, shown, windows, paused, ready>>

Arrives(k) == InstanceArrives(k) \/ TimerFires(k) \/ VerdictArrives(k)

-----------------------------------------------------------------------------
\* Teammates, admins and the operator of the instances.
Elsewhere ==
    /\ server' \in [solved : {server.solved \union S : S \in SUBSET Challenges},
                    inst : [Dynamic -> Statuses]]
    /\ UNCHANGED <<netVars, pageVars>>

OfLoads == \E k \in DOMAIN loads : AnswerLoad(k) \/ WorldArrives(k) \/ ListArrives(k)

OfWindow(w) ==
    \/ OpenBoard(w) \/ Dismiss(w) \/ Submit(w) \/ Launch(w)
    \/ \E c \in Challenges : OpenPanel(w, c)

OfCalls == \E k \in DOMAIN calls : Answer(k) \/ Arrives(k)

Next == OfLoads \/ OfCalls \/ (\E w \in Windows : OfWindow(w)) \/ Reload \/ Elsewhere

\* A request is answered or fails in the end, also if the network decides so, and
\* the browser runs the handlers and timers that are due.
Fairness ==
    \A w \in Windows :
        /\ WF_vars(\E k \in DOMAIN calls : k.win = w /\ k.kind # "submit" /\ Answer(k))
        /\ WF_vars(\E k \in DOMAIN calls : k.win = w /\ (InstanceArrives(k) \/ TimerFires(k)))

Spec == Init /\ [][Next]_vars /\ Fairness
-----------------------------------------------------------------------------
\* The type invariant, part of the next property.
TypeOK ==
    /\ server \in [solved : SUBSET Challenges, inst : [Dynamic -> Statuses]]
    /\ IsABag(loads) /\ DOMAIN loads \subseteq LoadSet
    /\ IsABag(calls) /\ DOMAIN calls \subseteq CallSet
    /\ challenges \subseteq Challenges
    /\ windows \in [Windows -> {Nothing} \union OverlaySet]
    /\ paused \in BOOLEAN /\ ready \in BOOLEAN
    /\ confirmed \subseteq server.solved

\* Every solve that was confirmed before a load began glows in the world that the
\* load built, whatever loads overlap, although they share the variable that holds
\* the list and any of them may go on with the list after its first request failed.
GlowsAsConfirmed ==
    /\ TypeOK
    /\ shown # Nothing => shown.since \subseteq shown.list

\* Whatever overlays come and go, and by whatever way: when there is none the rover
\* can be driven.
ControlsReturn == paused => \E w \in Windows : windows[w] # Nothing

\* "poll until ready" (challengePanel.ts:121): a panel does not go on saying that the
\* instance is launched or provisioned when it is not pending any more, whatever
\* answers overtake each other.
SpinnerEnds ==
    \A w \in Windows, c \in Dynamic :
        PanelAt(w) /\ windows[w].ch = c /\ windows[w].shows = "spinner" ~>
            ~PanelAt(w) \/ windows[w].ch # c \/ windows[w].shows # "spinner"
              \/ server.inst[c] = "pending"
=============================================================================
