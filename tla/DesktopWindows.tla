------------------------------- MODULE DesktopWindows -------------------------------
(***************************************************************************)
(* The windows of desktop-shell.tsx: what is open, drawn and focused, and  *)
(* the timers that remove a window once its closing has been animated. A   *)
(* timer sees the windows as they were when the button was clicked.        *)
(***************************************************************************)
EXTENDS Naturals, Sequences, SequencesExt

CONSTANTS
    Windows, NoWindow,
    MaxGestures    \* bound: openings, closings and changes of the animations

DesktopWindowsAssumption == NoWindow \notin Windows /\ MaxGestures \in Nat

VARIABLES
    openWindows, closingWindows, minimizedWindows, focusedWindow,
    closeTimers,    \* closeTimersRef: the windows whose timer is set
    heir,           \* the window each timer will focus, by its closure
    animations,     \* appearance.animationsEnabled
    gestures,
    wanted          \* history: the windows opened and not closed since

windowVars == <<openWindows, closingWindows, minimizedWindows, focusedWindow, closeTimers, heir,
                animations, gestures, wanted>>

WindowsTypeOK ==
    /\ openWindows \in Seq(Windows) /\ IsInjective(openWindows)
    /\ closingWindows \subseteq Windows /\ minimizedWindows \subseteq Windows
    /\ focusedWindow \in Windows \cup {NoWindow}
    /\ closeTimers \subseteq Windows /\ heir \in [Windows -> Windows \cup {NoWindow}]
    /\ animations \in BOOLEAN /\ gestures \in 0..MaxGestures /\ wanted \subseteq Windows

WindowsInit ==
    /\ openWindows = <<>> /\ closingWindows = {} /\ minimizedWindows = {}
    /\ focusedWindow = NoWindow /\ closeTimers = {} /\ heir = [w \in Windows |-> NoWindow]
    /\ animations \in BOOLEAN /\ gestures = 0 /\ wanted = {}

\* getNextFocusableWindow: the last one that can be seen.
NextFocusable(w) ==
    LET visible == {k \in DOMAIN openWindows : /\ openWindows[k] # w
                                               /\ openWindows[k] \notin closingWindows
                                               /\ openWindows[k] \notin minimizedWindows}
    IN IF visible = {} THEN NoWindow ELSE openWindows[Max(visible)]

Gesture == gestures < MaxGestures /\ gestures' = gestures + 1

\* Mutant: a window that is open is opened once more.
BadWithWindow(w) == Append(openWindows, w)

WithWindow(w) == IF w \in ToSet(openWindows) THEN openWindows ELSE Append(openWindows, w)

\* Mutant: the timer of a window that was being closed is kept.
BadOpenWindow(w) ==
    /\ Gesture /\ closingWindows' = closingWindows \ {w}
    /\ minimizedWindows' = minimizedWindows \ {w}
    /\ openWindows' = WithWindow(w)
    /\ focusedWindow' = w /\ wanted' = wanted \cup {w}
    /\ UNCHANGED <<closeTimers, heir, animations>>

OpenWindow(w) ==
    /\ Gesture /\ closeTimers' = closeTimers \ {w} /\ closingWindows' = closingWindows \ {w}
    /\ minimizedWindows' = minimizedWindows \ {w}
    /\ openWindows' = WithWindow(w)
    /\ focusedWindow' = w /\ wanted' = wanted \cup {w}
    /\ UNCHANGED <<heir, animations>>

\* A window can be touched while it is drawn, also while it fades.
Drawn(w) == w \in ToSet(openWindows) /\ w \notin minimizedWindows

MinimizeWindow(w) ==
    /\ Drawn(w) /\ minimizedWindows' = minimizedWindows \cup {w}
    /\ focusedWindow' = IF focusedWindow = w THEN NextFocusable(w) ELSE focusedWindow
    /\ UNCHANGED <<openWindows, closingWindows, closeTimers, heir, animations, gestures, wanted>>

FocusWindow(w) ==
    /\ Drawn(w) /\ focusedWindow # w /\ focusedWindow' = w
    /\ UNCHANGED <<openWindows, closingWindows, minimizedWindows, closeTimers, heir, animations,
                   gestures, wanted>>

\* handleDockClick of "apps": all windows away, ...
ShowDesktop ==
    /\ \E w \in ToSet(openWindows) : Drawn(w)
    /\ minimizedWindows' = minimizedWindows \cup ToSet(openWindows)
    /\ focusedWindow' = NoWindow
    /\ UNCHANGED <<openWindows, closingWindows, closeTimers, heir, animations, gestures, wanted>>

\* ... or all of them back.
RestoreAll ==
    /\ minimizedWindows # {} /\ ~\E w \in ToSet(openWindows) : Drawn(w)
    /\ minimizedWindows' = {}
    /\ UNCHANGED <<openWindows, closingWindows, focusedWindow, closeTimers, heir, animations,
                   gestures, wanted>>

\* The windows but w, which is there once at most.
Without(w) ==
    IF w \in ToSet(openWindows)
    THEN RemoveAt(openWindows, CHOOSE k \in DOMAIN openWindows : openWindows[k] = w)
    ELSE openWindows

\* finalizeCloseWindow
Finalize(w, next) ==
    /\ openWindows' = Without(w)
    /\ closingWindows' = closingWindows \ {w} /\ minimizedWindows' = minimizedWindows \ {w}
    /\ focusedWindow' = IF focusedWindow = w THEN next ELSE focusedWindow

CloseWindow(w) ==
    /\ Drawn(w) /\ Gesture /\ wanted' = wanted \ {w}
    /\ IF animations
       THEN /\ closingWindows' = closingWindows \cup {w} /\ closeTimers' = closeTimers \cup {w}
            /\ heir' = [heir EXCEPT ![w] = NextFocusable(w)]
            /\ UNCHANGED <<openWindows, minimizedWindows, focusedWindow>>
       ELSE closeTimers' = closeTimers \ {w} /\ Finalize(w, NextFocusable(w)) /\ UNCHANGED heir
    /\ UNCHANGED animations

\* WINDOW_CLOSE_ANIMATION_MS
CloseTimer(w) ==
    /\ w \in closeTimers /\ closeTimers' = closeTimers \ {w}
    /\ Finalize(w, heir[w])
    /\ UNCHANGED <<heir, animations, gestures, wanted>>

Animate ==
    /\ Gesture /\ animations' = ~animations
    /\ UNCHANGED <<openWindows, closingWindows, minimizedWindows, focusedWindow, closeTimers, heir,
                   wanted>>

WindowsNext ==
    \/ \E w \in Windows : \/ OpenWindow(w) \/ MinimizeWindow(w) \/ FocusWindow(w)
                          \/ CloseWindow(w) \/ CloseTimer(w)
    \/ ShowDesktop \/ RestoreAll \/ Animate

WindowsSpec == WindowsInit /\ [][WindowsNext]_windowVars

\* The timers fire.
WindowsFairness == \A w \in Windows : WF_windowVars(CloseTimer(w))

-------------------------------------------------------------------------------

\* The windows on the desktop end up being those that were opened and not closed since: a
\* window opened while it is being closed stays, and one closed goes (openWindow, closeWindow).
WindowsAsAsked == <>[](ToSet(openWindows) = wanted)
====================================================================================
