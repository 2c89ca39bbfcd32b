------------------------------- MODULE WallpaperFade -------------------------------
(***************************************************************************)
(* The wallpaper of desktop-shell.tsx: an effect loads what has been       *)
(* chosen and fades it in, while more is chosen. Images are loaded, frames *)
(* drawn and timers fire in any order; the effect runs some time after the *)
(* render whose dependencies changed.                                      *)
(***************************************************************************)
EXTENDS Naturals

CONSTANTS
    Wallpapers, NoWallpaper,
    MaxChoices,       \* bound: changes of the wallpaper and of the animations
    MaxTransitions    \* bound: three for every choice, and two

WallpaperAssumption ==
    NoWallpaper \notin Wallpapers /\ MaxChoices \in Nat /\ MaxTransitions = 3 * MaxChoices + 2

VARIABLES
    animated,            \* appearance.animationsEnabled
    wallpaper,           \* appearance.wallpaper
    displayWallpaper, nextWallpaper, fading,
    effectDue,           \* what the effect depends on has changed
    transition,          \* wallpaperTransitionIdRef
    aim,                 \* of each transition: the wallpaper its closures were made for
    preloads,            \* transitions whose image is on its way
    frame, finalizer,    \* wallpaperFrameRef, wallpaperFinalizeTimerRef: a transition, or 0
    choices

wallpaperVars == <<animated, wallpaper, displayWallpaper, nextWallpaper, fading, effectDue,
                   transition, aim, preloads, frame, finalizer, choices>>

WallpaperTypeOK ==
    /\ animated \in BOOLEAN /\ wallpaper \in Wallpapers
    /\ {displayWallpaper, nextWallpaper} \subseteq Wallpapers \cup {NoWallpaper}
    /\ fading \in BOOLEAN /\ effectDue \in BOOLEAN
    /\ transition \in 0..MaxTransitions
    /\ aim \in [1..MaxTransitions -> Wallpapers \cup {NoWallpaper}]
    /\ preloads \subseteq 1..transition /\ {frame, finalizer} \subseteq 0..transition
    /\ choices \in 0..MaxChoices

WallpaperInit ==
    /\ animated \in BOOLEAN /\ wallpaper \in Wallpapers
    /\ displayWallpaper = NoWallpaper /\ nextWallpaper = NoWallpaper /\ fading = FALSE
    /\ effectDue = TRUE /\ transition = 0 /\ aim = [n \in 1..MaxTransitions |-> NoWallpaper]
    /\ preloads = {} /\ frame = 0 /\ finalizer = 0 /\ choices = 0

Choose(w) ==
    /\ choices < MaxChoices /\ choices' = choices + 1
    /\ w # wallpaper /\ wallpaper' = w /\ effectDue' = TRUE
    /\ UNCHANGED <<animated, displayWallpaper, nextWallpaper, fading, transition, aim, preloads,
                   frame, finalizer>>

AnimateFades ==
    /\ choices < MaxChoices /\ choices' = choices + 1
    /\ animated' = ~animated /\ effectDue' = TRUE
    /\ UNCHANGED <<wallpaper, displayWallpaper, nextWallpaper, fading, transition, aim, preloads,
                   frame, finalizer>>

ShowWallpaper(w) ==
    /\ displayWallpaper' = w /\ nextWallpaper' = NoWallpaper /\ fading' = FALSE
    /\ effectDue' = (effectDue \/ displayWallpaper # w)

-------------------------------------------------------------------------------
(* The effect. *)

\* Whatever is under way goes on: it ends by showing another wallpaper, and the effect runs
\* again.
NothingToDo == displayWallpaper = wallpaper

\* The first wallpaper is not faded in.
FirstWallpaper ==
    /\ effectDue /\ displayWallpaper = NoWallpaper
    /\ displayWallpaper' = wallpaper
    /\ UNCHANGED <<animated, wallpaper, nextWallpaper, fading, effectDue, transition, aim, preloads,
                   frame, finalizer, choices>>

\* Mutant: a new transition is counted before anything is compared.
BadTransit ==
    /\ effectDue /\ displayWallpaper # NoWallpaper
    /\ transition < MaxTransitions
    /\ transition' = transition + 1 /\ aim' = [aim EXCEPT ![transition + 1] = wallpaper]
    /\ IF NothingToDo
       THEN /\ effectDue' = FALSE
            /\ UNCHANGED <<preloads, displayWallpaper, nextWallpaper, fading, frame, finalizer>>
       ELSE /\ frame' = 0 /\ finalizer' = 0
            /\ IF animated
               THEN /\ preloads' = preloads \cup {transition + 1} /\ effectDue' = FALSE
                    /\ UNCHANGED <<displayWallpaper, nextWallpaper, fading>>
               ELSE ShowWallpaper(wallpaper) /\ UNCHANGED preloads
    /\ UNCHANGED <<animated, wallpaper, choices>>

Transit ==
    /\ effectDue /\ displayWallpaper # NoWallpaper
    /\ IF NothingToDo
       THEN /\ effectDue' = FALSE
            /\ UNCHANGED <<transition, aim, preloads, displayWallpaper, nextWallpaper, fading,
                           frame, finalizer>>
       ELSE /\ transition < MaxTransitions
            /\ transition' = transition + 1 /\ aim' = [aim EXCEPT ![transition + 1] = wallpaper]
            /\ frame' = 0 /\ finalizer' = 0
            /\ IF animated
               THEN /\ preloads' = preloads \cup {transition + 1} /\ effectDue' = FALSE
                    /\ UNCHANGED <<displayWallpaper, nextWallpaper, fading>>
               ELSE ShowWallpaper(wallpaper) /\ UNCHANGED preloads
    /\ UNCHANGED <<animated, wallpaper, choices>>

-------------------------------------------------------------------------------
(* Its callbacks: those of an earlier transition do nothing. *)

\* startFade, when the image has been loaded or cannot be.
StartFade(n) ==
    /\ n \in preloads /\ preloads' = preloads \ {n}
    /\ IF n = transition
       THEN nextWallpaper' = aim[n] /\ fading' = FALSE /\ frame' = n /\ finalizer' = n
       ELSE UNCHANGED <<nextWallpaper, fading, frame, finalizer>>
    /\ UNCHANGED <<animated, wallpaper, displayWallpaper, effectDue, transition, aim, choices>>

Frame ==
    /\ frame # 0 /\ frame' = 0
    /\ fading' = (fading \/ frame = transition)
    /\ UNCHANGED <<animated, wallpaper, displayWallpaper, nextWallpaper, effectDue, transition, aim,
                   preloads, finalizer, choices>>

\* The fallback, WALLPAPER_FADE_MS and a little more later.
FinalizeTimer ==
    /\ finalizer # 0 /\ finalizer' = 0
    /\ IF finalizer = transition
       THEN ShowWallpaper(aim[finalizer])
       ELSE UNCHANGED <<displayWallpaper, nextWallpaper, fading, effectDue>>
    /\ UNCHANGED <<animated, wallpaper, transition, aim, preloads, frame, choices>>

\* finalizeWallpaperFade: the browser tells of the end of the fade.
FadeEnds ==
    /\ fading /\ nextWallpaper # NoWallpaper
    /\ ShowWallpaper(nextWallpaper) /\ finalizer' = 0
    /\ UNCHANGED <<animated, wallpaper, transition, aim, preloads, frame, choices>>

\* What happens by itself: images arrive or fail, frames are drawn, timers fire. (The end of a
\* fade may not be told.)
WallpaperSteps == FirstWallpaper \/ Transit \/ (\E n \in preloads : StartFade(n)) \/ Frame \/ FinalizeTimer

WallpaperNext == WallpaperSteps \/ FadeEnds \/ AnimateFades \/ \E w \in Wallpapers : Choose(w)

WallpaperSpec == WallpaperInit /\ [][WallpaperNext]_wallpaperVars

-------------------------------------------------------------------------------

\* Whatever was chosen in between, the desktop ends up showing the wallpaper chosen last, and
\* no other over it (the effect of appearance.wallpaper).
WallpaperArrives == <>[](displayWallpaper = wallpaper /\ nextWallpaper = NoWallpaper)
====================================================================================
