------------------------------ MODULE Shell_proofs ------------------------------
(***************************************************************************)
(* Proofs about Shell, for any keys and any number of events and movies:   *)
(* the window ends in the mode of the settings, and what takes the mouse   *)
(* and the keys from the game gives them back.                             *)
(***************************************************************************)
EXTENDS Shell, TLAPS

Phases == {"closed", "opening", "open", "closing"}
Consoles == [phase : Phases, resume : BOOLEAN]
Menus == [open : BOOLEAN, mode : {"title", "pause"}]
Windows == [mode : Mode, is : Mode, last : Mode, lastFull : Mode,
            consoleOver : BOOLEAN, focusOver : BOOLEAN]
Boots == [left : 0..Warmup, settled : BOOLEAN, apply : BOOLEAN]

ShownTypes == window \in Windows /\ boot \in Boots
CoverTypes == console \in Consoles /\ menu \in Menus
FlagTypes ==
    /\ look \in BOOLEAN /\ wasLook \in BOOLEAN /\ focusResume \in BOOLEAN
    /\ focused \in BOOLEAN /\ visible \in BOOLEAN /\ map \in BOOLEAN /\ scene \in BOOLEAN
    /\ displayDue \in BOOLEAN /\ lookLost \in BOOLEAN /\ raced \in BOOLEAN
CountTypes ==
    /\ video \in 0..MaxMovies
    /\ reloads \in 0..events /\ replay \in 0..(ReplayLen + 1) /\ script \in 0..Done
    /\ events \in 0..MaxEvents
KeyTypes ==
    /\ input \subseteq Key /\ keys \subseteq Key /\ excused \subseteq Key
PlaceTypes ==
    /\ clicked \in {NoClick, "start", "resume", "quit"} \cup Mode
    /\ at \in {"events", "script", "ui", "world", "trace", "present", "over"}

-------------------------------------------------------------------------------
LEMMA WindowOps ==
    ASSUME NEW w \in Windows, NEW m \in Mode
    PROVE  /\ Applied(w) \in Windows /\ Borderless(w) \in Windows /\ Remembered(w) \in Windows
           /\ [w EXCEPT !.mode = m] \in Windows
<1>1. w.mode \in Mode /\ w.lastFull \in Mode /\ "borderless" \in Mode
  BY DEF Windows, Mode
<1>2. Applied(w) \in Windows
  BY <1>1 DEF Applied, Windows
<1>3. Borderless(w) \in Windows
  BY <1>1 DEF Borderless, Windows
<1>4. [w EXCEPT !.mode = m] \in Windows
  BY DEF Windows
<1>5. Remembered(w) \in Windows
  BY <1>1 DEF Remembered, Windows
<1> QED
  BY <1>2, <1>3, <1>4, <1>5

LEMMA WindowCovers ==
    ASSUME NEW w \in Windows, NEW restore \in BOOLEAN, NEW b \in BOOLEAN
    PROVE  /\ [w EXCEPT !.consoleOver = b] \in Windows
           /\ [w EXCEPT !.focusOver = b] \in Windows
           /\ Overridden(w) \in Windows /\ Restored(w, restore) \in Windows
           /\ Refocused(w) \in Windows
<1>1. ASSUME NEW v \in Windows, NEW c \in BOOLEAN
      PROVE  [v EXCEPT !.consoleOver = c] \in Windows /\ [v EXCEPT !.focusOver = c] \in Windows
  BY DEF Windows
<1>2. Overridden(w) \in Windows
  BY <1>1, WindowOps DEF Overridden, Mode
<1>3. Restored(w, restore) \in Windows
  <2>1. CASE w.consoleOver /\ w.mode = "fullscreen" /\ restore
    BY <1>1, <2>1, WindowOps DEF Restored, Mode
  <2>2. CASE ~(w.consoleOver /\ w.mode = "fullscreen" /\ restore)
    BY <2>2 DEF Restored, Windows
  <2> QED
    BY <2>1, <2>2
<1>4. Refocused(w) \in Windows
  BY <1>1, WindowOps DEF Refocused, Mode
<1> QED
  BY <1>1, <1>2, <1>3, <1>4

-------------------------------------------------------------------------------
(* The window is in the mode of the settings, or it is in fullscreen and   *)
(* somebody knows that it is not shown so: the console, the focus or the   *)
(* boot.  Until the frame has seen to a changed setting, nobody need.      *)
Excused == window.consoleOver \/ window.focusOver \/ (boot.left > 0 /\ boot.apply)
ModeKnown ==
    ~displayDue => window.is = window.mode \/ (window.mode = "fullscreen" /\ Excused)

WindowInv ==
    /\ window.lastFull # "windowed"
    /\ window.last # "windowed" => window.lastFull = window.last
    /\ ~displayDue => window.mode = window.last
    /\ window.focusOver => ~focused
    /\ ModeKnown

(* A key the game does not hear of is excused, or it is not taken for held. *)
KeysInv ==
    /\ NoStuckKey
    /\ ~focused \/ Layer # "game" => input \subseteq excused

(* Movies come before menus, and menus before scenes.                      *)
SceneInv ==
    /\ video > 0 => ~scene /\ ~menu.open
    /\ reloads > 0 => scene
    /\ menu.open /\ menu.mode = "title" => ~scene
    /\ look \/ wasLook => scene

(* Who remembers the mouse while the game does not have it: the console    *)
(* under the focus, the focus, the pause menu; or it is lost.              *)
Undisturbed == script = Done /\ ~raced
Settled == console.phase \in {"closed", "closing"}
Remembers ==
    /\ look => focused /\ ~menu.open /\ Settled
    /\ scene /\ menu.open => wasLook \/ lookLost
    /\ scene /\ ~menu.open /\ focused /\ Settled => look \/ lookLost
    /\ scene /\ ~menu.open /\ focused /\ ~Settled => console.resume \/ lookLost
    /\ scene /\ ~menu.open /\ ~focused => lookLost \/ (focusResume /\ ~Blocking)
LookInv == Undisturbed => Remembers

(* A trace is served while frames of it are left.                          *)
TraceDue == at = "trace" => replay > 0

Types == ShownTypes /\ CoverTypes /\ FlagTypes /\ CountTypes /\ KeyTypes /\ PlaceTypes
ShellInv == Types /\ TraceDue /\ WindowInv /\ KeysInv /\ SceneInv /\ LookInv

-------------------------------------------------------------------------------
(* What a key handler does to the window: nothing, or it closes the        *)
(* console.                                                                *)
LEMMA HandledWindow ==
    PressBackquote \/ PressEscape => window' = window \/ window' = Restored(window, TRUE)
BY DEF PressBackquote, PressEscape, CloseConsole, OpenConsole, ResumePause, OpenPause

LEMMA WindowKept ==
    ASSUME ShownTypes, WindowInv, UNCHANGED <<boot, displayDue, focused>>,
           window' = window \/ window' = Restored(window, TRUE)
    PROVE  ShownTypes' /\ WindowInv'
<1>1. CASE window' = window
  BY <1>1 DEF ShownTypes, WindowInv, ModeKnown, Excused
<1>2. CASE window' = Restored(window, TRUE)
  <2>1. window' \in Windows
    BY <1>2, WindowCovers DEF ShownTypes
  <2>2. WindowInv'
    BY <1>2 DEF ShownTypes, Windows, WindowInv, ModeKnown, Excused, Restored, Applied
  <2> QED
    BY <2>1, <2>2 DEF ShownTypes
<1> QED
  BY <1>1, <1>2

LEMMA AltEnterWindow ==
    ASSUME ShownTypes, WindowInv, AltEnter
    PROVE  ShownTypes' /\ WindowInv'
<1> DEFINE leaving == IF window.mode = "windowed" THEN window
                      ELSE [window EXCEPT !.lastFull = window.mode]
           target == IF window.mode = "windowed" THEN window.lastFull ELSE "windowed"
           aimed == [leaving EXCEPT !.mode = target, !.consoleOver = FALSE, !.focusOver = FALSE]
           toggled == Applied(Remembered(aimed))
<1>1. /\ window' = IF Blocking THEN Overridden(toggled) ELSE toggled
      /\ boot' = boot /\ displayDue' = displayDue /\ focused' = focused /\ focused
  BY DEF AltEnter, Event, cursor, shown, played, held
<1>2. leaving \in Windows /\ leaving.lastFull # "windowed" /\ target \in Mode
  BY DEF ShownTypes, Windows, WindowInv, Mode
<1>3. /\ aimed \in Windows /\ aimed.mode = target /\ ~aimed.consoleOver /\ ~aimed.focusOver
      /\ aimed.lastFull = leaving.lastFull
  <2> HIDE DEF leaving, target
  <2> QED
    BY <1>2 DEF Windows
<1>4. /\ toggled \in Windows /\ toggled.mode = target /\ toggled.is = target
      /\ toggled.last = target /\ ~toggled.consoleOver /\ ~toggled.focusOver
      /\ toggled.lastFull = IF target = "windowed" THEN leaving.lastFull ELSE target
  <2> HIDE DEF leaving, target, aimed
  <2>1. Remembered(aimed) \in Windows /\ toggled \in Windows
    BY <1>3, WindowOps DEF Mode
  <2> QED
    BY <1>3, <2>1 DEF Remembered, Applied, Windows
<1> HIDE DEF toggled, aimed, leaving, target
<1>5. /\ window' \in Windows
      /\ window'.mode = target /\ window'.last = target /\ ~window'.focusOver
      /\ window'.lastFull = toggled.lastFull
      /\ window'.is = target \/ (window'.mode = "fullscreen" /\ window'.consoleOver)
  <2>1. CASE Blocking /\ toggled.mode = "fullscreen"
    <3>1. window' = [Borderless(toggled) EXCEPT !.consoleOver = TRUE]
      BY <1>1, <1>4, <2>1 DEF Overridden
    <3>2. window' \in Windows
      BY <1>1, <1>4, <2>1, WindowCovers
    <3> QED
      BY <1>4, <2>1, <3>1, <3>2 DEF Borderless, Windows
  <2>2. CASE ~(Blocking /\ toggled.mode = "fullscreen")
    <3>1. window' = toggled
      BY <1>1, <1>4, <2>2 DEF Overridden
    <3> QED
      BY <3>1, <1>4
  <2> QED
    BY <2>1, <2>2
<1> QED
  BY <1>1, <1>2, <1>4, <1>5 DEF ShownTypes, WindowInv, ModeKnown, Excused

LEMMA BootOps ==
    ASSUME NEW b \in Boots
    PROVE  /\ Unsettled(b) \in Boots /\ Unsettled(b).apply = b.apply
           /\ b.left > 0 => Unsettled(b).left > 0
           /\ PresentedOnce(b) \in Boots /\ PresentedOnce(b).apply = b.apply
           /\ b.left > 0 /\ ~ComesUp(b) => PresentedOnce(b).left > 0
           /\ b.left = 0 => Unsettled(b) = b
<1>1. Unsettled(b) \in Boots /\ Unsettled(b).apply = b.apply /\ (b.left > 0 => Unsettled(b).left > 0)
  <2>1. CASE b.left = 0
    BY <2>1 DEF Unsettled, Boots
  <2>2. CASE b.left # 0
    <3>1. Warmup \in 0..Warmup /\ Warmup > 0
      BY ShellAssumption
    <3>2. Unsettled(b) = [b EXCEPT !.left = Warmup, !.settled = FALSE]
      BY <2>2 DEF Unsettled
    <3>3. [b EXCEPT !.left = Warmup] \in Boots
      BY <3>1 DEF Boots
    <3>4. Unsettled(b) \in Boots
      BY <3>2, <3>3 DEF Boots
    <3> QED
      BY <3>1, <3>2, <3>4 DEF Boots
  <2> QED
    BY <2>1, <2>2
<1>2. CASE b.settled /\ b.left > 0
  <2>1. b.left \in 1..Warmup /\ b.left - 1 \in 0..Warmup
    BY <1>2, ShellAssumption DEF Boots
  <2>2. PresentedOnce(b) = [b EXCEPT !.left = b.left - 1]
    BY <1>2 DEF PresentedOnce
  <2>3. PresentedOnce(b) \in Boots /\ PresentedOnce(b).apply = b.apply
        /\ PresentedOnce(b).left = b.left - 1
    BY <2>1, <2>2 DEF Boots
  <2> QED
    BY <1>1, <1>2, <2>1, <2>3 DEF ComesUp, Unsettled
<1>3. CASE ~(b.settled /\ b.left > 0)
  BY <1>1, <1>3 DEF PresentedOnce, Unsettled
<1> QED
  BY <1>2, <1>3

LEMMA PresentedWindow ==
    ASSUME ShownTypes, WindowInv, Presented, UNCHANGED <<displayDue, focused>>
    PROVE  ShownTypes' /\ WindowInv'
<1>1. boot' = [PresentedOnce(boot) EXCEPT !.apply = @ /\ ~ComesUp(boot)]
  BY DEF Presented
<1>2. /\ boot' \in Boots
      /\ ~ComesUp(boot) /\ boot.left > 0 => boot'.left > 0 /\ boot'.apply = boot.apply
  <2>1. PresentedOnce(boot) \in Boots /\ PresentedOnce(boot).apply = boot.apply
    BY BootOps DEF ShownTypes
  <2>2. boot.apply \in BOOLEAN /\ ComesUp(boot) \in BOOLEAN
    BY DEF ShownTypes, Boots, ComesUp
  <2>3. boot' \in Boots
    BY <1>1, <2>1, <2>2 DEF Boots
  <2>4. boot'.left = PresentedOnce(boot).left
    BY <1>1, <2>1 DEF Boots
  <2>5. ~ComesUp(boot) => boot'.apply = boot.apply
    BY <1>1, <2>1, <2>2 DEF Boots
  <2> QED
    BY <2>3, <2>4, <2>5, BootOps DEF ShownTypes
<1>3. window' = IF ComesUp(boot) /\ boot.apply THEN Applied(window) ELSE window
  BY DEF Presented
<1>4. CASE ComesUp(boot) /\ boot.apply
  <2>1. window' = Applied(window) /\ window' \in Windows
    BY <1>3, <1>4, WindowOps DEF ShownTypes, Mode
  <2> QED
    BY <1>2, <2>1 DEF ShownTypes, Windows, Applied, WindowInv, ModeKnown
<1>5. CASE ~(ComesUp(boot) /\ boot.apply)
  <2>1. window' = window
    BY <1>3, <1>5
  <2>2. boot.left > 0 /\ boot.apply => boot'.left > 0 /\ boot'.apply
    BY <1>2, <1>5
  <2> QED
    BY <1>2, <2>1, <2>2 DEF ShownTypes, WindowInv, ModeKnown, Excused
<1> QED
  BY <1>4, <1>5

LEMMA FocusWindow ==
    ASSUME ShownTypes, WindowInv, FocusLost \/ FocusGained
    PROVE  ShownTypes' /\ WindowInv'
<1>1. CASE FocusLost
  <2> DEFINE away == IF window.mode = "fullscreen" /\ ~window.focusOver
                     THEN [Borderless(window) EXCEPT !.focusOver = TRUE] ELSE window
  <2>1. /\ window' = IF Blocking THEN [away EXCEPT !.consoleOver = FALSE] ELSE away
        /\ focused /\ ~focused' /\ boot' = boot /\ displayDue' = displayDue
    BY <1>1 DEF FocusLost, Event
  <2>2. /\ away \in Windows
        /\ away.mode = window.mode /\ away.last = window.last /\ away.lastFull = window.lastFull
        /\ \/ away.is = window.mode
           \/ away.mode = "fullscreen" /\ away.focusOver
           \/ away.mode # "fullscreen" /\ away.is = window.is
    <3>1. CASE window.mode = "fullscreen" /\ ~window.focusOver
      <4>1. Borderless(window) \in Windows
        BY WindowOps DEF ShownTypes, Mode
      <4>2. away = [Borderless(window) EXCEPT !.focusOver = TRUE]
        BY <3>1
      <4>3. away \in Windows
        BY <4>1, <4>2, WindowCovers
      <4> QED
        BY <3>1, <4>2, <4>3 DEF Borderless, ShownTypes, Windows
    <3>2. CASE ~(window.mode = "fullscreen" /\ ~window.focusOver)
      BY <3>2, <2>1 DEF ShownTypes, WindowInv
    <3> QED
      BY <3>1, <3>2
  <2> HIDE DEF away
  <2>3. /\ window' \in Windows
        /\ window'.mode = away.mode /\ window'.last = away.last /\ window'.lastFull = away.lastFull
        /\ window'.is = away.is /\ window'.focusOver = away.focusOver
    BY <2>1, <2>2, WindowCovers DEF Windows
  <2> QED
    BY <2>1, <2>2, <2>3 DEF ShownTypes, WindowInv, ModeKnown, Excused
<1>2. CASE FocusGained
  <2>1. /\ window' = Refocused(window)
        /\ focused' /\ boot' = boot /\ displayDue' = displayDue
    BY <1>2 DEF FocusGained, Event
  <2>2. window' \in Windows
    BY <2>1, WindowCovers DEF ShownTypes
  <2>3. /\ window'.mode = window.mode /\ window'.last = window.last
        /\ window'.lastFull = window.lastFull /\ ~window'.focusOver
        /\ \/ window'.is = window.is /\ window'.consoleOver = window.consoleOver
              /\ (window.focusOver /\ window.mode = "fullscreen" => window.consoleOver)
           \/ window'.is = window.mode
    BY <2>1 DEF Refocused, Applied, ShownTypes, Windows
  <2> QED
    BY <2>1, <2>2, <2>3 DEF ShownTypes, WindowInv, ModeKnown, Excused
<1> QED
  BY <1>1, <1>2

LEMMA UiWindow ==
    ASSUME ShownTypes, WindowInv, PlaceTypes, Ui
    PROVE  ShownTypes' /\ WindowInv'
<1> DEFINE picked == IF Served \in Mode THEN [window EXCEPT !.mode = Served] ELSE window
           display == displayDue \/ picked # window
<1>1. /\ window' = IF display THEN DisplayChanged(picked) ELSE window
      /\ ~displayDue' /\ focused' = focused /\ boot' = boot
  BY DEF Ui
<1>2. /\ picked \in Windows /\ picked.last = window.last /\ picked.lastFull = window.lastFull
      /\ picked.focusOver = window.focusOver
  BY DEF ShownTypes, Windows
<1>3. CASE display
  <2> HIDE DEF picked
  <2>1. window' = DisplayChanged(picked)
    BY <1>1, <1>3
  <2>2. Applied(picked) \in Windows /\ Remembered(Applied(picked)) \in Windows
    BY <1>2, WindowOps DEF Mode
  <2>3. /\ window' \in Windows /\ window'.is = window'.mode /\ window'.last = window'.mode
        /\ window'.focusOver = window.focusOver /\ window'.lastFull # "windowed"
        /\ window'.last # "windowed" => window'.lastFull = window'.last
    BY <1>2, <2>1, <2>2 DEF DisplayChanged, Applied, Remembered, Windows, WindowInv
  <2> QED
    BY <1>1, <2>3 DEF ShownTypes, WindowInv, ModeKnown
<1>4. CASE ~display
  <2>1. window' = window /\ ~displayDue
    BY <1>1, <1>4
  <2> QED
    BY <1>1, <2>1 DEF ShownTypes, WindowInv, ModeKnown, Excused
<1> QED
  BY <1>3, <1>4

(* Whatever overrides of console, focus and boot come and go, somebody     *)
(* knows of each that is in place.                                         *)
LEMMA WindowStep ==
    ASSUME ShownTypes, WindowInv, FlagTypes, PlaceTypes, Next
    PROVE  ShownTypes' /\ WindowInv'
<1>1. CASE AltEnter
  BY <1>1, AltEnterWindow
<1>2. CASE Backquote \/ Escape
  <2>1. (PressBackquote \/ PressEscape) /\ UNCHANGED <<boot, displayDue, focused>>
    BY <1>2 DEF Backquote, Escape
  <2> QED
    BY <2>1, HandledWindow, WindowKept
<1>3. CASE FocusLost \/ FocusGained
  BY <1>3, FocusWindow
<1>4. CASE Resized
  <2>1. boot' = Unsettled(boot) /\ UNCHANGED <<window, displayDue, focused>>
    BY <1>4 DEF Resized
  <2>2. boot' \in Boots /\ boot'.apply = boot.apply /\ (boot.left > 0 => boot'.left > 0)
    BY <2>1, BootOps DEF ShownTypes
  <2> QED
    BY <2>1, <2>2 DEF ShownTypes, WindowInv, ModeKnown, Excused
<1>5. ASSUME NEW m \in Mode, CommandMode(m) PROVE ShownTypes' /\ WindowInv'
  <2>1. /\ window' = [window EXCEPT !.mode = m] /\ displayDue'
        /\ boot' = boot /\ focused' = focused
    BY <1>5 DEF CommandMode
  <2>2. window' \in Windows
    BY <2>1, WindowOps DEF ShownTypes
  <2> QED
    BY <2>1, <2>2 DEF ShownTypes, Windows, WindowInv, ModeKnown
<1>6. CASE Settle
  <2>1. boot' = [boot EXCEPT !.settled = TRUE] /\ UNCHANGED <<window, displayDue, focused>>
    BY <1>6 DEF Settle
  <2>2. boot' \in Boots /\ boot'.apply = boot.apply /\ boot'.left = boot.left
    BY <2>1 DEF ShownTypes, Boots
  <2> QED
    BY <2>1, <2>2 DEF ShownTypes, WindowInv, ModeKnown, Excused
<1>7. CASE WarmRender \/ Present
  BY <1>7, PresentedWindow DEF WarmRender, Present
<1>8. CASE ScriptStep
  <2>1. UNCHANGED <<boot, displayDue, focused>>
    BY <1>8 DEF ScriptStep
  <2>2. window' = window \/ PressBackquote \/ PressEscape
    BY <1>8 DEF ScriptStep, ScriptKey
  <2> QED
    BY <2>1, <2>2, HandledWindow, WindowKept
<1>9. CASE Ui
  BY <1>9, UiWindow
<1>10. CASE UNCHANGED <<window, boot, displayDue, focused>>
  BY <1>10 DEF ShownTypes, WindowInv, ModeKnown, Excused
<1>11. ASSUME NEW k \in Key, Press(k) \/ Release(k) PROVE UNCHANGED <<window, boot, displayDue, focused>>
  BY <1>11 DEF Press, Release, shown
<1>12. ASSUME NEW c \in {"start", "resume", "quit"} \cup Mode, Click(c)
       PROVE  UNCHANGED <<window, boot, displayDue, focused>>
  BY <1>12 DEF Click, shown
<1>13. CASE Skip \/ CommandReload \/ CommandReplay
  BY <1>13, <1>10 DEF Skip, CommandReload, CommandReplay, shown
<1>14. CASE NoScriptStep \/ Replay \/ NotPresented \/ (\E over \in BOOLEAN : BeginFrame(over))
            \/ (\E b \in BOOLEAN : Video(b) \/ Reload(b))
  BY <1>14, <1>10 DEF NoScriptStep, Replay, NotPresented, BeginFrame, Video, Reload, shown
<1> QED
  BY <1>1, <1>2, <1>3, <1>4, <1>5, <1>6, <1>7, <1>8, <1>9, <1>10, <1>11, <1>12, <1>13, <1>14
  DEF Next, UserEvent, FrameStep

-------------------------------------------------------------------------------
(* The keys.                                                               *)
LEMMA KeysKept ==
    ASSUME KeyTypes, KeysInv, UNCHANGED <<input, keys, excused, focused>>,
           Layer # "game" \/ Layer' = "game"
    PROVE  KeyTypes' /\ KeysInv'
BY DEF KeyTypes, KeysInv, NoStuckKey

LEMMA LayerKept == UNCHANGED <<console, menu>> => Layer' = Layer
BY DEF Layer, Blocking

LEMMA HandledKeys ==
    ASSUME KeyTypes, KeysInv, PressBackquote \/ PressEscape, focused' = focused
    PROVE  KeyTypes' /\ KeysInv'
<1>1. CASE Released
  BY <1>1 DEF Released, KeyTypes, KeysInv, NoStuckKey
<1>2. CASE ~Released
  <2>1. CloseConsole(TRUE, TRUE) \/ ResumePause
    BY <1>2 DEF PressBackquote, PressEscape, OpenConsole, OpenPause
  <2>2. UNCHANGED <<input, keys, excused>>
    BY <2>1 DEF CloseConsole, ResumePause, held
  <2>3. Layer # "game"
    BY <1>2 DEF PressBackquote, PressEscape, OpenConsole, OpenPause, Layer, Blocking
  <2> QED
    BY <2>2, <2>3, KeysKept
<1> QED
  BY <1>1, <1>2

LEMMA MovieKeys ==
    ASSUME KeyTypes, KeysInv, MovieEnds, UNCHANGED <<console, focused>>
    PROVE  KeyTypes' /\ KeysInv'
<1>1. CASE video = 1
  <2>1. excused' = excused \cup input /\ UNCHANGED <<input, keys>>
    BY <1>1 DEF MovieEnds, MoviesOver
  <2> QED
    BY <2>1 DEF KeyTypes, KeysInv, NoStuckKey
<1>2. CASE video # 1
  <2>1. UNCHANGED <<input, keys, excused, menu>>
    BY <1>2 DEF MovieEnds, held
  <2> QED
    BY <2>1, KeysKept, LayerKept
<1> QED
  BY <1>1, <1>2

(* A key whose release the game may miss is excused, or was let go of      *)
(* when the game was covered.                                              *)
LEMMA KeysStep ==
    ASSUME KeyTypes, KeysInv, CoverTypes, Next
    PROVE  KeyTypes' /\ KeysInv'
<1>1. ASSUME NEW k \in Key, Press(k) PROVE KeyTypes' /\ KeysInv'
  <2>1. /\ focused /\ focused' = focused /\ keys' = keys \cup {k}
        /\ input' = (IF Layer = "game" THEN input \cup {k} ELSE input)
        /\ excused' = (IF Layer = "game" THEN excused \ {k} ELSE excused)
        /\ UNCHANGED <<console, menu>>
    BY <1>1 DEF Press, shown
  <2>2. Layer' = Layer
    BY <2>1, LayerKept
  <2> QED
    BY <2>1, <2>2 DEF KeyTypes, KeysInv, NoStuckKey
<1>2. ASSUME NEW k \in Key, Release(k) PROVE KeyTypes' /\ KeysInv'
  <2>1. /\ focused' = focused /\ keys' = keys \ {k} /\ UNCHANGED <<console, menu>>
        /\ IF focused /\ Layer = "game"
           THEN input' = input \ {k} /\ excused' = excused \ {k}
           ELSE UNCHANGED <<input, excused>>
    BY <1>2 DEF Release, shown
  <2>2. Layer' = Layer
    BY <2>1, LayerKept
  <2> QED
    BY <2>1, <2>2 DEF KeyTypes, KeysInv, NoStuckKey
<1>3. CASE Backquote \/ Escape
  BY <1>3, HandledKeys DEF Backquote, Escape
<1>4. CASE Skip
  BY <1>4, MovieKeys DEF Skip, shown
<1>5. CASE FocusLost
  <2>1. excused' = excused \cup input /\ UNCHANGED <<input, keys>>
    BY <1>5 DEF FocusLost
  <2> QED
    BY <2>1 DEF KeyTypes, KeysInv, NoStuckKey
<1>6. CASE FocusGained
  <2>1. ~focused /\ UNCHANGED <<input, keys, excused>>
    BY <1>6 DEF FocusGained, held
  <2> QED
    BY <2>1 DEF KeyTypes, KeysInv, NoStuckKey
<1>7. ASSUME NEW over \in BOOLEAN, BeginFrame(over) PROVE KeyTypes' /\ KeysInv'
  <2>1. UNCHANGED <<input, keys, excused, focused, menu>>
    BY <1>7 DEF BeginFrame, held, shown
  <2>2. console' = console \/ Layer # "game"
    BY <1>7 DEF BeginFrame, Layer, Blocking, CoverTypes, Consoles
  <2> QED
    BY <2>1, <2>2, KeysKept, LayerKept
<1>8. CASE ScriptStep
  <2>1. focused' = focused
    BY <1>8 DEF ScriptStep
  <2>2. CASE ScriptKey
    BY <2>1, <2>2, HandledKeys DEF ScriptKey
  <2>3. CASE ~ScriptKey
    <3>1. UNCHANGED <<input, keys, excused, console>> /\ (menu' = menu \/ menu' = MenuClosed)
      BY <1>8, <2>3 DEF ScriptStep, ScriptStarts, held
    <3>2. Layer # "game" \/ Layer' = "game"
      BY <3>1 DEF MenuClosed, Layer, Blocking, CoverTypes, Menus
    <3> QED
      BY <2>1, <3>1, <3>2, KeysKept
  <2> QED
    BY <2>2, <2>3
<1>9. CASE Ui
  <2>1. UNCHANGED <<input, keys, excused, console, focused>> /\ (menu' = menu \/ menu' = MenuClosed)
    BY <1>9 DEF Ui, StartMap, held
  <2>2. Layer # "game" \/ Layer' = "game"
    BY <2>1 DEF MenuClosed, Layer, Blocking, CoverTypes, Menus
  <2> QED
    BY <2>1, <2>2, KeysKept
<1>10. ASSUME NEW ends \in BOOLEAN, Video(ends) PROVE KeyTypes' /\ KeysInv'
  <2>1. UNCHANGED <<console, focused>>
    BY <1>10 DEF Video, shown
  <2>2. CASE ends
    BY <1>10, <2>1, <2>2, MovieKeys DEF Video
  <2>3. CASE ~ends
    <3>1. UNCHANGED <<menu, input, keys, excused>>
      BY <1>10, <2>3 DEF Video, held
    <3> QED
      BY <2>1, <3>1, KeysKept, LayerKept
  <2> QED
    BY <2>2, <2>3
<1>11. CASE Replay
  <2>1. UNCHANGED <<console, menu, focused>>
    BY <1>11 DEF Replay, shown
  <2>2. CASE replay > 1
    <3>1. input' \subseteq Key /\ excused' = excused \cup input' /\ keys' = keys
      BY <1>11, <2>2 DEF Replay
    <3> QED
      BY <3>1 DEF KeyTypes, KeysInv, NoStuckKey
  <2>3. CASE ~(replay > 1)
    <3>1. UNCHANGED <<input, keys, excused>>
      BY <1>11, <2>3 DEF Replay, held
    <3> QED
      BY <2>1, <3>1, KeysKept, LayerKept
  <2> QED
    BY <2>2, <2>3
<1>12. CASE UNCHANGED <<input, keys, excused, focused, console, menu>>
  BY <1>12, KeysKept, LayerKept
<1>13. CASE AltEnter \/ Resized \/ CommandReload \/ CommandReplay \/ (\E m \in Mode : CommandMode(m))
            \/ (\E c \in {"start", "resume", "quit"} \cup Mode : Click(c))
  BY <1>12, <1>13 DEF AltEnter, Resized, CommandReload, CommandReplay, CommandMode, Click, held, shown
<1>14. CASE Settle \/ WarmRender \/ NoScriptStep \/ Present \/ NotPresented
            \/ (\E loads \in BOOLEAN : Reload(loads))
  BY <1>12, <1>14 DEF Settle, WarmRender, NoScriptStep, Present, NotPresented, Reload, held, shown
<1> QED
  BY <1>1, <1>2, <1>3, <1>4, <1>5, <1>6, <1>7, <1>8, <1>9, <1>10, <1>11, <1>12, <1>13, <1>14
  DEF Next, UserEvent, FrameStep

-------------------------------------------------------------------------------
(* Movies, menus and scenes.                                               *)
LEMMA MenuOps ==
    /\ Title \in Menus /\ Title.open /\ Title.mode = "title"
    /\ Pause \in Menus /\ Pause.open /\ Pause.mode = "pause"
    /\ menu \in Menus => MenuClosed \in Menus /\ ~MenuClosed.open
BY DEF Title, Pause, MenuClosed, Menus

LEMMA HandledScene ==
    ASSUME CoverTypes, FlagTypes, CountTypes, SceneInv, PressBackquote \/ PressEscape,
           UNCHANGED <<video, reloads, scene>>
    PROVE  menu' \in Menus /\ SceneInv'
<1>1. CASE OpenConsole /\ UNCHANGED <<menu, wasLook>>
  BY <1>1 DEF OpenConsole, CoverTypes, SceneInv
<1>2. CASE CloseConsole(TRUE, TRUE) /\ UNCHANGED <<menu, wasLook>>
  BY <1>2 DEF CloseConsole, Recaptures, CoverTypes, SceneInv
<1>3. CASE ResumePause
  <2>1. menu' \in Menus /\ ~menu'.open /\ look' = wasLook /\ wasLook' = wasLook
    BY <1>3, MenuOps DEF ResumePause, CoverTypes
  <2> QED
    BY <2>1 DEF SceneInv
<1>4. CASE OpenPause /\ scene
  <2>1. menu' \in Menus /\ menu'.mode = "pause" /\ ~look' /\ ~(video > 0)
    BY <1>4, MenuOps DEF OpenPause, SceneInv
  <2> QED
    BY <1>4, <2>1 DEF SceneInv
<1> QED
  BY <1>1, <1>2, <1>3, <1>4 DEF PressBackquote, PressEscape

LEMMA MovieScene ==
    ASSUME CoverTypes, CountTypes, SceneInv, video > 0, MovieEnds,
           UNCHANGED <<reloads, scene, look, wasLook>>
    PROVE  menu' \in Menus /\ SceneInv'
<1>1. video' = video - 1 /\ video \in Int
  BY DEF MovieEnds, CountTypes
<1>2. CASE video = 1
  <2>1. menu' = Title
    BY <1>2 DEF MovieEnds, MoviesOver
  <2> QED
    BY <1>1, <1>2, <2>1, MenuOps DEF SceneInv
<1>3. CASE video # 1
  BY <1>1, <1>3 DEF MovieEnds, CoverTypes, SceneInv
<1> QED
  BY <1>2, <1>3

LEMMA ScriptScene ==
    ASSUME CoverTypes, FlagTypes, CountTypes, SceneInv, ScriptStep
    PROVE  menu' \in Menus /\ SceneInv'
<1>1. UNCHANGED <<video, reloads>>
  BY DEF ScriptStep
<1>2. CASE ScriptStarts /\ wasLook' = wasLook
  <2>1. CASE UNCHANGED <<menu, look, scene>>
    BY <1>1, <1>2, <2>1 DEF CoverTypes, SceneInv
  <2>2. CASE ~UNCHANGED <<menu, look, scene>>
    <3>1. PICK loads \in IF scene THEN {TRUE} ELSE BOOLEAN :
            /\ scene' = (scene \/ loads)
            /\ look' = (look \/ loads)
            /\ menu' = IF loads /\ ~scene THEN MenuClosed ELSE menu
      BY <1>2, <2>2 DEF ScriptStarts, EnterMap
    <3>2. ~(video > 0)
      <4>1. video = 0
        BY <1>2, <2>2, Zenon DEF ScriptStarts
      <4> QED
        BY <4>1
    <3>3. loads \in BOOLEAN /\ menu' \in Menus /\ (loads /\ ~scene => ~menu'.open)
      BY <3>1, MenuOps DEF CoverTypes
    <3> QED
      <4>1. loads \/ scene => scene'
        BY <3>1
      <4>2. ~loads => menu' = menu /\ (look' => look) /\ (scene' => scene)
        BY <3>1
      <4>3. scene => menu' = menu
        BY <3>1
      <4>4. wasLook' = wasLook /\ UNCHANGED <<video, reloads>>
        BY <1>1, <1>2
      <4>5. look' \/ wasLook' => scene'
        BY <3>1, <4>1, <4>2, <4>4 DEF SceneInv
      <4>6. menu'.open /\ menu'.mode = "title" => ~scene'
        BY <3>3, <4>2, <4>3 DEF SceneInv
      <4> QED
        BY <3>2, <3>3, <4>1, <4>4, <4>5, <4>6 DEF SceneInv
  <2> QED
    BY <2>1, <2>2
<1>3. CASE ScriptKey
  BY <1>1, <1>3, HandledScene DEF ScriptKey
<1>4. CASE UNCHANGED <<menu, wasLook, scene>> /\ (look' => look \/ scene)
  BY <1>1, <1>4 DEF CoverTypes, SceneInv
<1>5. CASE script = 8 /\ look' = (look \/ scene) /\ UNCHANGED <<menu, wasLook, scene>>
  BY <1>4, <1>5
<1>6. CASE UNCHANGED <<menu, wasLook, scene, look>>
  BY <1>4, <1>6
<1> QED
  BY <1>2, <1>3, <1>5, <1>6 DEF ScriptStep

LEMMA UiScene ==
    ASSUME CoverTypes, FlagTypes, CountTypes, SceneInv, Ui
    PROVE  menu' \in Menus /\ SceneInv'
<1>1. UNCHANGED <<video, reloads, wasLook>>
  BY DEF Ui
<1>2. CASE UNCHANGED <<menu, look, scene>>
  BY <1>1, <1>2 DEF CoverTypes, SceneInv
<1>3. ASSUME NEW loads \in BOOLEAN, StartMap(loads), menu.open PROVE menu' \in Menus /\ SceneInv'
  <2>1. ~(video > 0)
    BY <1>3 DEF SceneInv
  <2>2. CASE loads
    <3>1. menu' \in Menus /\ ~menu'.open /\ scene'
      BY <1>3, <2>2, MenuOps DEF StartMap, EnterMap, CoverTypes
    <3> QED
      BY <1>1, <2>1, <3>1 DEF SceneInv
  <2>3. CASE ~loads
    <3>1. UNCHANGED <<menu, look>> /\ scene' = (scene \/ loads)
      BY <1>3, <2>3 DEF StartMap, EnterMap
    <3> QED
      BY <1>1, <2>1, <2>3, <3>1 DEF CoverTypes, SceneInv
  <2> QED
    BY <2>2, <2>3
<1>4. CASE menu' = MenuClosed /\ look' = wasLook /\ scene' = scene
  <2>1. menu' \in Menus /\ ~menu'.open
    BY <1>4, MenuOps DEF CoverTypes
  <2> QED
    BY <1>1, <1>4, <2>1 DEF SceneInv
<1>5. CASE Served = "start" /\ map
  <2>1. menu.open
    BY <1>5 DEF Served, NoClick
  <2>2. PICK loads \in BOOLEAN : StartMap(loads)
    BY <1>5 DEF Ui
  <2> QED
    BY <1>3, <2>1, <2>2
<1>6. CASE Served = "resume"
  BY <1>4, <1>6 DEF Ui
<1>7. CASE ~(Served = "start" /\ map) /\ Served # "resume"
  BY <1>2, <1>7 DEF Ui
<1> QED
  BY <1>5, <1>6, <1>7

LEMMA SceneStep ==
    ASSUME CoverTypes, FlagTypes, CountTypes, SceneInv, Next
    PROVE  menu' \in Menus /\ SceneInv'
<1>1. CASE Backquote \/ Escape
  BY <1>1, HandledScene DEF Backquote, Escape, played
<1>2. CASE Skip
  BY <1>2, MovieScene DEF Skip, cursor
<1>3. CASE FocusLost
  <2>1. UNCHANGED <<menu, wasLook, video, reloads, scene>> /\ ~look'
    BY <1>3 DEF FocusLost, LookAway, Recaptures, played
  <2> QED
    BY <2>1 DEF CoverTypes, SceneInv
<1>4. CASE FocusGained
  <2>1. UNCHANGED <<menu, wasLook, video, reloads, scene>> /\ (look' => look \/ scene)
    BY <1>4 DEF FocusGained, played
  <2> QED
    BY <2>1 DEF CoverTypes, SceneInv
<1>5. CASE CommandReload
  <2>1. scene /\ UNCHANGED <<menu, look, wasLook, video, scene>>
    BY <1>5 DEF CommandReload, cursor
  <2> QED
    BY <2>1 DEF CoverTypes, SceneInv
<1>6. CASE ScriptStep
  BY <1>6, ScriptScene
<1>7. CASE Ui
  BY <1>7, UiScene
<1>8. ASSUME NEW ends \in BOOLEAN, Video(ends) PROVE menu' \in Menus /\ SceneInv'
  <2>1. video > 0 /\ UNCHANGED <<reloads, scene, look, wasLook>>
    BY <1>8 DEF Video, cursor
  <2>2. CASE ends
    BY <1>8, <2>1, <2>2, MovieScene DEF Video
  <2>3. CASE ~ends
    BY <1>8, <2>1, <2>3 DEF Video, CoverTypes, SceneInv
  <2> QED
    BY <2>2, <2>3
<1>9. ASSUME NEW loads \in BOOLEAN, Reload(loads) PROVE menu' \in Menus /\ SceneInv'
  <2>1. /\ reloads > 0 /\ scene' = (scene \/ loads) /\ look' = (look /\ ~loads)
        /\ UNCHANGED <<menu, wasLook, video>>
    BY <1>9 DEF Reload, EnterMap
  <2>2. scene /\ scene'
    BY <2>1 DEF SceneInv
  <2> QED
    BY <2>1, <2>2 DEF CoverTypes, SceneInv
<1>10. CASE UNCHANGED <<menu, look, wasLook, video, reloads, scene>>
  BY <1>10 DEF CoverTypes, SceneInv
<1>11. CASE AltEnter \/ Resized \/ CommandReplay \/ (\E m \in Mode : CommandMode(m))
            \/ (\E k \in Key : Press(k) \/ Release(k))
            \/ (\E c \in {"start", "resume", "quit"} \cup Mode : Click(c))
  BY <1>10, <1>11 DEF AltEnter, Resized, CommandReplay, CommandMode, Press, Release, Click, played, cursor
<1>12. CASE Settle \/ WarmRender \/ NoScriptStep \/ Replay \/ Present \/ NotPresented
            \/ (\E over \in BOOLEAN : BeginFrame(over))
  BY <1>10, <1>12 DEF Settle, WarmRender, NoScriptStep, Replay, Present, NotPresented, BeginFrame,
                      played, cursor
<1> QED
  BY <1>1, <1>2, <1>3, <1>4, <1>5, <1>6, <1>7, <1>8, <1>9, <1>10, <1>11, <1>12
  DEF Next, UserEvent, FrameStep

-------------------------------------------------------------------------------
(* The mouse.                                                              *)
LEMMA HandledLook ==
    ASSUME CoverTypes, FlagTypes, Remembers, focused,
           UNCHANGED <<focused, scene>>, PressBackquote \/ PressEscape
    PROVE  Remembers'
<1>1. CASE OpenConsole /\ Settled /\ UNCHANGED <<menu, wasLook>>
  <2>1. /\ console'.phase \in {"opening", "open"} /\ console'.resume = look /\ ~look'
        /\ lookLost' = lookLost
    BY <1>1 DEF OpenConsole, LooksNow
  <2> QED
    BY <1>1, <2>1 DEF Remembers, Settled
<1>2. CASE CloseConsole(TRUE, TRUE) /\ UNCHANGED <<menu, wasLook>>
  <2>1. console'.phase \in {"closing", "closed"}
    BY <1>2 DEF CloseConsole
  <2>2. /\ look' => look \/ (console.resume /\ ~menu.open)
        /\ look => look'
        /\ scene /\ console.resume /\ ~menu.open => look'
        /\ lookLost /\ ~look' => lookLost'
    BY <1>2 DEF CloseConsole, Recaptures
  <2>3. scene /\ menu.open => wasLook' \/ lookLost'
    BY <1>2, <2>2 DEF Remembers
  <2> QED
    BY <1>2, <2>1, <2>2, <2>3 DEF Remembers, Settled
<1>3. CASE ResumePause /\ ~Blocking /\ menu.open
  <2>1. /\ ~menu'.open /\ look' = wasLook /\ console' = console
        /\ lookLost /\ ~look' => lookLost'
    BY <1>3, MenuOps DEF ResumePause, CoverTypes
  <2> QED
    BY <1>3, <2>1 DEF Remembers, Settled, Blocking
<1>4. CASE OpenPause /\ ~Blocking /\ ~menu.open
  <2>1. /\ menu'.open /\ wasLook' = look /\ ~look' /\ UNCHANGED <<console, lookLost>>
    BY <1>4, MenuOps DEF OpenPause
  <2> QED
    BY <1>4, <2>1 DEF Remembers, Settled, Blocking
<1>5. CASE PressBackquote
  <2>1. console.phase \in {"opening", "open"} \/ Settled
    BY DEF CoverTypes, Consoles, Phases, Settled
  <2> QED
    BY <1>1, <1>2, <1>5, <2>1 DEF PressBackquote
<1> QED
  BY <1>2, <1>3, <1>4, <1>5 DEF PressEscape

LEMMA LookKept ==
    ASSUME LookInv, UNCHANGED <<look, console, menu, wasLook, focusResume, focused, scene, script>>,
           raced => raced', lookLost /\ ~look => lookLost'
    PROVE  LookInv'
<1>1. SUFFICES ASSUME Undisturbed' PROVE Remembers'
  BY DEF LookInv
<1>2. Remembers
  BY <1>1 DEF LookInv, Undisturbed
<1> QED
  BY <1>2 DEF Remembers, Settled, Blocking

LEMMA NoSceneLook ==
    ASSUME SceneInv, UNCHANGED <<look, scene>>, ~scene
    PROVE  LookInv'
BY DEF SceneInv, LookInv, Remembers

LEMMA UiLook ==
    ASSUME CoverTypes, FlagTypes, SceneInv, LookInv, Ui
    PROVE  LookInv'
<1>1. /\ UNCHANGED <<wasLook, focusResume, focused, console, script>>
      /\ raced => raced'
      /\ ~raced' /\ look' => ~Blocking' /\ ~menu'.open /\ focused
      /\ lookLost /\ ~look' => lookLost'
  BY DEF Ui, Races, Regained
<1>2. SUFFICES ASSUME script' = Done, ~raced' PROVE Remembers'
  BY DEF LookInv, Undisturbed
<1>3. Remembers
  BY <1>1, <1>2 DEF LookInv, Undisturbed
<1>4. CASE UNCHANGED <<menu, look, scene>>
  BY <1>1, <1>3, <1>4, LookKept, <1>2 DEF LookInv, Undisturbed
<1>5. ASSUME look', ~menu'.open PROVE Remembers'
  BY <1>1, <1>2, <1>5 DEF Remembers, Settled, Blocking
<1>6. ASSUME NEW loads \in BOOLEAN, StartMap(loads) PROVE Remembers'
  <2>1. CASE loads
    BY <1>5, <1>6, <2>1, MenuOps DEF StartMap, CoverTypes
  <2>2. CASE ~loads
    BY <1>4, <1>6, <2>2 DEF StartMap, EnterMap, FlagTypes
  <2> QED
    BY <2>1, <2>2
<1>7. CASE menu.open /\ menu' = MenuClosed /\ look' = wasLook /\ scene' = scene
  <2>1. ~menu'.open
    BY <1>7, MenuOps DEF CoverTypes
  <2>2. CASE look'
    BY <1>5, <2>1, <2>2
  <2>3. CASE ~look'
    BY <1>1, <1>3, <1>7, <2>1, <2>3 DEF Remembers
  <2> QED
    BY <2>2, <2>3
<1>8. CASE Served = "start" /\ map
  BY <1>6, <1>8 DEF Ui
<1>9. CASE Served = "resume"
  <2>1. menu.open
    BY <1>9 DEF Served, NoClick
  <2> QED
    BY <1>7, <1>9, <2>1 DEF Ui
<1>10. CASE ~(Served = "start" /\ map) /\ Served # "resume"
  BY <1>4, <1>10 DEF Ui
<1> QED
  BY <1>8, <1>9, <1>10

LEMMA ScriptLook ==
    ASSUME CoverTypes, FlagTypes, CountTypes, SceneInv, ScriptStep
    PROVE  LookInv'
<1>1. SUFFICES ASSUME script' = Done, ~raced' PROVE Remembers'
  BY DEF LookInv, Undisturbed
<1>2. CASE script = 0 /\ ScriptStarts
  <2>1. ~scene'
    <3>1. CASE script' = script
      BY <1>1, <1>2, <3>1 DEF Done
    <3>2. ASSUME NEW loads \in IF scene THEN {TRUE} ELSE BOOLEAN,
                 scene' = (scene \/ loads), script' = IF loads THEN 1 ELSE Done
          PROVE  ~scene'
      <4>1. ~loads
        BY <1>1, <3>2 DEF Done
      <4>2. ~scene
        BY <4>1, <3>2
      <4> QED
        BY <4>1, <4>2, <3>2
    <3>3. CASE scene' = scene /\ ~scene
      BY <3>3
    <3> QED
      BY <1>2, <3>1, <3>2, <3>3 DEF ScriptStarts, EnterMap
  <2>2. ~look'
    BY <2>1, ScriptScene DEF SceneInv
  <2> QED
    BY <2>1, <2>2 DEF Remembers
<1>3. CASE script = 8 /\ look' = (look \/ scene) /\ UNCHANGED <<menu, wasLook, scene>>
  <2>1. look' => ~Blocking' /\ ~menu'.open /\ focused'
    BY <1>1 DEF ScriptStep, Races
  <2>2. (look' => scene') /\ (scene' => look')
    BY <1>3 DEF SceneInv
  <2> QED
    BY <2>1, <2>2 DEF Remembers, Settled, Blocking
<1>4. CASE script \in {1, 2, 3, 4, 5, 6, 7} /\ script' = script + 1
  BY <1>1, <1>4 DEF Done
<1> QED
  BY <1>2, <1>3, <1>4 DEF ScriptStep, ScriptKey

LEMMA LookStep ==
    ASSUME CoverTypes, FlagTypes, CountTypes, SceneInv, LookInv, Next
    PROVE  LookInv'
<1>1. CASE Backquote \/ Escape
  <2>1. /\ focused /\ UNCHANGED <<focused, scene, script, raced>>
        /\ PressBackquote \/ PressEscape
    BY <1>1 DEF Backquote, Escape, played
  <2> QED
    BY <2>1, HandledLook DEF LookInv, Undisturbed
<1>2. CASE Skip
  <2>1. ~scene /\ UNCHANGED <<look, scene>>
    BY <1>2 DEF Skip, SceneInv, cursor
  <2> QED
    BY <2>1, NoSceneLook
<1>3. CASE FocusLost
  <2>1. /\ UNCHANGED <<menu, wasLook, raced, scene, script>> /\ ~focused' /\ focused /\ ~look'
        /\ focusResume' = look /\ (lookLost \/ Blocking => lookLost')
        /\ ~Blocking => console' = console
    BY <1>3 DEF FocusLost, LookAway, Recaptures, played
  <2> QED
    BY <2>1 DEF LookInv, Undisturbed, Remembers, Settled, Blocking
<1>4. CASE FocusGained
  <2>1. /\ UNCHANGED <<console, menu, wasLook, raced, scene, script>> /\ focused' /\ ~focused
        /\ look' => look \/ (~menu.open /\ ~Blocking)
        /\ focusResume /\ scene /\ ~menu.open /\ ~Blocking => look'
        /\ lookLost /\ ~look' => lookLost'
    BY <1>4 DEF FocusGained, played
  <2> QED
    BY <2>1 DEF LookInv, Undisturbed, Remembers, Settled, Blocking
<1>5. ASSUME NEW over \in BOOLEAN, BeginFrame(over) PROVE LookInv'
  <2>1. /\ UNCHANGED <<menu, look, wasLook, focusResume, focused, scene, script, lookLost, raced>>
        /\ console'.resume = console.resume
        /\ Settled' <=> Settled
        /\ Blocking' => Blocking
    BY <1>5 DEF BeginFrame, cursor, shown, played, CoverTypes, Consoles, Settled, Blocking
  <2> QED
    BY <2>1 DEF LookInv, Undisturbed, Remembers
<1>6. CASE ScriptStep
  BY <1>6, ScriptLook
<1>7. CASE Ui
  BY <1>7, UiLook
<1>8. ASSUME NEW ends \in BOOLEAN, Video(ends) PROVE LookInv'
  <2>1. ~scene /\ UNCHANGED <<look, scene>>
    BY <1>8 DEF Video, SceneInv, cursor
  <2> QED
    BY <2>1, NoSceneLook
<1>9. ASSUME NEW loads \in BOOLEAN, Reload(loads) PROVE LookInv'
  <2>1. /\ UNCHANGED <<console, menu, wasLook, focusResume, raced, script, focused>>
        /\ scene' = (scene \/ loads) /\ scene
    BY <1>9 DEF Reload, EnterMap, shown, SceneInv
  <2>2. CASE loads
    BY <1>9, <2>1, <2>2 DEF Reload, LookInv, Undisturbed, Remembers
  <2>3. CASE ~loads
    <3>1. UNCHANGED <<scene, look, lookLost>>
      BY <1>9, <2>1, <2>3 DEF Reload, FlagTypes
    <3> QED
      BY <2>1, <3>1, LookKept
  <2> QED
    BY <2>2, <2>3
<1>10. CASE UNCHANGED <<cursor, console, menu, focused, scene, script>>
  BY <1>10, LookKept DEF cursor
<1>11. CASE AltEnter \/ Resized \/ CommandReplay \/ CommandReload \/ (\E m \in Mode : CommandMode(m))
            \/ (\E k \in Key : Press(k) \/ Release(k))
            \/ (\E c \in {"start", "resume", "quit"} \cup Mode : Click(c))
  BY <1>10, <1>11 DEF AltEnter, Resized, CommandReplay, CommandReload, CommandMode, Press, Release,
                      Click, played, shown
<1>12. CASE Settle \/ WarmRender \/ NoScriptStep \/ Replay \/ Present \/ NotPresented
  BY <1>10, <1>12 DEF Settle, WarmRender, NoScriptStep, Replay, Present, NotPresented, played, shown
<1> QED
  BY <1>1, <1>2, <1>3, <1>4, <1>5, <1>6, <1>7, <1>8, <1>9, <1>10, <1>11, <1>12
  DEF Next, UserEvent, FrameStep

-------------------------------------------------------------------------------
(* The types of the rest.                                                  *)
LEMMA FlagTypesStep ==
    ASSUME CoverTypes, FlagTypes, Next
    PROVE  FlagTypes'
<1>1. CASE AltEnter
  BY <1>1 DEF AltEnter, FlagTypes, cursor, played
<1>2. CASE Backquote
  BY <1>2 DEF Backquote, PressBackquote, OpenConsole, CloseConsole, FlagTypes, played
<1>3. CASE Escape
  BY <1>3 DEF Escape, PressEscape, CloseConsole, ResumePause, OpenPause, FlagTypes, played
<1>4. CASE Skip
  BY <1>4 DEF Skip, FlagTypes, cursor, shown
<1>5. CASE FocusLost
  BY <1>5 DEF FocusLost, LookAway, Recaptures, FlagTypes, played
<1>6. CASE FocusGained
  BY <1>6 DEF FocusGained, FlagTypes, played
<1>7. CASE Resized
  BY <1>7 DEF Resized, FlagTypes, cursor, played
<1>8. CASE CommandReload
  BY <1>8 DEF CommandReload, FlagTypes, cursor, shown
<1>9. CASE CommandReplay
  BY <1>9 DEF CommandReplay, FlagTypes, cursor, shown
<1>10. ASSUME NEW k \in Key, Press(k) PROVE FlagTypes'
  BY <1>10 DEF Press, FlagTypes, cursor, shown, played
<1>11. ASSUME NEW k \in Key, Release(k) PROVE FlagTypes'
  BY <1>11 DEF Release, FlagTypes, cursor, shown, played
<1>12. ASSUME NEW c \in {"start", "resume", "quit"} \cup Mode, Click(c) PROVE FlagTypes'
  BY <1>12 DEF Click, FlagTypes, cursor, shown, played
<1>13. ASSUME NEW m \in Mode, CommandMode(m) PROVE FlagTypes'
  BY <1>13 DEF CommandMode, FlagTypes, cursor, played
<1>14. CASE Settle
  BY <1>14 DEF Settle, FlagTypes, cursor, played
<1>15. CASE WarmRender
  BY <1>15 DEF WarmRender, Presented, ShownNow, FlagTypes, cursor, played
<1>16. ASSUME NEW over \in BOOLEAN, BeginFrame(over) PROVE FlagTypes'
  BY <1>16 DEF BeginFrame, FlagTypes, cursor, shown, played
<1>17. CASE ScriptStep
  BY <1>17
  DEF ScriptStep, ScriptStarts, ScriptKey, PressEscape, PressBackquote, OpenConsole,
      CloseConsole, ResumePause, OpenPause, EnterMap, Regained, Races, FlagTypes
<1>18. CASE NoScriptStep
  BY <1>18 DEF NoScriptStep, FlagTypes, cursor, shown, played
<1>19. CASE Ui
  BY <1>19 DEF Ui, StartMap, EnterMap, Races, Regained, FlagTypes
<1>20. ASSUME NEW ends \in BOOLEAN, Video(ends) PROVE FlagTypes'
  BY <1>20 DEF Video, FlagTypes, cursor, shown
<1>21. ASSUME NEW loads \in BOOLEAN, Reload(loads) PROVE FlagTypes'
  BY <1>21 DEF Reload, EnterMap, FlagTypes, shown
<1>22. CASE Replay
  BY <1>22 DEF Replay, FlagTypes, cursor, shown
<1>23. CASE Present
  BY <1>23 DEF Present, Presented, ShownNow, FlagTypes, cursor, played
<1>24. CASE NotPresented
  BY <1>24 DEF NotPresented, FlagTypes, cursor, shown, played
<1> QED
  BY <1>1, <1>2, <1>3, <1>4, <1>5, <1>6, <1>7, <1>8, <1>9, <1>10, <1>11, <1>12, <1>13, <1>14,
     <1>15, <1>16, <1>17, <1>18, <1>19, <1>20, <1>21, <1>22, <1>23, <1>24
  DEF Next, UserEvent, FrameStep

LEMMA PlaceTypesStep ==
    ASSUME PlaceTypes, Next
    PROVE  PlaceTypes'
<1>1. CASE AltEnter \/ Backquote \/ Escape \/ Skip \/ FocusLost \/ FocusGained \/ Resized
  BY <1>1 DEF AltEnter, Backquote, Escape, Skip, FocusLost, FocusGained, Resized, Event, PlaceTypes
<1>2. CASE CommandReload \/ CommandReplay \/ (\E m \in Mode : CommandMode(m))
           \/ (\E k \in Key : Press(k) \/ Release(k))
  BY <1>2 DEF CommandReload, CommandReplay, CommandMode, Press, Release, Event, PlaceTypes
<1>3. ASSUME NEW c \in {"start", "resume", "quit"} \cup Mode, Click(c) PROVE PlaceTypes'
  BY <1>3 DEF Click, PlaceTypes
<1>4. CASE Settle \/ WarmRender \/ ScriptStep \/ NoScriptStep \/ Replay \/ Present \/ NotPresented
  BY <1>4 DEF Settle, WarmRender, ScriptStep, NoScriptStep, Replay, Present, NotPresented, PlaceTypes
<1>5. CASE (\E over \in BOOLEAN : BeginFrame(over)) \/ Ui
  BY <1>5 DEF BeginFrame, Ui, Rest, PlaceTypes, NoClick
<1>6. CASE (\E ends \in BOOLEAN : Video(ends)) \/ (\E loads \in BOOLEAN : Reload(loads))
  BY <1>6 DEF Video, Reload, Rest, PlaceTypes
<1> QED
  BY <1>1, <1>2, <1>3, <1>4, <1>5, <1>6 DEF Next, UserEvent, FrameStep

LEMMA TraceStep ==
    ASSUME CountTypes, Next
    PROVE  TraceDue'
<1>1. CASE AltEnter \/ Backquote \/ Escape \/ Skip \/ FocusLost \/ FocusGained \/ Resized
  BY <1>1 DEF AltEnter, Backquote, Escape, Skip, FocusLost, FocusGained, Resized, Event, TraceDue
<1>2. CASE CommandReload \/ CommandReplay \/ (\E m \in Mode : CommandMode(m))
           \/ (\E k \in Key : Press(k) \/ Release(k))
           \/ (\E c \in {"start", "resume", "quit"} \cup Mode : Click(c))
  BY <1>2 DEF CommandReload, CommandReplay, CommandMode, Press, Release, Click, Event, TraceDue
<1>3. CASE Settle \/ WarmRender \/ ScriptStep \/ NoScriptStep \/ Replay \/ Present \/ NotPresented
           \/ (\E over \in BOOLEAN : BeginFrame(over))
  BY <1>3 DEF Settle, WarmRender, ScriptStep, NoScriptStep, Replay, Present, NotPresented,
              BeginFrame, TraceDue
<1>4. ASSUME replay' = replay,
             at' \in {"events", "over", Rest(video, reloads, replay), Rest(0, 0, replay)}
      PROVE  TraceDue'
  BY <1>4 DEF Rest, TraceDue
<1>5. CASE Ui \/ (\E ends \in BOOLEAN : Video(ends)) \/ (\E loads \in BOOLEAN : Reload(loads))
  BY <1>4, <1>5 DEF Ui, Video, Reload
<1> QED
  BY <1>1, <1>2, <1>3, <1>5 DEF Next, UserEvent, FrameStep

LEMMA CountTypesStep ==
    ASSUME CountTypes, TraceDue, Next
    PROVE  CountTypes'
<1>1. ASSUME Event, UNCHANGED played PROVE CountTypes'
  BY <1>1, ShellAssumption DEF Event, CountTypes, played
<1>2. CASE AltEnter \/ Backquote \/ Escape \/ FocusLost \/ FocusGained \/ Resized
           \/ (\E m \in Mode : CommandMode(m)) \/ (\E k \in Key : Press(k) \/ Release(k))
  BY <1>1, <1>2 DEF AltEnter, Backquote, Escape, FocusLost, FocusGained, Resized, CommandMode,
                    Press, Release, played
<1>3. CASE Skip
  BY <1>3, ShellAssumption DEF Skip, Event, MovieEnds, CountTypes
<1>4. CASE CommandReload
  BY <1>4, ShellAssumption DEF CommandReload, Event, CountTypes
<1>5. CASE CommandReplay
  BY <1>5, ShellAssumption DEF CommandReplay, Event, CountTypes
<1>6. ASSUME NEW c \in {"start", "resume", "quit"} \cup Mode, Click(c) PROVE CountTypes'
  BY <1>6, ShellAssumption DEF Click, Event, CountTypes, played
<1>7. CASE UNCHANGED <<played, events>>
  BY <1>7 DEF CountTypes, played
<1>8. CASE Settle \/ WarmRender \/ NoScriptStep \/ Present \/ NotPresented
           \/ (\E over \in BOOLEAN : BeginFrame(over))
  BY <1>7, <1>8 DEF Settle, WarmRender, NoScriptStep, Present, NotPresented, BeginFrame
<1>9. CASE ScriptStep
  <2>1. UNCHANGED <<video, reloads, replay, events>>
    BY <1>9 DEF ScriptStep
  <2>2. script' \in 0..Done
    <3>1. ScriptStarts => script' \in {script, 1, Done}
      BY DEF ScriptStarts
    <3>2. \/ script' \in {script, 1, Done}
          \/ script \in {1, 2, 3, 4, 5, 6, 7} /\ script' = script + 1
      BY <1>9, <3>1 DEF ScriptStep, ScriptKey
    <3> QED
      BY <3>2 DEF CountTypes, Done
  <2> QED
    BY <2>1, <2>2 DEF CountTypes
<1>10. CASE Ui
  BY <1>10 DEF Ui, CountTypes
<1>11. ASSUME NEW ends \in BOOLEAN, Video(ends) PROVE CountTypes'
  BY <1>11, ShellAssumption DEF Video, MovieEnds, CountTypes
<1>12. ASSUME NEW loads \in BOOLEAN, Reload(loads) PROVE CountTypes'
  BY <1>12, ShellAssumption DEF Reload, CountTypes
<1>13. CASE Replay
  <2>1. replay > 0
    BY <1>13 DEF Replay, TraceDue
  <2> QED
    BY <1>13, <2>1, ShellAssumption DEF Replay, CountTypes
<1> QED
  BY <1>2, <1>3, <1>4, <1>5, <1>6, <1>8, <1>9, <1>10, <1>11, <1>12, <1>13
  DEF Next, UserEvent, FrameStep

LEMMA ConsoleTypesStep ==
    ASSUME CoverTypes, FlagTypes, Next
    PROVE  console' \in Consoles
<1>1. ASSUME PressBackquote \/ PressEscape PROVE console' \in Consoles
  <2>1. ASSUME NEW p \in Phases, NEW r \in BOOLEAN
        PROVE  [phase |-> p, resume |-> r] \in Consoles
    BY DEF Consoles
  <2>2. OpenConsole => console' \in Consoles
    BY <2>1 DEF OpenConsole, LooksNow, FlagTypes, Phases
  <2>3. CloseConsole(TRUE, TRUE) => console' \in Consoles
    BY <2>1 DEF CloseConsole, Phases
  <2> QED
    BY <1>1, <2>2, <2>3 DEF PressBackquote, PressEscape, ResumePause, OpenPause, CoverTypes
<1>2. CASE Backquote \/ Escape
  BY <1>1, <1>2 DEF Backquote, Escape
<1>3. CASE FocusLost
  BY <1>3 DEF FocusLost, CoverTypes, Consoles, Phases
<1>4. ASSUME NEW over \in BOOLEAN, BeginFrame(over) PROVE console' \in Consoles
  BY <1>4 DEF BeginFrame, CoverTypes, Consoles, Phases
<1>5. CASE ScriptStep
  BY <1>1, <1>5 DEF ScriptStep, ScriptKey, CoverTypes
<1>6. CASE console' = console
  BY <1>6 DEF CoverTypes
<1>7. CASE AltEnter \/ Skip \/ FocusGained \/ Resized \/ CommandReload \/ CommandReplay
           \/ (\E m \in Mode : CommandMode(m)) \/ (\E k \in Key : Press(k) \/ Release(k))
           \/ (\E c \in {"start", "resume", "quit"} \cup Mode : Click(c))
  BY <1>6, <1>7 DEF AltEnter, Skip, FocusGained, Resized, CommandReload, CommandReplay,
                    CommandMode, Press, Release, Click
<1>8. CASE Settle \/ WarmRender \/ NoScriptStep \/ Ui \/ Replay \/ Present \/ NotPresented
           \/ (\E ends \in BOOLEAN : Video(ends)) \/ (\E loads \in BOOLEAN : Reload(loads))
  BY <1>6, <1>8 DEF Settle, WarmRender, NoScriptStep, Ui, Replay, Present, NotPresented, Video, Reload
<1> QED
  BY <1>2, <1>3, <1>4, <1>5, <1>7, <1>8 DEF Next, UserEvent, FrameStep

-------------------------------------------------------------------------------
LEMMA InitShell == Init => ShellInv
<1> SUFFICES ASSUME Init PROVE ShellInv
  OBVIOUS
<1>1. CoverTypes /\ FlagTypes /\ KeyTypes /\ PlaceTypes
  <2>1. menu \in Menus
    BY DEF Init, Menus
  <2>2. visible \in BOOLEAN
    BY DEF Init
  <2>3. FlagTypes
    BY <2>2 DEF Init, FlagTypes
  <2> QED
    BY <2>1, <2>3 DEF Init, CoverTypes, KeyTypes, PlaceTypes, Consoles, Phases, NoClick
<1>2. CountTypes
  BY ShellAssumption DEF Init, CountTypes, Done
<1>3. TraceDue
  BY DEF Init, TraceDue
<1>4. ShownTypes /\ WindowInv
  <2>1. PICK m \in Mode :
          /\ window = [mode |-> m,
                       is |-> IF m = "fullscreen" THEN "borderless" ELSE m,
                       last |-> m,
                       lastFull |-> IF m = "windowed" THEN "fullscreen" ELSE m,
                       consoleOver |-> FALSE, focusOver |-> FALSE]
          /\ boot = [left |-> Warming(m), settled |-> FALSE, apply |-> m = "fullscreen"]
    BY DEF Init
  <2>2. window \in Windows
    BY <2>1 DEF Windows, Mode
  <2>3. Warming(m) \in 0..Warmup /\ (m = "fullscreen" => Warming(m) > 0)
    BY ShellAssumption DEF Warming
  <2>4. (m = "fullscreen") \in BOOLEAN
    OBVIOUS
  <2>5. boot \in Boots
    BY <2>1, <2>3, <2>4 DEF Boots
  <2>6. window.is = window.mode \/ (window.mode = "fullscreen" /\ boot.left > 0 /\ boot.apply)
    BY <2>1, <2>3 DEF Mode
  <2>7. window.lastFull # "windowed" /\ window.mode = window.last /\ ~window.focusOver
        /\ (window.last # "windowed" => window.lastFull = window.last)
    BY <2>1 DEF Mode
  <2> QED
    BY <2>2, <2>5, <2>6, <2>7 DEF ShownTypes, WindowInv, ModeKnown, Excused
<1>5. KeysInv
  BY DEF Init, KeysInv, NoStuckKey
<1>6. SceneInv
  <2>1. menu.open => video = 0
    BY DEF Init
  <2>2. ~scene /\ ~look /\ ~wasLook /\ ~(reloads > 0)
    BY DEF Init
  <2> QED
    BY <2>1, <2>2 DEF SceneInv
<1>7. LookInv
  BY DEF Init, LookInv, Remembers
<1> QED
  BY <1>1, <1>2, <1>3, <1>4, <1>5, <1>6, <1>7 DEF ShellInv, Types

LEMMA StepShell == ShellInv /\ [Next]_vars => ShellInv'
<1> SUFFICES ASSUME ShellInv, [Next]_vars PROVE ShellInv'
  OBVIOUS
<1>1. CASE Next
  <2>1. ShownTypes' /\ WindowInv'
    BY <1>1, WindowStep DEF ShellInv, Types
  <2>2. CoverTypes' /\ SceneInv'
    BY <1>1, ConsoleTypesStep, SceneStep DEF ShellInv, Types, CoverTypes
  <2>3. FlagTypes' /\ PlaceTypes'
    BY <1>1, FlagTypesStep, PlaceTypesStep DEF ShellInv, Types
  <2>4. CountTypes' /\ TraceDue'
    BY <1>1, CountTypesStep, TraceStep DEF ShellInv, Types
  <2>5. KeyTypes' /\ KeysInv'
    BY <1>1, KeysStep DEF ShellInv, Types
  <2>6. LookInv'
    BY <1>1, LookStep DEF ShellInv, Types
  <2> QED
    BY <2>1, <2>2, <2>3, <2>4, <2>5, <2>6 DEF ShellInv, Types
<1>2. CASE UNCHANGED vars
  <2>1. ShownTypes' /\ WindowInv'
    BY <1>2 DEF vars, shown, ShellInv, Types, ShownTypes, WindowInv, ModeKnown, Excused
  <2>2. CoverTypes' /\ SceneInv'
    BY <1>2 DEF vars, cursor, played, ShellInv, Types, CoverTypes, SceneInv
  <2>3. FlagTypes' /\ PlaceTypes' /\ CountTypes' /\ TraceDue'
    BY <1>2 DEF vars, cursor, shown, played, ShellInv, Types, FlagTypes, PlaceTypes, CountTypes, TraceDue
  <2>4. KeyTypes' /\ KeysInv'
    BY <1>2 DEF vars, shown, held, ShellInv, Types, KeyTypes, KeysInv, NoStuckKey, Layer, Blocking
  <2>5. LookInv'
    BY <1>2 DEF vars, cursor, shown, played, ShellInv, LookInv, Undisturbed, Remembers, Settled, Blocking
  <2> QED
    BY <2>1, <2>2, <2>3, <2>4, <2>5 DEF ShellInv, Types
<1> QED
  BY <1>1, <1>2

LEMMA ShellInductive == Spec => []ShellInv
BY InitShell, StepShell, PTL DEF Spec

LEMMA ShellTypes == ShellInv => TypeOK
<1> SUFFICES ASSUME ShellInv PROVE TypeOK
  OBVIOUS
<1>1. reloads \in 0..MaxEvents
  BY ShellAssumption DEF ShellInv, Types, CountTypes
<1>2. {look, wasLook, focusResume, focused, visible, map, scene, displayDue, lookLost, raced}
        \subseteq BOOLEAN
  BY DEF ShellInv, Types, FlagTypes
<1> QED
  BY <1>1, <1>2 DEF ShellInv, Types, ShownTypes, CoverTypes, CountTypes, KeyTypes, PlaceTypes,
                    Consoles, Phases, Menus, Windows, Boots, TypeOK

(* Whatever overrides the console, the focus and the boot put on the       *)
(* window, it settles in the mode of the settings, and Alt+Enter knows the *)
(* mode to go back to: apply_window_settings, the fullscreen overrides and *)
(* handle_window_event of the main program.                                *)
THEOREM WindowAlwaysSettles == Spec => []WindowSettles
<1>1. ShellInv => WindowSettles
  <2> SUFFICES ASSUME ShellInv PROVE WindowSettles
    OBVIOUS
  <2>1. ModeSettles
    BY DEF ShellInv, WindowInv, ModeKnown, Excused, ModeSettles
  <2>2. FullscreenRemembered
    BY DEF ShellInv, WindowInv, FullscreenRemembered
  <2> QED
    BY <2>1, <2>2, ShellTypes DEF WindowSettles
<1> QED
  BY <1>1, ShellInductive, PTL

(* What takes the mouse and the keys from the game, console, menus, focus  *)
(* or a map, gives them back: open_console, close_console, the menu keys   *)
(* and the focus events of the main program.                               *)
THEOREM InputAlwaysFollows == Spec => []InputFollows
<1>1. ShellInv => InputFollows
  <2> SUFFICES ASSUME ShellInv PROVE InputFollows
    OBVIOUS
  <2>1. CursorFree
    BY DEF ShellInv, LookInv, Undisturbed, Remembers, Settled, CursorFree
  <2>2. LookComesBack
    BY DEF ShellInv, LookInv, Undisturbed, Remembers, Settled, Blocking, LookComesBack
  <2>3. TitleBeforeGame
    BY DEF ShellInv, SceneInv, TitleBeforeGame
  <2> QED
    BY <2>1, <2>2, <2>3 DEF ShellInv, KeysInv, LookFollows, InputFollows
<1> QED
  BY <1>1, ShellInductive, PTL
================================================================================
