-------------------------------- MODULE Shell --------------------------------
(***************************************************************************)
(* The shell of the game: its window and the modes it is shown in, the     *)
(* menu, the console that slides over both, who gets the keys and whether  *)
(* the mouse looks around, the boot behind a hidden window and the input   *)
(* script that drives it all.                                              *)
(*                                                                         *)
(* Events of the window come between frames.  A frame goes through the     *)
(* stages that at names; no event comes in between.  A slide of the        *)
(* console, the delay of the input script and the settle time of the boot  *)
(* are over at any time, a movie ends at any time.  Whether a map loads,   *)
(* and whether a frame is presented, is a free choice.                     *)
(***************************************************************************)
EXTENDS Integers

CONSTANTS
  Key,         \* keys that move the player
  MaxMovies,   \* bound: movies of the playlist
  MaxEvents,   \* bound: events of the user, the window and commands
  MaxMeddling, \* bound: those among them while the input script runs
  Warmup,      \* BOOT_PRESENT_WARMUP
  ReplayLen    \* bound: frames of an input trace

ASSUME ShellAssumption ==
  /\ MaxMovies \in Nat /\ MaxEvents \in Nat /\ MaxMeddling \in Nat /\ ReplayLen \in Nat
  /\ Warmup \in Nat \ {0} /\ MaxMeddling <= MaxEvents

Mode == {"windowed", "borderless", "fullscreen"}
Done == 9
NoClick == "none"

VARIABLES
  console,     \* its phase, and whether it gives the mouse back
  menu,        \* whether it is open, and as the title or the pause menu
  look,        \* mouse_look
  wasLook,     \* was_mouse_look: as the pause menu found it
  focusResume, \* focus_resume_mouse_look
  focused,     \* window_focused
  window,      \* settings.window_mode, what the window is in, what is remembered
  boot,        \* presents left of the warm-up, whether the window has settled,
               \* boot_apply_fullscreen
  visible,     \* the window has been shown
  video,       \* movies left
  map,         \* pending_map is set
  scene,       \* scene_active
  input,       \* keys the game takes for held
  keys,        \* keys that are held
  clicked,     \* what was clicked in the menu since the last frame
  displayDue,  \* a command changed display settings since the last frame
  reloads,     \* test_map_reload_requests
  replay,      \* frames left of an input replay, its end included
  script,      \* step of the input script
  at,          \* where the main thread is
  excused,     \* history: keys whose release could be missed
  lookLost,    \* history: the mouse was taken away and not promised back
  raced,       \* history: a click or the script took the mouse too late
  events       \* events so far

cursor == <<look, wasLook, focusResume, lookLost, raced>>
shown == <<window, boot, visible, focused, displayDue>>
played == <<video, map, scene, reloads, replay, script>>
held == <<input, keys, excused>>
vars == <<console, menu, cursor, shown, played, held, clicked, at, events>>

-----------------------------------------------------------------------------
(* The window.                                                             *)

\* apply_window_settings, where the monitor has a matching video mode.
Applied(w) == [w EXCEPT !.is = w.mode]
\* set_borderless_fullscreen.
Borderless(w) == [w EXCEPT !.is = "borderless"]
\* enable_console_fullscreen_override.
Overridden(w) ==
  IF w.mode = "fullscreen" /\ ~w.consoleOver
  THEN [Borderless(w) EXCEPT !.consoleOver = TRUE] ELSE w

\* Mutant: the override is dropped without going back.
ForgetsOverride(w, restore) ==
  [w EXCEPT !.consoleOver = @ /\ w.mode = "fullscreen" /\ ~restore]

\* restore_console_fullscreen_override.
Restored(w, restore) ==
  IF w.consoleOver /\ w.mode = "fullscreen" /\ restore
  THEN [Applied(w) EXCEPT !.consoleOver = FALSE]
  ELSE [w EXCEPT !.consoleOver = @ /\ w.mode = "fullscreen"]

\* The mode that is applied, and to which Alt+Enter goes back.
Remembered(w) ==
  [w EXCEPT !.last = w.mode, !.lastFull = IF w.mode = "windowed" THEN @ ELSE w.mode]

\* BootState::new, on_resize, on_present.
Warming(mode) == IF mode = "windowed" THEN 0 ELSE Warmup
Unsettled(b) == IF b.left = 0 THEN b ELSE [b EXCEPT !.left = Warmup, !.settled = FALSE]
ComesUp(b) == b.left = 1 /\ b.settled

PresentedOnce(b) == IF b.settled /\ b.left > 0 THEN [b EXCEPT !.left = @ - 1] ELSE b

\* Mutant: only a window that goes on to fullscreen.
ShownFull == visible \/ (ComesUp(boot) /\ boot.apply)

ShownNow == visible \/ ComesUp(boot)

Presented ==
  /\ boot' = [PresentedOnce(boot) EXCEPT !.apply = @ /\ ~ComesUp(boot)]
  /\ visible' = ShownNow
  /\ window' = IF ComesUp(boot) /\ boot.apply THEN Applied(window) ELSE window

-----------------------------------------------------------------------------
(* Console, menu and mouse.                                                *)

Blocking == console.phase # "closed"
Interactive == console.phase = "open"
\* InputRouter::active_layer.
Layer == IF Blocking THEN "console" ELSE IF menu.open THEN "menu" ELSE "game"

Title == [open |-> TRUE, mode |-> "title"]
Pause == [open |-> TRUE, mode |-> "pause"]
MenuClosed == [menu EXCEPT !.open = FALSE]

\* Mutant: the keys stay held.
Kept == UNCHANGED held

\* The game takes no key for held.
Released == input' = {} /\ excused' = {} /\ keys' = keys

LooksNow == look

OpenConsole ==
  /\ console' = [phase |-> IF console.phase = "open" THEN "open" ELSE "opening",
                 resume |-> LooksNow]
  /\ look' = FALSE
  /\ Released
  /\ UNCHANGED <<window, lookLost>>

Recaptures(recapture) == recapture /\ scene /\ console.resume /\ ~menu.open

CloseConsole(recapture, restore) ==
  /\ console' = [phase |-> IF Blocking THEN "closing" ELSE "closed", resume |-> FALSE]
  /\ look' = (look \/ Recaptures(recapture))
  /\ lookLost' = (lookLost /\ ~look')
  /\ window' = Restored(window, restore)
  /\ UNCHANGED held

\* handle_non_video_key_input.
PressBackquote ==
  /\ video = 0
  /\ IF console.phase \in {"opening", "open"} THEN CloseConsole(TRUE, TRUE) ELSE OpenConsole
  /\ UNCHANGED <<menu, wasLook>>

ResumePause ==
  /\ menu' = MenuClosed
  /\ look' = wasLook
  /\ lookLost' = (lookLost /\ ~look')
  /\ UNCHANGED <<console, wasLook, window, held>>

OpenPause ==
  /\ wasLook' = look /\ look' = FALSE
  /\ menu' = Pause
  /\ Released
  /\ UNCHANGED <<console, window, lookLost>>

\* It is ignored in the title menu, and where there is no scene.
PressEscape ==
  \/ Blocking /\ CloseConsole(TRUE, TRUE) /\ UNCHANGED <<menu, wasLook>>
  \/ ~Blocking /\ menu.open /\ menu.mode = "pause" /\ ResumePause
  \/ ~Blocking /\ ~menu.open /\ scene /\ OpenPause

\* enter_map_scene; a map may fail to load before or after what is drawn was
\* replaced, and a scene that was active stays so.
EnterMap(loads) == scene' = (scene \/ loads)

-----------------------------------------------------------------------------
Init ==
  /\ console = [phase |-> "closed", resume |-> FALSE]
  /\ look = FALSE /\ wasLook = FALSE /\ focusResume = FALSE /\ focused = TRUE
  /\ \E m \in Mode, initialRender \in BOOLEAN :
       /\ window = [mode |-> m,
                    is |-> IF m = "fullscreen" THEN "borderless" ELSE m,
                    last |-> m,
                    lastFull |-> IF m = "windowed" THEN "fullscreen" ELSE m,
                    consoleOver |-> FALSE, focusOver |-> FALSE]
       /\ boot = [left |-> Warming(m), settled |-> FALSE, apply |-> m = "fullscreen"]
       /\ visible = (m = "windowed" /\ initialRender)
  /\ video \in 0..MaxMovies
  /\ menu = [open |-> video = 0, mode |-> "title"]
  /\ map \in BOOLEAN
  /\ script \in {0, Done}
  /\ scene = FALSE /\ reloads = 0 /\ replay = 0
  /\ input = {} /\ keys = {} /\ excused = {}
  /\ clicked = NoClick /\ displayDue = FALSE
  /\ lookLost = FALSE /\ raced = FALSE
  /\ at = "events" /\ events = 0

-----------------------------------------------------------------------------
(* Events.  Keys go to a focused window.                                   *)

Event ==
  /\ at = "events" /\ events < (IF script = Done THEN MaxEvents ELSE MaxMeddling)
  /\ events' = events + 1 /\ at' = at

AltEnter ==
  /\ Event /\ focused
  /\ LET leaving == IF window.mode = "windowed" THEN window
                    ELSE [window EXCEPT !.lastFull = window.mode]
         target == IF window.mode = "windowed" THEN window.lastFull ELSE "windowed"
         toggled == Applied(Remembered([leaving EXCEPT !.mode = target,
                                          !.consoleOver = FALSE, !.focusOver = FALSE]))
     IN window' = IF Blocking THEN Overridden(toggled) ELSE toggled
  /\ UNCHANGED <<console, menu, cursor, boot, visible, focused, displayDue, played, held,
                 clicked>>

Backquote ==
  /\ Event /\ focused /\ PressBackquote
  /\ UNCHANGED <<focusResume, raced, boot, visible, focused, displayDue, played, clicked>>

Escape ==
  /\ Event /\ focused /\ PressEscape
  /\ UNCHANGED <<focusResume, raced, boot, visible, focused, displayDue, played, clicked>>

\* A movement key or the right button of the mouse.
Press(k) ==
  /\ Event /\ focused /\ k \notin keys
  /\ keys' = keys \cup {k}
  /\ input' = IF Layer = "game" THEN input \cup {k} ELSE input
  /\ excused' = IF Layer = "game" THEN excused \ {k} ELSE excused
  /\ UNCHANGED <<console, menu, cursor, shown, played, clicked>>

\* What is released elsewhere the game does not hear of.
Release(k) ==
  /\ Event /\ k \in keys
  /\ keys' = keys \ {k}
  /\ IF focused /\ Layer = "game"
     THEN input' = input \ {k} /\ excused' = excused \ {k}
     ELSE UNCHANGED <<input, excused>>
  /\ UNCHANGED <<console, menu, cursor, shown, played, clicked>>

\* The playlist is over: the title menu opens and the keys stay as they are.
MoviesOver ==
  /\ menu' = Title
  /\ excused' = excused \cup input
  /\ UNCHANGED <<input, keys>>

MovieEnds ==
  /\ video' = video - 1
  /\ IF video = 1 THEN MoviesOver ELSE UNCHANGED <<menu, held>>

\* The space bar, repeats included.
Skip ==
  /\ Event /\ focused /\ video > 0
  /\ MovieEnds
  /\ UNCHANGED <<console, cursor, shown, map, scene, reloads, replay, script, clicked>>

Clicks ==
  IF menu.mode = "title" THEN {"start", "quit"} ELSE {"resume", "quit"}

\* Not counted, but for those that change the mode.
Click(c) ==
  /\ at = "events" /\ at' = at /\ focused
  /\ IF c \in Mode THEN Event ELSE UNCHANGED events /\ menu.open /\ ~Blocking /\ clicked = NoClick
  /\ c \in Clicks \cup Mode
  /\ clicked' = c
  /\ UNCHANGED <<console, menu, cursor, shown, played, held>>

\* Mutant: the mouse is taken again.
TakesAgain == Recaptures(TRUE)

\* close_console, without recapture.
LookAway == Recaptures(FALSE)

FocusLost ==
  /\ Event /\ focused
  /\ focused' = FALSE
  /\ focusResume' = look /\ look' = LookAway
  /\ LET away == IF window.mode = "fullscreen" /\ ~window.focusOver
                 THEN [Borderless(window) EXCEPT !.focusOver = TRUE] ELSE window
     IN window' = IF Blocking THEN [away EXCEPT !.consoleOver = FALSE] ELSE away
  /\ console' = IF Blocking THEN [phase |-> "closing", resume |-> FALSE] ELSE console
  /\ lookLost' = (lookLost \/ Blocking)
  /\ excused' = excused \cup input
  /\ UNCHANGED <<menu, wasLook, raced, boot, visible, displayDue, played, input, keys, clicked>>

\* What the window is shown in when the focus comes back.
Refocused(w) ==
  LET back == IF w.focusOver /\ w.mode = "fullscreen" /\ ~w.consoleOver
              THEN Applied(w) ELSE w
  IN [IF w.consoleOver /\ ~Blocking /\ w.mode = "fullscreen"
      THEN [Applied(back) EXCEPT !.consoleOver = FALSE] ELSE back EXCEPT !.focusOver = FALSE]

FocusGained ==
  /\ Event /\ ~focused
  /\ focused' = TRUE
  /\ window' = Refocused(window)
  /\ look' = (look \/ (focusResume /\ scene /\ ~menu.open /\ ~Blocking))
  /\ lookLost' = (lookLost /\ ~look')
  /\ focusResume' = FALSE
  /\ UNCHANGED <<console, menu, wasLook, raced, boot, visible, displayDue, played, held, clicked>>

Resized ==
  /\ Event
  /\ boot' = Unsettled(boot)
  /\ UNCHANGED <<console, menu, cursor, window, visible, focused, displayDue, played, held,
                 clicked>>

\* Lines of the console, a smoke script or Lua: window_mode is set, the test
\* map is to be loaded again, a trace is replayed.
CommandMode(m) ==
  /\ Event
  /\ window' = [window EXCEPT !.mode = m]
  /\ displayDue' = TRUE
  /\ UNCHANGED <<console, menu, cursor, boot, visible, focused, played, held, clicked>>

CommandReload ==
  /\ Event /\ scene
  /\ reloads' = reloads + 1
  /\ UNCHANGED <<console, menu, cursor, shown, video, map, scene, replay, script, held, clicked>>

CommandReplay ==
  /\ Event /\ replay = 0
  /\ replay' = ReplayLen + 1
  /\ UNCHANGED <<console, menu, cursor, shown, video, map, scene, reloads, script, held, clicked>>

\* Timers; the render of AboutToWait while the window is hidden.
Settle ==
  /\ at = "events" /\ boot.left > 0 /\ ~boot.settled
  /\ boot' = [boot EXCEPT !.settled = TRUE]
  /\ UNCHANGED <<console, menu, cursor, window, visible, focused, displayDue, played, held,
                 clicked, at, events>>

WarmRender ==
  /\ at = "events" /\ boot.left > 0 /\ boot.settled
  /\ Presented
  /\ UNCHANGED <<console, menu, cursor, focused, displayDue, played, held, clicked, at, events>>

UserEvent ==
  \/ AltEnter \/ Backquote \/ Escape \/ Skip \/ FocusLost \/ FocusGained \/ Resized
  \/ CommandReload \/ CommandReplay
  \/ \E k \in Key : Press(k) \/ Release(k)
  \/ \E c \in {"start", "resume", "quit"} \cup Mode : Click(c)
  \/ \E m \in Mode : CommandMode(m)

-----------------------------------------------------------------------------
(* A frame: the console slides, then the input script, the menu and its     *)
(* display settings, the movie or a reload (a movie and a scene exclude     *)
(* each other), a replay and the render follow.                             *)

Regained == lookLost' = (lookLost /\ ~look')
Races == raced' = (raced \/ (look' /\ (Blocking' \/ menu'.open \/ ~focused)))

\* What is left of a frame when there is something to do.
Rest(movies, loads, frames) ==
  IF movies > 0 \/ loads > 0 THEN "world" ELSE IF frames > 0 THEN "trace" ELSE "present"

BeginFrame(over) ==
  /\ at = "events" /\ at' = IF script = Done THEN "ui" ELSE "script"
  /\ console' = IF ~over THEN console
                ELSE [console EXCEPT !.phase = IF @ = "opening" THEN "open"
                                               ELSE IF @ = "closing" THEN "closed" ELSE @]
  /\ UNCHANGED <<menu, cursor, shown, played, held, clicked, events>>

\* A step of the input script; its keys need no focus.
ScriptStarts ==
  \/ /\ video > 0
     /\ UNCHANGED <<menu, look, map, scene, script>>
  \/ /\ video = 0 /\ (scene \/ map)
     /\ \E loads \in IF scene THEN {TRUE} ELSE BOOLEAN :
          /\ EnterMap(loads)
          /\ look' = (look \/ loads)
          /\ map' = (map /\ ~(loads /\ ~scene))
          /\ menu' = IF loads /\ ~scene THEN MenuClosed ELSE menu
          /\ script' = IF loads THEN 1 ELSE Done
  \/ /\ video = 0 /\ ~scene /\ ~map
     /\ script' = Done
     /\ UNCHANGED <<menu, look, map, scene>>

ScriptKey ==
  /\ \/ script \in {1, 3, 7} /\ PressEscape
     \/ script = 4 /\ PressBackquote
  /\ script' = script + 1
  /\ UNCHANGED <<map, scene>>

ScriptStep ==
  /\ at = "script"
  /\ at' = "ui"
  /\ \/ /\ script = 0 /\ ScriptStarts /\ Regained
        /\ UNCHANGED <<console, wasLook, window, held>>
     \/ ScriptKey
     \/ /\ script \in {2, 6} \/ (script = 5 /\ Interactive)
        /\ script' = script + 1
        /\ UNCHANGED <<console, menu, look, wasLook, lookLost, window, held, map, scene>>
     \/ /\ script = 8
        /\ look' = (look \/ scene) /\ Regained
        /\ script' = Done
        /\ UNCHANGED <<console, menu, wasLook, window, held, map, scene>>
  /\ UNCHANGED <<focusResume, boot, visible, focused, displayDue, video, reloads, replay,
                 clicked, events>>
  /\ Races

\* It is not due, or waits for the console to open.
NoScriptStep ==
  /\ at = "script" /\ at' = "ui"
  /\ UNCHANGED <<console, menu, cursor, shown, played, held, clicked, events>>

\* A click counts if the menu is still there.
Served == IF menu.open THEN clicked ELSE NoClick

DisplayChanged(w) == IF w.mode # w.last THEN Remembered(Applied(w)) ELSE Applied(w)

StartMap(loads) ==
  /\ EnterMap(loads)
  /\ IF loads THEN map' = FALSE /\ menu' = MenuClosed /\ look' = TRUE
     ELSE UNCHANGED <<map, menu, look>>

Ui ==
  LET picked == IF Served \in Mode THEN [window EXCEPT !.mode = Served] ELSE window
      display == displayDue \/ picked # window
  IN /\ at = "ui"
     /\ window' = IF display THEN DisplayChanged(picked) ELSE window
     /\ visible' = (visible \/ (display /\ picked.mode # picked.last))
     /\ displayDue' = FALSE /\ clicked' = NoClick
     /\ CASE Served = "start" /\ map -> \E loads \in BOOLEAN : StartMap(loads)
          [] Served = "resume" -> /\ menu' = MenuClosed /\ look' = wasLook
                                  /\ UNCHANGED <<scene, map>>
          [] OTHER -> UNCHANGED <<scene, map, menu, look>>
     /\ at' = IF Served = "quit" THEN "over" ELSE IF display THEN "events"
              ELSE Rest(video, reloads, replay)
     /\ UNCHANGED <<console, wasLook, focusResume, focused, boot, video, reloads, replay, script,
                    held, events>>
     /\ Races /\ Regained

\* The current movie goes on, or it was the last of those left.
Video(ends) ==
  /\ at = "world" /\ video > 0
  /\ IF ends THEN MovieEnds ELSE UNCHANGED <<video, menu, held>>
  /\ at' = IF ends /\ video = 1 THEN "events" ELSE Rest(0, 0, replay)
  /\ UNCHANGED <<console, cursor, shown, map, scene, reloads, replay, script, clicked, events>>

\* enter_map_scene sets the scene, and the mouse free.
Reload(loads) ==
  /\ at = "world" /\ reloads > 0
  /\ at' = Rest(0, 0, replay)
  /\ reloads' = reloads - 1
  /\ look' = (look /\ ~loads)
  /\ lookLost' = (lookLost \/ loads)
  /\ EnterMap(loads)
  /\ UNCHANGED <<console, menu, wasLook, focusResume, raced, shown, video, map, replay, script,
                 held, clicked, events>>

\* The frames of a replay replace the keys; its end leaves the last ones.
Replay ==
  /\ at = "trace" /\ at' = "present"
  /\ replay' = replay - 1
  /\ IF replay > 1
     THEN /\ input' \in SUBSET Key
          /\ excused' = excused \cup input'
          /\ UNCHANGED keys
     ELSE UNCHANGED held
  /\ UNCHANGED <<console, menu, cursor, shown, video, map, scene, reloads, script, clicked,
                 events>>

Present ==
  /\ at = "present" /\ at' = "events"
  /\ Presented
  /\ UNCHANGED <<console, menu, cursor, focused, displayDue, played, held, clicked, events>>

\* The surface is lost or outdated, or the frame to be captured cannot be.
NotPresented ==
  /\ at = "present" /\ at' = "events"
  /\ UNCHANGED <<console, menu, cursor, shown, played, held, clicked, events>>

FrameStep ==
  \/ \E over \in BOOLEAN : BeginFrame(over)
  \/ ScriptStep \/ NoScriptStep \/ Ui
  \/ \E ends \in BOOLEAN : Video(ends)
  \/ \E loads \in BOOLEAN : Reload(loads)
  \/ Replay \/ Present \/ NotPresented

Next == UserEvent \/ Settle \/ WarmRender \/ FrameStep
Spec == Init /\ [][Next]_vars

\* Frames go on, the window settles and some frame is presented.
FairSpec == Spec /\ WF_vars(FrameStep) /\ SF_vars(Settle) /\ SF_vars(Present)

-----------------------------------------------------------------------------
TypeOK ==
  /\ console \in [phase : {"closed", "opening", "open", "closing"}, resume : BOOLEAN]
  /\ menu \in [open : BOOLEAN, mode : {"title", "pause"}]
  /\ {look, wasLook, focusResume, focused, visible, map, scene, displayDue, lookLost, raced}
       \subseteq BOOLEAN
  /\ window \in [mode : Mode, is : Mode, last : Mode, lastFull : Mode,
                 consoleOver : BOOLEAN, focusOver : BOOLEAN]
  /\ boot \in [left : 0..Warmup, settled : BOOLEAN, apply : BOOLEAN]
  /\ video \in 0..MaxMovies
  /\ reloads \in 0..MaxEvents /\ replay \in 0..(ReplayLen + 1) /\ script \in 0..Done
  /\ input \subseteq Key /\ keys \subseteq Key /\ excused \subseteq Key
  /\ clicked \in {NoClick, "start", "resume", "quit"} \cup Mode
  /\ at \in {"events", "script", "ui", "world", "trace", "present", "over"}
  /\ events \in 0..MaxEvents

\* A window that has the focus, no console over it and its boot behind it is
\* in the mode the settings name.  A mode taken by Alt+Enter as the console
\* slides away outlives the console, but never unknown to the flag that the
\* next close or focus goes by.
ModeSettles ==
  (at = "events" /\ focused /\ ~Blocking /\ boot.left = 0 /\ ~displayDue)
    => window.is = window.mode \/ window.consoleOver

\* Alt+Enter leaves the windowed mode for the last mode that filled the
\* screen, however that one was chosen.
FullscreenRemembered ==
  /\ window.lastFull # "windowed"
  /\ (at = "events" /\ ~displayDue /\ window.mode # "windowed") => window.lastFull = window.mode

\* Whatever overrides of console and focus come and go, the window settles in
\* the mode of the settings, and the mode to go back to is known.
WindowSettles == TypeOK /\ ModeSettles /\ FullscreenRemembered

\* The mouse looks around only in a game that has the focus and is not
\* covered; the input script and a click served late may break that.
CursorFree ==
  (look /\ script = Done /\ ~raced) => focused /\ ~menu.open /\ console.phase \in {"closed", "closing"}

\* The mouse goes back to the game that is uncovered, unless it was lost:
\* to a focus that went while the console was there, or to a reload.
LookComesBack ==
  (at = "events" /\ scene /\ focused /\ ~menu.open /\ ~Blocking /\ script = Done /\ ~raced)
    => look \/ lookLost

\* The title menu, which Escape does not leave, never covers a game.
TitleBeforeGame == at = "events" /\ menu.open /\ menu.mode = "title" => ~scene

\* Console, menus, focus and maps hand the mouse to one another and none
\* keeps it, nor the game while something covers it.
LookFollows == CursorFree /\ LookComesBack /\ TitleBeforeGame

\* No key sticks through console and pause menu.  One may whose release fell
\* in the title menu after the movies, or came without the focus, or which a
\* replay has pressed.
NoStuckKey == input \ keys \subseteq excused

\* Whatever takes the input away, console, menu, focus, map change, gives all
\* of it back: the mouse, and the keys as they are held.
InputFollows == LookFollows /\ NoStuckKey

\* A window that boots hidden is shown, whatever resizes it.  One that does
\* not is shown by its first render, or not at all.
Shown == boot.left > 0 ~> visible \/ at = "over"
=============================================================================
