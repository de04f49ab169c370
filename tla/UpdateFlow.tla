----------------------------- MODULE UpdateFlow -----------------------------
(***************************************************************************)
(* How the manager updates itself: the checks and downloads of the main    *)
(* window (manager/gui/main_window.py, manager/updater.py), the countdown  *)
(* popup (manager/gui/update_prompt.py), the detached helper that waits    *)
(* for the manager to exit, reinstalls and relaunches it                   *)
(* (manager/update_helper.py), and what survives the restart: the saved    *)
(* once-per-version mark and the copy job (manager/settings/store.py,      *)
(* manager/__main__.py).                                                   *)
(*                                                                         *)
(* The GUI's handlers, the download threads, the helper and the release    *)
(* server take turns.  The cache is two files that every download writes   *)
(* in place, so a download is several steps.                               *)
(*                                                                         *)
(* Simplifications:                                                        *)
(*  - a version is a number, as parse_version orders them; 0 is also the   *)
(*    empty mark; a file's content is the version it was downloaded from,  *)
(*    or Torn; two files agree with each other if they are of one version; *)
(*  - a check reads version.txt when it begins; the answer that there is   *)
(*    something newer is handled later, and answers may overtake each other;*)
(*  - the checksum is fetched and compared in one step;                    *)
(*  - quitting closes an open popup, which declines it; the popup that a   *)
(*    second one replaces disappears;                                      *)
(*  - writing settings.json succeeds;                                      *)
(*  - a master and slaves are configured, and the user does not launch the *)
(*    manager by hand while the helper is at work.                         *)
(***************************************************************************)
EXTENDS Naturals, Sequences

CONSTANTS
  MaxVersion,    \* versions are 0..MaxVersion
  Downloads,     \* download threads that may run at the same time
  MaxDelays,     \* bound: delay timers running at the same time
  AutoCopy,      \* the toggle "Auto-start copying on launch"
  Window,        \* the helper has a display for its progress window
  CliWhileUp,    \* "copytrades update" may be run while the manager runs
  Torn, None

ASSUME UpdateConstants ==
  /\ MaxVersion \in Nat /\ MaxDelays \in Nat
  /\ AutoCopy \in BOOLEAN /\ Window \in BOOLEAN /\ CliWhileUp \in BOOLEAN
  /\ Torn \notin Nat /\ None \notin Nat /\ Torn # None

Versions == 0..MaxVersion

VARIABLES
  (* the release server and the disk *)
  released,      \* the version of releases/latest
  installed,     \* the version in the venv
  wheel, sha,    \* UPDATE_DIR: manager-latest.whl and its .sha256
  saved,         \* the mark and the update toggle in settings.json
  (* the manager's process *)
  app,           \* "up", "quitting" (in _do_update_quit or closeEvent), "down"
  running,       \* current_version() of the process
  mem,           \* the same two in memory
  button,        \* update_restart_button, _cached_wheel and _latest_version
  checks,        \* answers of _UpdateWorker threads not handled yet
  downloads,     \* the _DownloadWorker threads
  done,          \* those that have finished, in order: signals not handled yet
  prompt,        \* the popup is shown
  prev,          \* _prev_auto_update_last_attempt
  timers,        \* delay timers running
  copying,       \* "off", "countdown", "on"
  (* the helper's process *)
  helper,
  tried          \* ghost: versions auto-restarted for and not declined since

diskVars == << installed, wheel, sha >>
threadVars == << checks, downloads, done >>
guiVars  == << running, mem, button, prompt, prev, timers, copying >>
vars == << released, diskVars, saved, app, guiVars, threadVars, helper, tried >>

Settings == [mark : Versions, auto_update : BOOLEAN]
Idle     == [stage |-> "idle", ver |-> None]
NoHelper == [phase |-> "none", resume |-> FALSE, auto |-> FALSE, cli |-> FALSE]
NoButton == [latest |-> None, cached |-> FALSE, visible |-> FALSE,
             enabled |-> FALSE]

(* Mutant of Save: the toggle is not written.                              *)
SavesMarkOnly == saved' = [mark |-> mem'.mark]

(* _save_config: every handler that changes the settings ends with it.     *)
Save == saved' = mem'

Writers == {d \in Downloads : downloads[d].stage = "wheel"}

(* Deleting the pair: a wheel that a download has open stays (Windows).    *)
Unlink ==
  /\ wheel' = IF Writers = {} THEN None ELSE wheel
  /\ sha' = None

-----------------------------------------------------------------------------
Release ==
  /\ released < MaxVersion
  /\ released' = released + 1
  /\ UNCHANGED << diskVars, saved, app, guiVars, threadVars, helper, tried >>

(* check_for_updates_now, on launch, hourly and by the button: nothing     *)
(* keeps a second check from beginning.                                    *)
CheckBegins ==
  /\ app = "up" /\ running < released
  /\ checks' = checks \cup {released}
  /\ UNCHANGED << released, diskVars, saved, app, guiVars, downloads, done, helper,
                  tried >>

(* Mutant of UpdateFound: a wheel in the cache is not downloaded again.    *)
FoundOnce(latest) ==
  /\ app = "up" /\ latest \in checks
  /\ checks' = checks \ {latest}
  /\ button' = [button EXCEPT !.latest = latest, !.visible = TRUE]
  /\ \E d \in Downloads :
       /\ downloads[d] = Idle
       /\ downloads' = IF button.cached THEN downloads
                       ELSE [downloads EXCEPT ![d].stage = "opening"]
  /\ UNCHANGED << released, diskVars, saved, app, running, mem, prompt, prev,
                  timers, copying, done, helper, tried >>

(* _on_update_checked with something newer: it is downloaded, cached or not.*)
UpdateFound(latest) ==
  /\ app = "up" /\ latest \in checks
  /\ checks' = checks \ {latest}
  /\ button' = [button EXCEPT !.latest = latest, !.visible = TRUE, !.enabled = FALSE]
  /\ \E d \in Downloads :
       downloads[d] = Idle /\ downloads' = [downloads EXCEPT ![d].stage = "opening"]
  /\ UNCHANGED << released, diskVars, saved, app, running, mem, prompt, prev,
                  timers, copying, done, helper, tried >>

(* ... with no answer, or with nothing newer (then, or when it was asked). *)
NothingFound ==
  /\ app = "up"
  /\ button' = [button EXCEPT !.visible = FALSE]
  /\ UNCHANGED << released, diskVars, saved, app, running, mem, prompt, prev,
                  timers, copying, threadVars, helper, tried >>

-----------------------------------------------------------------------------
(* download_update, in a thread.                                           *)
Moves(d, stage) ==
  /\ downloads' = [downloads EXCEPT ![d].stage = stage]
  /\ done' = IF stage \in {"ok", "failed"} THEN Append(done, d) ELSE done

ThreadStep(d, stage) ==
  /\ app # "down" /\ downloads[d].stage = stage
  /\ UNCHANGED << released, installed, saved, app, guiVars, checks, helper,
                  tried >>

(* urlretrieve opens the file for writing: it is truncated.  Downloads of  *)
(* two versions that overlap leave a mixture.                              *)
OpenWheel(d) ==
  LET clash == {e \in Writers : downloads[e].ver # released}
  IN  /\ ThreadStep(d, "opening")
      /\ wheel' = Torn
      /\ downloads' = [e \in Downloads |->
           IF e = d THEN [stage |-> "wheel",
                          ver |-> IF clash = {} THEN released ELSE Torn]
           ELSE IF e \in clash THEN [downloads[e] EXCEPT !.ver = Torn]
           ELSE downloads[e]]
      /\ UNCHANGED << sha, done >>

EndWheel(d) ==
  /\ ThreadStep(d, "wheel")
  /\ wheel' = IF Writers = {d} THEN downloads[d].ver ELSE Torn
  /\ Moves(d, "sha")
  /\ UNCHANGED sha

(* Mutant of Verify: the checksum is fetched and not compared.             *)
TrustsDownload(d) ==
  /\ ThreadStep(d, "sha")
  /\ sha' = released
  /\ Moves(d, "ok")
  /\ UNCHANGED wheel

(* The checksum: the pair is deleted if it does not match.                 *)
Verify(d) ==
  /\ ThreadStep(d, "sha")
  /\ IF wheel = released
       THEN Moves(d, "ok") /\ sha' = released /\ UNCHANGED wheel
     ELSE IF wheel = None
       THEN Moves(d, "failed") /\ sha' = released /\ UNCHANGED wheel
     ELSE Moves(d, "failed") /\ Unlink

(* The network fails: before a file is opened, or in the middle of it.     *)
DownloadFails(d) ==
  /\ \E stage \in {"opening", "wheel", "sha"} : ThreadStep(d, stage)
  /\ Moves(d, "failed")
  /\ UNCHANGED << wheel, sha >>

-----------------------------------------------------------------------------
(* Mutant of MaybeRestart: the mark is set in memory and not saved.         *)
MarksUnsaved(latest) ==
  IF mem.auto_update /\ ~prompt /\ mem.mark < latest
    THEN /\ prev' = mem.mark /\ mem' = [mem EXCEPT !.mark = latest]
         /\ prompt' = TRUE /\ UNCHANGED saved
    ELSE UNCHANGED << prev, mem, saved, prompt >>

(* _auto_update_maybe_restart: the mark is saved when the popup shows.     *)
MaybeRestart(latest) ==
  IF mem.auto_update /\ ~prompt /\ mem.mark < latest
    THEN /\ prev' = mem.mark /\ mem' = [mem EXCEPT !.mark = latest]
         /\ Save /\ prompt' = TRUE
    ELSE UNCHANGED << prev, mem, saved, prompt >>

(* _on_predownload_done.                                                   *)
Predownloaded ==
  /\ app = "up" /\ done # << >>
  /\ downloads' = [downloads EXCEPT ![Head(done)] = Idle]
  /\ done' = Tail(done)
  /\ IF downloads[Head(done)].stage = "ok"
       THEN /\ button' = [button EXCEPT !.cached = TRUE, !.enabled = TRUE]
            /\ MaybeRestart(button.latest)
       ELSE /\ button' = [button EXCEPT !.cached = FALSE, !.enabled = FALSE]
            /\ UNCHANGED << prev, mem, saved, prompt >>
  /\ UNCHANGED << released, diskVars, app, running, timers, copying, checks,
                  helper, tried >>

-----------------------------------------------------------------------------
(* apply_update_and_restart.                                               *)

(* The helper is spawned; the manager then stops copying and quits.        *)
Spawn(auto, cli) ==
  /\ helper' = [phase |-> "wait", auto |-> auto, cli |-> cli,
                resume |-> ~cli /\ copying = "on"]
  /\ app' = IF cli THEN app ELSE "quitting"
  /\ copying' = IF cli THEN copying ELSE "off"
  /\ tried' = IF auto THEN tried \cup {button.latest} ELSE tried

(* Without a cached wheel it is downloaded now, over whatever is there; on *)
(* failure the manager stays up.                                           *)
DownloadNow(auto, cli) ==
  LET unlinked == wheel # None /\ sha # None
  IN  \/ Writers = {} /\ wheel' = released /\ sha' = released /\ Spawn(auto, cli)
      \/ /\ \/ Unlink
            \/ ~unlinked /\ UNCHANGED << wheel, sha >>
            \/ wheel' = Torn /\ sha' = IF unlinked THEN None ELSE sha
         /\ UNCHANGED << helper, app, copying, tried >>

(* cached: the path kept since the download, taken without another look.   *)
(* Otherwise cached_update() verifies the pair on the disk.                *)
Apply(cached, auto, cli) ==
  /\ helper = NoHelper
  /\ IF cached \/ (wheel # None /\ wheel = sha)
       THEN Spawn(auto, cli) /\ UNCHANGED << wheel, sha >>
       ELSE DownloadNow(auto, cli)
  /\ UNCHANGED << released, installed, saved, running, mem, button, prev,
                  timers, threadVars >>

ClickUpdate ==
  /\ app = "up" /\ button.visible /\ button.enabled
  /\ Apply(button.cached, FALSE, FALSE)
  /\ UNCHANGED prompt

(* The popup: its countdown reaches zero, or Restart now.                  *)
PromptFires ==
  /\ app = "up" /\ prompt
  /\ prompt' = FALSE
  /\ Apply(button.cached, TRUE, FALSE)

(* "copytrades update": a process of its own, with no wheel in hand.       *)
CliUpdate ==
  /\ app = "down" \/ (CliWhileUp /\ app = "up")
  /\ Apply(FALSE, FALSE, TRUE)
  /\ UNCHANGED prompt

PromptDelayed ==
  /\ app = "up" /\ prompt /\ timers < MaxDelays
  /\ prompt' = FALSE
  /\ timers' = timers + 1
  /\ UNCHANGED << released, diskVars, saved, app, running, mem, button, prev,
                  copying, threadVars, helper, tried >>

(* The delay is over: the popup is shown, and nothing is marked.           *)
DelayEnds ==
  /\ app = "up" /\ timers > 0
  /\ prompt' = TRUE
  /\ timers' = timers - 1
  /\ UNCHANGED << released, diskVars, saved, app, running, mem, button, prev,
                  copying, threadVars, helper, tried >>

(* _auto_update_prompt_dismissed: the mark is taken back.                  *)
Declined ==
  /\ prompt' = FALSE
  /\ mem' = [mem EXCEPT !.mark = prev]
  /\ Save
  /\ tried' = tried \ {button.latest}

PromptDismissed ==
  /\ app = "up" /\ prompt
  /\ Declined
  /\ UNCHANGED << released, diskVars, app, running, button, prev, timers,
                  copying, threadVars, helper >>

-----------------------------------------------------------------------------
(* Toggling, starting and stopping.                                        *)
Toggle ==
  /\ app = "up"
  /\ mem' = [mem EXCEPT !.auto_update = ~@]
  /\ Save
  /\ UNCHANGED << released, diskVars, app, running, button, prompt, prev,
                  timers, copying, threadVars, helper, tried >>

Copying(from, to) ==
  /\ app = "up" /\ copying = from
  /\ copying' = to
  /\ UNCHANGED mem
  /\ IF to = "on" THEN Save ELSE UNCHANGED saved
  /\ UNCHANGED << released, diskVars, app, running, button, prompt, prev,
                  timers, threadVars, helper, tried >>

StartOrStop ==
  \/ Copying("off", "on")           \* Start
  \/ Copying("countdown", "on")     \* the countdown's Start ...
  \/ Copying("countdown", "off")    \* ... fails, or Cancel
  \/ Copying("on", "off")           \* Stop

-----------------------------------------------------------------------------
(* The end and the beginning of the manager's process.                     *)
UserCloses ==
  /\ app = "up"
  /\ app' = "quitting"
  /\ copying' = "off"
  /\ UNCHANGED << released, diskVars, saved, running, mem, button, prompt, prev,
                  timers, threadVars, helper, tried >>

(* The process is gone, with its threads, answers and timers.              *)
Gone ==
  /\ app' = "down"
  /\ checks' = {}
  /\ downloads' = [d \in Downloads |-> Idle]
  /\ done' = << >>
  /\ timers' = 0
  /\ button' = NoButton
  /\ prev' = 0
  /\ UNCHANGED << released, diskVars, running, copying, helper >>

Quits ==
  /\ app = "quitting"
  /\ IF prompt THEN Declined ELSE UNCHANGED << mem, prompt, tried >> /\ Save
  /\ Gone

(* The helper's patience is over: the parent is killed.                    *)
ForceKill ==
  /\ app = "quitting" /\ helper.phase = "wait" /\ ~helper.cli
  /\ prompt' = FALSE
  /\ UNCHANGED << mem, saved, tried >>
  /\ Gone

Launch(resume) ==
  /\ app = "down"
  /\ app' = "up"
  /\ running' = installed
  /\ mem' = saved
  /\ copying' = IF resume \/ AutoCopy THEN "countdown" ELSE "off"
  /\ UNCHANGED << released, diskVars, saved, button, threadVars, prompt,
                  prev, timers, tried >>

UserLaunches == helper = NoHelper /\ Launch(FALSE) /\ UNCHANGED helper

(* _reinstall: pip succeeds or fails; a file that is no wheel raises,      *)
(* which only the window's worker thread catches.                          *)
Reinstall ==
  IF wheel \in Versions
    THEN /\ installed' \in {wheel, installed}
         /\ helper' = [helper EXCEPT !.phase = "relaunch"]
    ELSE /\ installed' = installed
         /\ helper' = IF Window THEN [helper EXCEPT !.phase = "relaunch"]
                                ELSE NoHelper

HelperInstalls ==
  /\ helper.phase = "wait" /\ (app = "down" \/ helper.cli)
  /\ Reinstall
  /\ UNCHANGED << released, wheel, sha, saved, app, guiVars, threadVars, tried >>

(* Mutant of HelperRelaunches: the flags are not passed on.                *)
RelaunchesPlainly ==
  helper.phase = "relaunch" /\ Launch(FALSE) /\ helper' = NoHelper

HelperRelaunches ==
  helper.phase = "relaunch" /\ Launch(helper.resume) /\ helper' = NoHelper

-----------------------------------------------------------------------------
Init ==
  /\ released = 0 /\ installed = 0 /\ running = 0
  /\ wheel = None /\ sha = None
  /\ saved \in [mark : {0}, auto_update : BOOLEAN]
  /\ app = "up" /\ mem = saved /\ button = NoButton
  /\ checks = {} /\ downloads = [d \in Downloads |-> Idle] /\ done = << >>
  /\ prompt = FALSE /\ prev = 0 /\ timers = 0
  /\ copying = IF AutoCopy THEN "countdown" ELSE "off"
  /\ helper = NoHelper /\ tried = {}

Gui ==
  \/ CheckBegins \/ NothingFound \/ \E v \in Versions : UpdateFound(v)
  \/ Predownloaded
  \/ ClickUpdate \/ PromptFires \/ PromptDelayed \/ DelayEnds \/ PromptDismissed
  \/ Toggle \/ StartOrStop
  \/ UserCloses \/ Quits

Thread(d) == OpenWheel(d) \/ EndWheel(d) \/ Verify(d) \/ DownloadFails(d)

Helper == ForceKill \/ HelperInstalls \/ HelperRelaunches

Next == \/ Release \/ Gui \/ Helper \/ UserLaunches \/ CliUpdate
        \/ \E d \in Downloads : Thread(d)

Spec == Init /\ [][Next]_vars

(* The GUI's thread handles its events, threads and processes go on, and   *)
(* checks and downloads succeed again and again: hourly, for ever.         *)
Fairness ==
  /\ WF_vars(CheckBegins) /\ WF_vars(\E v \in Versions : UpdateFound(v))
  /\ WF_vars(Predownloaded) /\ \A d \in Downloads : WF_vars(Thread(d))
  /\ SF_vars(\E d \in Downloads : OpenWheel(d))
  /\ SF_vars(\E d \in Downloads : EndWheel(d) /\ wheel' \in Versions)
  /\ SF_vars(\E d \in Downloads : Verify(d) /\ wheel = released)
  /\ WF_vars(Quits \/ ForceKill)
  /\ WF_vars(HelperInstalls) /\ WF_vars(HelperRelaunches)

FairSpec == Spec /\ Fairness

-----------------------------------------------------------------------------
TypeOK ==
  /\ released \in Versions /\ installed \in Versions /\ running \in Versions
  /\ wheel \in Versions \cup {None, Torn}
  /\ sha \in Versions \cup {None}
  /\ saved \in Settings /\ mem \in Settings
  /\ app \in {"up", "quitting", "down"}
  /\ button \in [latest : Versions \cup {None}, cached : BOOLEAN,
                 visible : BOOLEAN, enabled : BOOLEAN]
  /\ checks \subseteq Versions
  /\ downloads \in [Downloads ->
       [stage : {"idle", "opening", "wheel", "sha", "ok", "failed"},
        ver : Versions \cup {None, Torn}]]
  /\ done \in Seq(Downloads)
  /\ prompt \in BOOLEAN /\ prev \in Versions /\ timers \in 0..MaxDelays
  /\ copying \in {"off", "countdown", "on"}
  /\ helper \in [phase : {"none", "wait", "relaunch"}, resume : BOOLEAN,
                 auto : BOOLEAN, cli : BOOLEAN]
  /\ tried \subseteq Versions

(* Once the downloads have come to rest, the path the window keeps is that *)
(* of a whole, verified wheel, however their writes to the one file and    *)
(* their answers were interleaved.                                         *)
CachedIsWhole ==
  (app = "up" /\ button.cached /\ \A d \in Downloads : downloads[d] = Idle)
    => (wheel \in Versions /\ wheel = sha)

(* "a pip failure that relaunches the old version cannot loop auto-restarts *)
(* for the same release": whatever fails on the way, no release is         *)
(* restarted for by itself a second time, across the restarts and the      *)
(* settings file, unless the user has declined it in between.              *)
AutoOncePerVersion ==
  [][(helper.phase = "none" /\ helper'.phase = "wait" /\ helper'.auto)
       => button.latest \notin tried]_vars

(* Once the manager has quit for an update it comes back, whether pip      *)
(* succeeds, fails, or is handed a broken file (README: "reliably          *)
(* relaunches the manager"), and a copy job that was stopped for the       *)
(* update is started again by the countdown (README: "the relaunched       *)
(* manager resumes copying").                                              *)
ComesBack ==
  \A r \in BOOLEAN :
    (helper.phase # "none" /\ helper.resume = r)
      ~> (app = "up" /\ (r => copying \in {"countdown", "on"}))

(* With the toggle on, a release that is neither installed nor marked is   *)
(* offered in the end, as long as the manager runs: a declined one again,  *)
(* and one whose download was torn or failed.                              *)
NewerIsOffered ==
  (app = "up" /\ mem.auto_update /\ running < released /\ mem.mark < released)
    ~> (prompt \/ app # "up" \/ ~mem.auto_update)

-----------------------------------------------------------------------------
(* What the documents say and the code does not keep.                      *)

(* apply_update_and_restart: "Ensure a verified wheel is ready"; the       *)
(* button is enabled "whenever a verified wheel is cached": what the       *)
(* helper is given to install is a whole wheel.                            *)
HelperGetsVerified ==
  [][(helper.phase = "none" /\ helper'.phase = "wait") => wheel' \in Versions]_vars

(* README: "copytrades update runs the same update from the command line"; *)
(* cached_update: "A stale/mismatched pair is deleted": an update installs *)
(* something newer when there is something newer.                          *)
UpdateIsNewer ==
  [][(/\ helper.phase = "none" /\ helper'.phase = "wait"
      /\ installed < released /\ wheel' \in Versions)
       => installed < wheel']_vars

(* A mark is "the newest version this install already auto-tried": a       *)
(* marked version that was not tried is being asked for or will be.        *)
MarkIsAccountedFor ==
  (app = "up" /\ running < mem.mark /\ mem.mark \notin tried)
    => (prompt \/ timers > 0)
=============================================================================
