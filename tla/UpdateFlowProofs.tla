-------------------------- MODULE UpdateFlowProofs --------------------------
(***************************************************************************)
(* Proofs about UpdateFlow, for any number of versions, of downloads that  *)
(* overlap and of delay timers.                                            *)
(***************************************************************************)
EXTENDS UpdateFlow, SequenceTheorems, TLAPS

(* Whatever a version is asked of belongs to one that was found.           *)
Known ==
  (\/ \E d \in Downloads : downloads[d].stage # "idle"
   \/ prompt \/ timers > 0) => button.latest \in Versions

Typed == TypeOK /\ Known

(* The threads that have not finished, and may still write the files.      *)
Active == {d \in Downloads : downloads[d].stage \in {"opening", "wheel", "sha"}}

(* Every finished download is queued once.                                 *)
QueuedOnce ==
  /\ \A i \in DOMAIN done : downloads[done[i]].stage \in {"ok", "failed"}
  /\ \A i, j \in DOMAIN done : done[i] = done[j] => i = j
  /\ \A d \in Downloads : downloads[d].stage \in {"ok", "failed"} =>
       \E i \in DOMAIN done : done[i] = d

(* What the window will hold of the cache when it has handled every signal.*)
LastOk == IF done = << >> THEN button.cached
                          ELSE downloads[done[Len(done)]].stage = "ok"

Whole == wheel \in Versions /\ wheel = sha

(* When no thread writes any more and the last to finish succeeded, the    *)
(* pair of files is whole.                                                 *)
LastIsWhole == Active = {} /\ LastOk => Whole

(* The button can be clicked when a wheel is cached.                       *)
EnabledIsCached == button.enabled => button.cached

CacheInv == QueuedOnce /\ LastIsWhole /\ EnabledIsCached

-----------------------------------------------------------------------------
(* The types of records.                                                   *)
Buttons == [latest : Versions \cup {None}, cached : BOOLEAN,
            visible : BOOLEAN, enabled : BOOLEAN]
Stages  == {"idle", "opening", "wheel", "sha", "ok", "failed"}
Threads == [stage : Stages, ver : Versions \cup {None, Torn}]
Helpers == [phase : {"none", "wait", "relaunch"}, resume : BOOLEAN,
            auto : BOOLEAN, cli : BOOLEAN]

LEMMA Records ==
  ASSUME TypeOK
  PROVE  /\ button \in Buttons /\ helper \in Helpers
         /\ downloads \in [Downloads -> Threads]
         /\ saved \in Settings /\ mem \in Settings
  BY DEF TypeOK, Buttons, Helpers, Threads, Stages

(* The steps of the window that change only a few of its variables.        *)
LEMMA ButtonTyped ==
  ASSUME TypeOK
  PROVE  /\ \A v \in Versions \cup {None} : \A b, c, e \in BOOLEAN :
              [button EXCEPT !.latest = v, !.visible = b, !.enabled = e] \in Buttons
         /\ \A b \in BOOLEAN : [button EXCEPT !.visible = b] \in Buttons
         /\ \A c, e \in BOOLEAN :
              [button EXCEPT !.cached = c, !.enabled = e] \in Buttons
         /\ NoButton \in Buttons
<1>1. button \in Buttons
  BY Records
<1> QED
  BY <1>1 DEF Buttons, NoButton

LEMMA SettingsTyped ==
  ASSUME TypeOK
  PROVE  /\ \A v \in Versions : [mem EXCEPT !.mark = v] \in Settings
         /\ [mem EXCEPT !.auto_update = ~@] \in Settings
<1>1. mem \in Settings
  BY Records
<1> QED
  BY <1>1 DEF Settings

LEMMA ThreadTyped ==
  ASSUME TypeOK, NEW d \in Downloads
  PROVE  /\ \A stage \in Stages : [downloads[d] EXCEPT !.stage = stage] \in Threads
         /\ \A ver \in Versions \cup {None, Torn} :
              [downloads[d] EXCEPT !.ver = ver] \in Threads
         /\ \A ver \in Versions \cup {None, Torn} :
              [stage |-> "wheel", ver |-> ver] \in Threads
         /\ Idle \in Threads
<1>1. downloads[d] \in Threads
  BY Records
<1> QED
  BY <1>1 DEF Threads, Idle, Stages

-----------------------------------------------------------------------------
(* Types, action by action.                                                *)
LEMMA FoundTyped ==
  ASSUME Typed, \/ Release \/ CheckBegins \/ NothingFound
                \/ \E v \in Versions : UpdateFound(v)
  PROVE  Typed'
<1>0. TypeOK
  BY DEF Typed
<1>1. CASE Release
  <2>1. /\ UNCHANGED << diskVars, saved, app, guiVars, threadVars, helper, tried >>
        /\ released' \in Versions
    BY <1>0, <1>1, UpdateConstants DEF Release, TypeOK, Versions
  <2> QED
    BY <1>0, <2>1 DEF Typed, TypeOK, Known, diskVars, guiVars, threadVars
<1>2. CASE CheckBegins
  <2>1. /\ UNCHANGED << released, diskVars, saved, app, guiVars, downloads, done,
                        helper, tried >>
        /\ checks' = checks \cup {released}
    BY <1>2 DEF CheckBegins
  <2>2. checks' \subseteq Versions
    BY <1>0, <2>1 DEF TypeOK
  <2> QED
    BY <1>0, <2>1, <2>2 DEF Typed, TypeOK, Known, diskVars, guiVars
<1>3. CASE NothingFound
  <2>1. button' \in Buttons /\ button'.latest = button.latest
    BY <1>0, <1>3, ButtonTyped, Records DEF NothingFound, Buttons
  <2> QED
    BY <1>3, <2>1
       DEF NothingFound, Typed, TypeOK, Known, diskVars, threadVars, Buttons
<1>4. ASSUME NEW v \in Versions, UpdateFound(v) PROVE Typed'
  <2>1. button' \in Buttons /\ button'.latest = v
    <3>1. button' = [button EXCEPT !.latest = v, !.visible = TRUE, !.enabled = FALSE]
      BY <1>4 DEF UpdateFound
    <3>2. button' \in Buttons
      BY <3>1, <1>0, ButtonTyped
    <3>3. button \in Buttons
      BY <1>0, Records
    <3> QED
      BY <3>1, <3>2, <3>3 DEF Buttons
  <2>2. downloads' \in [Downloads -> Threads]
    <3>1. PICK d \in Downloads :
            downloads' = [downloads EXCEPT ![d].stage = "opening"]
      BY <1>4 DEF UpdateFound
    <3>2. [downloads[d] EXCEPT !.stage = "opening"] \in Threads
      BY <1>0, ThreadTyped DEF Stages
    <3> QED
      BY <3>1, <3>2, <1>0, Records
  <2>3. UNCHANGED << released, diskVars, saved, app, running, mem, prompt, prev,
                     timers, copying, done, helper, tried >>
        /\ checks' \subseteq checks
    BY <1>4 DEF UpdateFound
  <2> QED
    BY <2>1, <2>2, <2>3
       DEF Typed, TypeOK, Known, diskVars, Buttons, Threads, Stages
<1> QED
  BY <1>1, <1>2, <1>3, <1>4

LEMMA ThreadsTyped ==
  ASSUME Typed, NEW d \in Downloads, Thread(d)
  PROVE  Typed'
<1>0. TypeOK /\ downloads \in [Downloads -> Threads] /\ done \in Seq(Downloads)
  BY Records DEF Typed, TypeOK
<1>1. UNCHANGED << released, installed, saved, app, guiVars, checks, helper, tried >>
      /\ downloads[d].stage \in {"opening", "wheel", "sha"}
  BY DEF Thread, OpenWheel, EndWheel, Verify, DownloadFails, ThreadStep
<1>2. /\ wheel' \in Versions \cup {None, Torn} /\ sha' \in Versions \cup {None}
      /\ downloads' \in [Downloads -> Threads]
      /\ done' \in Seq(Downloads)
  <2>1. ASSUME NEW stage \in {"sha", "ok", "failed"}, Moves(d, stage)
        PROVE  downloads' \in [Downloads -> Threads] /\ done' \in Seq(Downloads)
    <3>1. [downloads[d] EXCEPT !.stage = stage] \in Threads
      BY <1>0, ThreadTyped DEF Stages
    <3> QED
      BY <2>1, <3>1, <1>0 DEF Moves
  <2>2. CASE OpenWheel(d)
    <3> DEFINE clash == {e \in Writers : downloads[e].ver # released}
               new(e) == IF e = d THEN [stage |-> "wheel",
                                   ver |-> IF clash = {} THEN released ELSE Torn]
                         ELSE IF e \in clash THEN [downloads[e] EXCEPT !.ver = Torn]
                         ELSE downloads[e]
    <3>1. /\ downloads' = [e \in Downloads |-> new(e)]
          /\ wheel' = Torn /\ UNCHANGED << sha, done >>
      BY <2>2 DEF OpenWheel
    <3>2. \A e \in Downloads : new(e) \in Threads
      <4>1. released \in Versions \cup {None, Torn} /\ Torn \in Versions \cup {None, Torn}
        BY <1>0 DEF TypeOK
      <4> HIDE DEF clash
      <4> QED
        BY <4>1, <1>0, ThreadTyped
    <3> HIDE DEF new
    <3> QED
      BY <3>1, <3>2, <1>0 DEF TypeOK
  <2>3. CASE EndWheel(d)
    <3>1. downloads[d].ver \in Versions \cup {None, Torn} /\ Moves(d, "sha")
      BY <2>3, <1>0 DEF EndWheel, Threads
    <3> QED
      BY <3>1, <2>1, <2>3, <1>0 DEF EndWheel, TypeOK
  <2>4. CASE Verify(d)
    <3>1. \E stage \in {"ok", "failed"} : Moves(d, stage)
      BY <2>4 DEF Verify
    <3>2. wheel' \in {wheel, None} /\ sha' \in {released, None}
      BY <2>4 DEF Verify, Unlink
    <3> QED
      BY <3>1, <3>2, <2>1, <1>0 DEF TypeOK
  <2>5. CASE DownloadFails(d)
    BY <2>1, <2>5, <1>0 DEF DownloadFails, TypeOK
  <2> QED
    BY <2>2, <2>3, <2>4, <2>5 DEF Thread
<1>3. button.latest \in Versions
  BY <1>1 DEF Typed, Known
<1> QED
  BY <1>0, <1>1, <1>2, <1>3 DEF Typed, TypeOK, Known, guiVars, Threads, Stages

LEMMA PredownloadedTyped ==
  ASSUME Typed, QueuedOnce, Predownloaded
  PROVE  Typed'
<1> DEFINE d == Head(done)
<1>0. TypeOK /\ downloads \in [Downloads -> Threads] /\ done \in Seq(Downloads)
  BY Records DEF Typed, TypeOK
<1>1. /\ done # << >> /\ d \in Downloads
      /\ downloads' = [downloads EXCEPT ![d] = Idle] /\ done' = Tail(done)
      /\ UNCHANGED << released, diskVars, app, running, timers, copying, checks,
                      helper, tried >>
  BY <1>0 DEF Predownloaded
<1>2. button.latest \in Versions
  <2>1. downloads[done[1]].stage \in {"ok", "failed"}
    BY <1>0, <1>1 DEF QueuedOnce
  <2>2. done[1] \in Downloads
    BY <1>0, <1>1
  <2> QED
    BY <2>1, <2>2 DEF Typed, Known
<1>3. button' \in Buttons /\ button'.latest = button.latest
  <2>1. \E c, e \in BOOLEAN : button' = [button EXCEPT !.cached = c, !.enabled = e]
    BY DEF Predownloaded
  <2>2. button' \in Buttons
    BY <2>1, <1>0, ButtonTyped
  <2>3. button \in Buttons
    BY <1>0, Records
  <2> QED
    BY <2>1, <2>2, <2>3 DEF Buttons
<1>4. /\ mem' \in Settings /\ saved' \in Settings /\ prompt' \in BOOLEAN
      /\ prev' \in Versions
  <2>1. \/ UNCHANGED << prev, mem, saved, prompt >>
        \/ /\ prev' = mem.mark /\ mem' = [mem EXCEPT !.mark = button.latest]
           /\ saved' = mem' /\ prompt' = TRUE
    BY DEF Predownloaded, MaybeRestart, Save
  <2>2. mem.mark \in Versions
    BY <1>0, Records DEF Settings
  <2>3. [mem EXCEPT !.mark = button.latest] \in Settings
    BY <1>0, <1>2, SettingsTyped
  <2> QED
    BY <2>1, <2>2, <2>3, <1>0 DEF TypeOK
<1>5. downloads' \in [Downloads -> Threads] /\ done' \in Seq(Downloads)
  BY <1>0, <1>1, ThreadTyped
<1> HIDE DEF d
<1> QED
  BY <1>0, <1>1, <1>2, <1>3, <1>4, <1>5
     DEF Typed, TypeOK, Known, diskVars, Buttons, Threads, Stages

(* apply_update_and_restart.                                               *)
LEMMA SpawnTyped ==
  ASSUME TypeOK, NEW auto \in BOOLEAN, NEW cli \in BOOLEAN, Spawn(auto, cli),
         auto => button.latest \in Versions
  PROVE  /\ helper' \in Helpers /\ app' \in {"up", "quitting", "down"}
         /\ copying' \in {"off", "countdown", "on"} /\ tried' \subseteq Versions
<1>1. helper' \in Helpers
  <2>1. (~cli /\ copying = "on") \in BOOLEAN
    OBVIOUS
  <2> QED
    BY <2>1 DEF Spawn, Helpers
<1> QED
  BY <1>1 DEF Spawn, TypeOK

LEMMA ApplyTyped ==
  ASSUME Typed, NEW cached \in BOOLEAN, NEW auto \in BOOLEAN, NEW cli \in BOOLEAN,
         Apply(cached, auto, cli), auto => prompt, prompt' \in BOOLEAN,
         prompt' => prompt
  PROVE  Typed'
<1>0. TypeOK
  BY DEF Typed
<1>1. UNCHANGED << released, installed, saved, running, mem, button, prev, timers,
                  threadVars >>
  BY DEF Apply
<1>2. wheel' \in Versions \cup {None, Torn} /\ sha' \in Versions \cup {None}
  BY <1>0 DEF Apply, DownloadNow, Unlink, TypeOK
<1>3. Spawn(auto, cli) \/ UNCHANGED << helper, app, copying, tried >>
  BY DEF Apply, DownloadNow
<1>4. auto => button.latest \in Versions
  BY DEF Typed, Known
<1>5. /\ helper' \in Helpers /\ app' \in {"up", "quitting", "down"}
      /\ copying' \in {"off", "countdown", "on"} /\ tried' \subseteq Versions
  <2>1. CASE Spawn(auto, cli)
    BY <2>1, <1>0, <1>4, SpawnTyped
  <2>2. CASE UNCHANGED << helper, app, copying, tried >>
    BY <2>2, <1>0, Records DEF TypeOK
  <2> QED
    BY <2>1, <2>2, <1>3
<1> QED
  BY <1>0, <1>1, <1>2, <1>5 DEF Typed, TypeOK, Known, threadVars, Helpers

LEMMA WindowTyped ==
  ASSUME Typed, \/ ClickUpdate \/ PromptFires \/ PromptDelayed \/ DelayEnds
                \/ PromptDismissed \/ Toggle \/ StartOrStop \/ UserCloses
                \/ CliUpdate
  PROVE  Typed'
<1>0. TypeOK /\ button.cached \in BOOLEAN /\ prompt \in BOOLEAN
  BY Records DEF Typed, TypeOK, Buttons
<1>1. CASE ClickUpdate
  BY <1>0, <1>1, ApplyTyped DEF ClickUpdate
<1>2. CASE PromptFires
  BY <1>0, <1>2, ApplyTyped DEF PromptFires
<1>3. CASE CliUpdate
  BY <1>0, <1>3, ApplyTyped DEF CliUpdate
<1>4. CASE PromptDelayed \/ DelayEnds
  <2>1. /\ UNCHANGED << released, diskVars, saved, app, running, mem, button, prev,
                        copying, threadVars, helper, tried >>
        /\ timers' \in 0..MaxDelays /\ prompt' \in BOOLEAN
        /\ prompt \/ timers > 0
    <3>1. timers \in 0..MaxDelays /\ MaxDelays \in Nat
      BY <1>0, UpdateConstants DEF TypeOK
    <3>2. CASE PromptDelayed
      <4>1. timers < MaxDelays /\ timers' = timers + 1 /\ prompt /\ prompt' = FALSE
        BY <3>2 DEF PromptDelayed
      <4>2. timers' \in 0..MaxDelays
        BY <4>1, <3>1
      <4> QED
        BY <3>2, <4>1, <4>2 DEF PromptDelayed
    <3>3. CASE DelayEnds
      BY <3>1, <3>3 DEF DelayEnds
    <3> QED
      BY <1>4, <3>2, <3>3
  <2> QED
    BY <1>0, <2>1 DEF Typed, TypeOK, Known, diskVars, threadVars
<1>5. CASE PromptDismissed
  <2>1. /\ UNCHANGED << released, diskVars, app, running, button, prev, timers,
                        copying, threadVars, helper >>
        /\ prompt' = FALSE /\ mem' = [mem EXCEPT !.mark = prev] /\ saved' = mem'
        /\ tried' \subseteq tried
    BY <1>5 DEF PromptDismissed, Declined, Save
  <2>2. prev \in Versions
    BY <1>0 DEF TypeOK
  <2>3. mem' \in Settings /\ saved' \in Settings
    BY <1>0, <2>1, <2>2, SettingsTyped
  <2> QED
    <3>1. tried' \subseteq Versions
      BY <1>0, <2>1 DEF TypeOK
    <3>2. TypeOK'
      <4>1. /\ UNCHANGED << released, diskVars, app, running, button, prev, timers,
                            copying, threadVars, helper >>
            /\ prompt' \in BOOLEAN
        BY <2>1
      <4> QED
        BY <1>0, <2>3, <3>1, <4>1 DEF TypeOK, diskVars, threadVars
    <3>3. Known'
      BY <2>1 DEF Typed, Known, threadVars
    <3> QED
      BY <3>2, <3>3 DEF Typed
<1>6. CASE Toggle
  <2>1. /\ UNCHANGED << released, diskVars, app, running, button, prompt, prev,
                        timers, copying, threadVars, helper, tried >>
        /\ mem' = [mem EXCEPT !.auto_update = ~@] /\ saved' = mem'
    BY <1>6 DEF Toggle, Save
  <2>2. mem' \in Settings /\ saved' \in Settings
    BY <1>0, <2>1, SettingsTyped
  <2> QED
    BY <1>0, <2>1, <2>2 DEF Typed, TypeOK, Known, diskVars, threadVars
<1>7. CASE StartOrStop
  <2>1. /\ UNCHANGED << released, diskVars, app, running, mem, button, prompt, prev,
                        timers, threadVars, helper, tried >>
        /\ copying' \in {"on", "off"} /\ saved' \in {saved, mem}
    BY <1>7 DEF StartOrStop, Copying, Save
  <2> QED
    BY <1>0, <2>1 DEF Typed, TypeOK, Known, diskVars, threadVars
<1>8. CASE UserCloses
  BY <1>0, <1>8 DEF UserCloses, Typed, TypeOK, Known, diskVars, threadVars
<1> QED
  BY <1>1, <1>2, <1>3, <1>4, <1>5, <1>6, <1>7, <1>8

LEMMA GoneTyped ==
  ASSUME Typed, Gone, prompt' = FALSE, mem' \in Settings, saved' \in Settings,
         tried' \subseteq Versions, UNCHANGED diskVars
  PROVE  Typed'
<1>0. TypeOK
  BY DEF Typed
<1>1. /\ UNCHANGED << released, diskVars, running, copying, helper >>
      /\ app' = "down" /\ checks' = {} /\ done' = << >> /\ timers' = 0
      /\ button' = NoButton /\ prev' = 0
      /\ downloads' = [d \in Downloads |-> Idle]
  BY DEF Gone
<1>2. 0 \in Versions /\ 0 \in 0..MaxDelays /\ << >> \in Seq(Downloads)
  BY UpdateConstants DEF Versions
<1>3. downloads' \in [Downloads -> Threads] /\ button' \in Buttons
  BY <1>0, <1>1, ThreadTyped, ButtonTyped
<1>4. Known'
  BY <1>1 DEF Known, Idle
<1> QED
  BY <1>0, <1>1, <1>2, <1>3, <1>4
     DEF Typed, TypeOK, diskVars, Buttons, Threads, Stages

LEMMA ProcessTyped ==
  ASSUME Typed, Quits \/ ForceKill \/ UserLaunches \/ HelperInstalls
                \/ HelperRelaunches
  PROVE  Typed'
<1>0. TypeOK /\ mem \in Settings /\ saved \in Settings /\ helper \in Helpers
  BY Records DEF Typed
<1>1. CASE Quits
  <2>1. /\ Gone /\ prompt' = FALSE /\ UNCHANGED diskVars
        /\ \/ mem' = [mem EXCEPT !.mark = prev] /\ saved' = mem'
              /\ tried' = tried \ {button.latest}
           \/ mem' = mem /\ saved' = mem' /\ tried' = tried
    BY <1>0, <1>1 DEF Quits, Gone, Declined, Save, TypeOK
  <2>2. prev \in Versions /\ tried \subseteq Versions
    BY <1>0 DEF TypeOK
  <2>3. mem' \in Settings /\ saved' \in Settings /\ tried' \subseteq Versions
    BY <1>0, <2>1, <2>2, SettingsTyped
  <2> QED
    BY <2>1, <2>3, GoneTyped
<1>2. CASE ForceKill
  <2>1. /\ Gone /\ prompt' = FALSE /\ UNCHANGED << diskVars, mem, saved, tried >>
    BY <1>2 DEF ForceKill, Gone
  <2>2. mem' \in Settings /\ saved' \in Settings /\ tried' \subseteq Versions
    BY <1>0, <2>1 DEF TypeOK
  <2> QED
    BY <2>1, <2>2, GoneTyped
<1>3. CASE UserLaunches \/ HelperRelaunches
  <2>1. /\ UNCHANGED << released, diskVars, saved, button, threadVars, prompt,
                        prev, timers, tried >>
        /\ app' = "up" /\ running' = installed /\ mem' = saved
        /\ copying' \in {"countdown", "off"}
        /\ helper' \in {helper, NoHelper}
    BY <1>3 DEF UserLaunches, HelperRelaunches, Launch
  <2>2. helper' \in Helpers
    <3>1. NoHelper \in Helpers
      BY DEF NoHelper, Helpers
    <3> QED
      BY <3>1, <1>0, <2>1
  <2> QED
    BY <1>0, <2>1, <2>2 DEF Typed, TypeOK, Known, diskVars, threadVars, Helpers
<1>4. CASE HelperInstalls
  <2>1. UNCHANGED << released, wheel, sha, saved, app, guiVars, threadVars, tried >>
    BY <1>4 DEF HelperInstalls
  <2>2. installed' \in Versions
    BY <1>0, <1>4 DEF HelperInstalls, Reinstall, TypeOK
  <2>3. helper' \in Helpers
    <3>1. helper' = [helper EXCEPT !.phase = "relaunch"] \/ helper' = NoHelper
      BY <1>4 DEF HelperInstalls, Reinstall
    <3>2. [helper EXCEPT !.phase = "relaunch"] \in Helpers /\ NoHelper \in Helpers
      BY <1>0 DEF NoHelper, Helpers
    <3> QED
      BY <3>1, <3>2
  <2> QED
    BY <1>0, <2>1, <2>2, <2>3 DEF Typed, TypeOK, Known, guiVars, threadVars, Helpers
<1> QED
  BY <1>1, <1>2, <1>3, <1>4

LEMMA InitTyped ==
  ASSUME Init
  PROVE  Typed
<1>1. 0 \in Versions /\ 0 \in 0..MaxDelays /\ << >> \in Seq(Downloads)
  BY UpdateConstants DEF Versions
<1>2. saved \in Settings /\ mem \in Settings
  BY <1>1 DEF Init, Settings
<1>3. copying \in {"off", "countdown", "on"}
  BY DEF Init
<1>4. helper \in Helpers /\ button \in Buttons
  BY DEF Init, NoHelper, NoButton, Helpers, Buttons
<1>5. downloads \in [Downloads -> Threads]
  BY DEF Init, Threads, Idle, Stages
<1>6. TypeOK
  BY <1>1, <1>2, <1>3, <1>4, <1>5 DEF Init, TypeOK, Buttons, Helpers, Threads, Stages
<1>7. Known
  BY DEF Init, Known, Idle
<1> QED
  BY <1>6, <1>7 DEF Typed

LEMMA NextTyped ==
  ASSUME Typed, QueuedOnce, [Next]_vars
  PROVE  Typed'
<1>1. CASE UNCHANGED vars
  BY <1>1 DEF vars, diskVars, threadVars, guiVars, Typed, TypeOK, Known
<1>2. CASE Next
  BY <1>2, FoundTyped, ThreadsTyped, PredownloadedTyped, WindowTyped, ProcessTyped
     DEF Next, Gui, Helper
<1> QED
  BY <1>1, <1>2

-----------------------------------------------------------------------------
(* The cached wheel, action by action.                                     *)

(* Steps that touch neither the files nor the downloads.                   *)
LEMMA CacheFrame ==
  ASSUME CacheInv, UNCHANGED << wheel, sha, downloads, done >>,
         button'.cached = button.cached, button'.enabled = button.enabled
  PROVE  CacheInv'
<1>1. QueuedOnce'
  BY DEF CacheInv, QueuedOnce
<1>2. Active' = Active
  BY DEF Active
<1>3. LastOk' = LastOk
  BY DEF LastOk
<1>4. LastIsWhole'
  BY <1>2, <1>3 DEF CacheInv, LastIsWhole, Whole
<1> QED
  BY <1>1, <1>4 DEF CacheInv, EnabledIsCached

(* A download that has begun has yet to finish.                            *)
LEMMA BeginsQueued ==
  ASSUME TypeOK, QueuedOnce, NEW d \in Downloads,
         downloads[d].stage \in {"idle", "opening", "wheel"},
         \A e \in Downloads \ {d} : downloads'[e].stage = downloads[e].stage,
         downloads'[d].stage \in {"opening", "wheel", "sha"}, done' = done
  PROVE  QueuedOnce' /\ Active' # {}
<1>1. \A i \in DOMAIN done : done[i] \in Downloads
  BY DEF TypeOK
<1>2. \A i \in DOMAIN done : done[i] # d
  BY DEF QueuedOnce
<1>3. QueuedOnce'
  BY <1>1, <1>2 DEF QueuedOnce
<1>4. d \in Active'
  BY DEF Active
<1> QED
  BY <1>3, <1>4

(* A download that ends is queued behind the others.                       *)
LEMMA EndsQueued ==
  ASSUME TypeOK, QueuedOnce, NEW d \in Downloads,
         downloads[d].stage \in {"opening", "wheel", "sha"},
         NEW stage \in {"ok", "failed"}, Moves(d, stage)
  PROVE  QueuedOnce' /\ (LastOk' <=> stage = "ok")
<1>0. done \in Seq(Downloads) /\ downloads \in [Downloads -> Threads]
  BY Records DEF TypeOK
<1>1. downloads' = [downloads EXCEPT ![d].stage = stage] /\ done' = Append(done, d)
  BY DEF Moves
<1>2. /\ downloads'[d].stage = stage
      /\ \A e \in Downloads \ {d} : downloads'[e].stage = downloads[e].stage
  <2>1. [downloads[d] EXCEPT !.stage = stage].stage = stage
    BY <1>0 DEF Threads
  <2>2. downloads'[d] = [downloads[d] EXCEPT !.stage = stage]
    BY <1>0, <1>1
  <2>3. \A e \in Downloads \ {d} : downloads'[e] = downloads[e]
    BY <1>0, <1>1
  <2> QED
    BY <2>1, <2>2, <2>3
<1>3. /\ Len(done') = Len(done) + 1 /\ DOMAIN done' = 1..(Len(done) + 1)
      /\ done'[Len(done) + 1] = d
      /\ \A i \in DOMAIN done : done'[i] = done[i]
      /\ DOMAIN done = 1..Len(done) /\ Len(done) \in Nat
  BY <1>0, <1>1
<1>4. \A i \in DOMAIN done : done[i] \in Downloads \ {d}
  BY <1>0 DEF QueuedOnce
<1>5. \A i \in DOMAIN done' : i \in DOMAIN done \/ i = Len(done) + 1
  BY <1>3
<1>6. \A i \in DOMAIN done' : downloads'[done'[i]].stage \in {"ok", "failed"}
  <2> SUFFICES ASSUME NEW i \in DOMAIN done'
               PROVE  downloads'[done'[i]].stage \in {"ok", "failed"}
    OBVIOUS
  <2>1. CASE i \in DOMAIN done
    <3>1. downloads'[done[i]].stage = downloads[done[i]].stage
      BY <1>2, <1>4, <2>1
    <3> QED
      BY <2>1, <3>1, <1>3 DEF QueuedOnce
  <2>2. CASE i = Len(done) + 1
    BY <2>2, <1>2, <1>3
  <2> QED
    BY <1>5, <2>1, <2>2
<1>7. \A i, j \in DOMAIN done' : done'[i] = done'[j] => i = j
  BY <1>3, <1>4, <1>5 DEF QueuedOnce
<1>8. \A e \in Downloads : downloads'[e].stage \in {"ok", "failed"} =>
        \E i \in DOMAIN done' : done'[i] = e
  <2>1. DOMAIN done \subseteq DOMAIN done' /\ Len(done) + 1 \in DOMAIN done'
    BY <1>3
  <2> QED
    BY <1>2, <1>3, <2>1 DEF QueuedOnce
<1>9. done' # << >> /\ done'[Len(done')] = d
  BY <1>0, <1>1, <1>3
<1> QED
  BY <1>2, <1>6, <1>7, <1>8, <1>9 DEF QueuedOnce, LastOk

LEMMA ThreadsCache ==
  ASSUME TypeOK, CacheInv, NEW d \in Downloads, Thread(d)
  PROVE  CacheInv'
<1>0. downloads \in [Downloads -> Threads] /\ QueuedOnce
  BY Records DEF CacheInv
<1>1. EnabledIsCached'
  BY DEF Thread, OpenWheel, EndWheel, Verify, DownloadFails, ThreadStep, guiVars,
         CacheInv, EnabledIsCached
<1>2. CASE OpenWheel(d)
  <2>1. downloads[d].stage = "opening" /\ done' = done
    BY <1>2 DEF OpenWheel, ThreadStep
  <2>2. downloads'[d].stage = "wheel"
    BY <1>2 DEF OpenWheel
  <2>3. \A e \in Downloads \ {d} : downloads'[e].stage = downloads[e].stage
    <3> SUFFICES ASSUME NEW e \in Downloads \ {d}
                 PROVE  downloads'[e].stage = downloads[e].stage
      OBVIOUS
    <3>1. downloads'[e] \in {downloads[e], [downloads[e] EXCEPT !.ver = Torn]}
      BY <1>2 DEF OpenWheel
    <3> QED
      BY <3>1, <1>0 DEF Threads
  <2>4. QueuedOnce' /\ Active' # {}
    BY <2>1, <2>2, <2>3, <1>0, BeginsQueued
  <2> QED
    BY <2>4, <1>1 DEF CacheInv, LastIsWhole
<1>3. CASE EndWheel(d)
  <2>1. /\ downloads[d].stage = "wheel" /\ done' = done
        /\ downloads' = [downloads EXCEPT ![d].stage = "sha"]
    BY <1>3 DEF EndWheel, ThreadStep, Moves
  <2>2. downloads'[d].stage = "sha"
    <3>1. downloads'[d] = [downloads[d] EXCEPT !.stage = "sha"]
      BY <2>1, <1>0
    <3> QED
      BY <3>1, <1>0 DEF Threads
  <2>3. \A e \in Downloads \ {d} : downloads'[e].stage = downloads[e].stage
    BY <2>1, <1>0
  <2>4. QueuedOnce' /\ Active' # {}
    BY <2>1, <2>2, <2>3, <1>0, BeginsQueued
  <2> QED
    BY <2>4, <1>1 DEF CacheInv, LastIsWhole
<1>4. CASE Verify(d)
  <2>1. downloads[d].stage = "sha"
    BY <1>4 DEF Verify, ThreadStep
  <2>2. CASE wheel = released
    <3>1. Moves(d, "ok") /\ sha' = released /\ wheel' = wheel
      BY <1>4, <2>2 DEF Verify
    <3>2. QueuedOnce'
      BY <2>1, <3>1, <1>0, EndsQueued
    <3>3. Whole'
      BY <2>2, <3>1 DEF Whole, TypeOK
    <3> QED
      BY <3>2, <3>3, <1>1 DEF CacheInv, LastIsWhole
  <2>3. CASE wheel # released
    <3>1. Moves(d, "failed")
      BY <1>4, <2>3 DEF Verify
    <3>2. QueuedOnce' /\ ~LastOk'
      BY <2>1, <3>1, <1>0, EndsQueued
    <3> QED
      BY <3>2, <1>1 DEF CacheInv, LastIsWhole
  <2> QED
    BY <2>2, <2>3
<1>5. CASE DownloadFails(d)
  <2>1. downloads[d].stage \in {"opening", "wheel", "sha"} /\ Moves(d, "failed")
    BY <1>5 DEF DownloadFails, ThreadStep
  <2>2. QueuedOnce' /\ ~LastOk'
    BY <2>1, <1>0, EndsQueued
  <2> QED
    BY <2>2, <1>1 DEF CacheInv, LastIsWhole
<1> QED
  BY <1>2, <1>3, <1>4, <1>5 DEF Thread

LEMMA FoundCache ==
  ASSUME TypeOK, CacheInv, NEW v \in Versions, UpdateFound(v)
  PROVE  CacheInv'
<1>1. PICK d \in Downloads :
        downloads[d] = Idle /\ downloads' = [downloads EXCEPT ![d].stage = "opening"]
  BY DEF UpdateFound
<1>2. downloads \in [Downloads -> Threads] /\ QueuedOnce
  BY Records DEF CacheInv
<1>3. downloads[d].stage = "idle" /\ done' = done
  BY <1>1 DEF Idle, UpdateFound
<1>4. downloads'[d].stage = "opening"
  <2>1. downloads'[d] = [downloads[d] EXCEPT !.stage = "opening"]
    BY <1>1, <1>2
  <2> QED
    BY <2>1, <1>2 DEF Threads
<1>5. \A e \in Downloads \ {d} : downloads'[e].stage = downloads[e].stage
  BY <1>1, <1>2
<1>6. QueuedOnce' /\ Active' # {}
  BY <1>2, <1>3, <1>4, <1>5, BeginsQueued
<1>7. ~button'.enabled
  <2>1. button' = [button EXCEPT !.latest = v, !.visible = TRUE, !.enabled = FALSE]
    BY DEF UpdateFound
  <2> QED
    BY <2>1, Records DEF Buttons
<1> QED
  BY <1>6, <1>7 DEF CacheInv, LastIsWhole, EnabledIsCached

(* The window is told of the downloads in the order in which they ended:   *)
(* what the last of them will make of it does not change.                  *)
LEMMA PredownloadedCache ==
  ASSUME TypeOK, CacheInv, Predownloaded
  PROVE  CacheInv'
<1> DEFINE d == Head(done)
<1>0. /\ done \in Seq(Downloads) /\ downloads \in [Downloads -> Threads]
      /\ button \in Buttons /\ QueuedOnce /\ LastIsWhole
  BY Records DEF TypeOK, CacheInv
<1>1. /\ done # << >> /\ d \in Downloads /\ d = done[1] /\ done' = Tail(done)
      /\ downloads' = [downloads EXCEPT ![d] = Idle]
      /\ UNCHANGED << wheel, sha >>
  BY <1>0 DEF Predownloaded, diskVars
<1>2. /\ Len(done) \in Nat \ {0} /\ DOMAIN done = 1..Len(done)
      /\ Len(done') = Len(done) - 1 /\ DOMAIN done' = 1..(Len(done) - 1)
      /\ \A i \in DOMAIN done' : done'[i] = done[i + 1] /\ i + 1 \in DOMAIN done
      /\ \A i \in DOMAIN done : i = 1 \/ i - 1 \in DOMAIN done'
      /\ \A i \in DOMAIN done : i \in Nat \ {0}
  BY <1>0, <1>1
<1>3. /\ downloads'[d].stage = "idle"
      /\ \A e \in Downloads \ {d} : downloads'[e] = downloads[e]
  BY <1>0, <1>1 DEF Idle
<1>4. downloads[d].stage \in {"ok", "failed"}
  BY <1>0, <1>1, <1>2 DEF QueuedOnce
<1>5. \A i \in DOMAIN done : i # 1 => done[i] \in Downloads \ {d}
  <2>1. 1 \in DOMAIN done
    BY <1>2
  <2> QED
    BY <2>1, <1>0, <1>1 DEF QueuedOnce
<1>6. \A i \in DOMAIN done' : done'[i] \in Downloads \ {d}
  BY <1>2, <1>5
<1> HIDE DEF d
<1>7. QueuedOnce'
  <2>1. \A i \in DOMAIN done' : downloads'[done'[i]].stage \in {"ok", "failed"}
    <3> SUFFICES ASSUME NEW i \in DOMAIN done'
                 PROVE  downloads'[done'[i]].stage \in {"ok", "failed"}
      OBVIOUS
    <3>1. downloads[done[i + 1]].stage \in {"ok", "failed"}
      BY <1>0, <1>2 DEF QueuedOnce
    <3> QED
      BY <3>1, <1>2, <1>3, <1>6
  <2>2. \A i, j \in DOMAIN done' : done'[i] = done'[j] => i = j
    <3> SUFFICES ASSUME NEW i \in DOMAIN done', NEW j \in DOMAIN done',
                        done'[i] = done'[j]
                 PROVE  i = j
      OBVIOUS
    <3>1. i + 1 = j + 1
      BY <1>0, <1>2 DEF QueuedOnce
    <3> QED
      BY <3>1, <1>2
  <2>3. \A e \in Downloads : downloads'[e].stage \in {"ok", "failed"} =>
          \E i \in DOMAIN done' : done'[i] = e
    <3> SUFFICES ASSUME NEW e \in Downloads,
                        downloads'[e].stage \in {"ok", "failed"}
                 PROVE  \E i \in DOMAIN done' : done'[i] = e
      OBVIOUS
    <3>1. e # d /\ downloads[e].stage \in {"ok", "failed"}
      BY <1>3
    <3>2. PICK i \in DOMAIN done : done[i] = e
      BY <3>1, <1>0 DEF QueuedOnce
    <3>3. i - 1 \in DOMAIN done' /\ done'[i - 1] = e
      BY <3>1, <3>2, <1>1, <1>2
    <3> QED
      BY <3>3
  <2> QED
    BY <2>1, <2>2, <2>3 DEF QueuedOnce
<1>8. Active' = Active
  BY <1>1, <1>3, <1>4 DEF Active
<1>9. /\ button'.enabled = button'.cached
      /\ button'.cached <=> downloads[d].stage = "ok"
  <2>1. IF downloads[d].stage = "ok"
          THEN button' = [button EXCEPT !.cached = TRUE, !.enabled = TRUE]
          ELSE button' = [button EXCEPT !.cached = FALSE, !.enabled = FALSE]
    BY DEF Predownloaded, d
  <2> QED
    BY <2>1, <1>0 DEF Buttons
<1>10. LastOk' <=> LastOk
  <2>1. CASE Len(done) = 1
    <3>1. done' = << >> /\ done[Len(done)] = d
      BY <2>1, <1>0, <1>1
    <3> QED
      BY <3>1, <1>1, <1>9 DEF LastOk
  <2>2. CASE Len(done) # 1
    <3>1. /\ done' # << >> /\ Len(done') \in DOMAIN done'
          /\ done'[Len(done')] = done[Len(done)]
      BY <2>2, <1>0, <1>1, <1>2
    <3>2. downloads'[done'[Len(done')]] = downloads[done[Len(done)]]
      BY <3>1, <1>3, <1>6
    <3> QED
      BY <3>1, <3>2, <1>1 DEF LastOk
  <2> QED
    BY <2>1, <2>2
<1>11. LastIsWhole'
  BY <1>0, <1>1, <1>8, <1>10 DEF LastIsWhole, Whole
<1> QED
  BY <1>7, <1>9, <1>11 DEF CacheInv, EnabledIsCached

(* An update of the window's or of the command line takes a whole pair as  *)
(* it is, and downloads over anything else.                                *)
LEMMA ApplyCache ==
  ASSUME TypeOK, CacheInv, NEW cached, NEW auto, NEW cli, Apply(cached, auto, cli)
  PROVE  CacheInv'
<1>1. UNCHANGED << button, downloads, done >>
  BY DEF Apply, threadVars
<1>2. Whole => UNCHANGED << wheel, sha >>
  <2>1. Whole => wheel # None /\ wheel = sha
    BY UpdateConstants DEF Whole, Versions
  <2> QED
    BY <2>1 DEF Apply
<1>3. QueuedOnce' /\ EnabledIsCached'
  BY <1>1 DEF CacheInv, QueuedOnce, EnabledIsCached
<1>4. Active' = Active
  BY <1>1 DEF Active
<1>5. LastOk' = LastOk
  BY <1>1 DEF LastOk
<1>6. LastIsWhole'
  BY <1>2, <1>4, <1>5 DEF CacheInv, LastIsWhole, Whole
<1> QED
  BY <1>3, <1>6 DEF CacheInv

LEMMA GoneCache ==
  ASSUME Gone
  PROVE  CacheInv'
<1>1. /\ button' = NoButton /\ done' = << >>
      /\ downloads' = [d \in Downloads |-> Idle]
  BY DEF Gone
<1>2. QueuedOnce'
  BY <1>1 DEF QueuedOnce, Idle
<1>3. ~LastOk' /\ EnabledIsCached'
  BY <1>1 DEF LastOk, NoButton, EnabledIsCached
<1> QED
  BY <1>2, <1>3 DEF CacheInv, LastIsWhole

LEMMA InitCache ==
  ASSUME Init
  PROVE  CacheInv
<1>1. button = NoButton /\ done = << >> /\ downloads = [d \in Downloads |-> Idle]
  BY DEF Init
<1>2. QueuedOnce
  BY <1>1 DEF QueuedOnce, Idle
<1>3. ~LastOk /\ EnabledIsCached
  BY <1>1 DEF LastOk, NoButton, EnabledIsCached
<1> QED
  BY <1>2, <1>3 DEF CacheInv, LastIsWhole

LEMMA NextCache ==
  ASSUME TypeOK, CacheInv, [Next]_vars
  PROVE  CacheInv'
<1>1. CASE \/ UNCHANGED vars \/ Release \/ CheckBegins \/ PromptDelayed
           \/ DelayEnds \/ PromptDismissed \/ Toggle \/ StartOrStop \/ UserCloses
           \/ UserLaunches \/ HelperInstalls \/ HelperRelaunches
  <2>1. UNCHANGED << wheel, sha, downloads, done, button >>
    BY <1>1 DEF vars, diskVars, guiVars, threadVars, Release, CheckBegins,
         PromptDelayed, DelayEnds, PromptDismissed, Toggle, StartOrStop, Copying,
         UserCloses, UserLaunches, HelperInstalls, HelperRelaunches, Launch
  <2> QED
    BY <2>1, CacheFrame
<1>2. CASE NothingFound
  <2>1. /\ UNCHANGED << wheel, sha, downloads, done >>
        /\ button' = [button EXCEPT !.visible = FALSE]
    BY <1>2 DEF NothingFound, diskVars, threadVars
  <2>2. button'.cached = button.cached /\ button'.enabled = button.enabled
    BY <2>1, Records DEF Buttons
  <2> QED
    BY <2>1, <2>2, CacheFrame
<1>3. CASE ClickUpdate \/ PromptFires \/ CliUpdate
  BY <1>3, ApplyCache DEF ClickUpdate, PromptFires, CliUpdate
<1>4. CASE Quits \/ ForceKill
  BY <1>4, GoneCache DEF Quits, ForceKill
<1> QED
  BY <1>1, <1>2, <1>3, <1>4, ThreadsCache, FoundCache, PredownloadedCache
     DEF Next, Gui, Helper

-----------------------------------------------------------------------------
LEMMA Invariants ==
  Spec => [](Typed /\ CacheInv)
<1>1. Init => Typed /\ CacheInv
  BY InitTyped, InitCache
<1>2. Typed /\ CacheInv /\ [Next]_vars => (Typed /\ CacheInv)'
  <2> SUFFICES ASSUME Typed, CacheInv, [Next]_vars
               PROVE  Typed' /\ CacheInv'
    OBVIOUS
  <2>1. TypeOK /\ QueuedOnce
    BY DEF Typed, CacheInv
  <2> QED
    BY <2>1, NextTyped, NextCache
<1> QED
  BY <1>1, <1>2, PTL DEF Spec

(* Every reachable state is typed, for any number of releases, of          *)
(* downloads that overlap and of delayed popups.                           *)
THEOREM TypeCorrect == Spec => []TypeOK
<1>1. Typed => TypeOK
  BY DEF Typed
<1> QED
  BY <1>1, Invariants, PTL

(* Whatever number of downloads have written the one wheel at the same     *)
(* time, and however their signals reached the window: once all are at     *)
(* rest, the wheel that the window keeps the path of is whole and matches  *)
(* its checksum (_on_predownload_done, download_update).                   *)
THEOREM CachedWheelIsWhole == Spec => []CachedIsWhole
<1>1. ASSUME TypeOK, CacheInv, button.cached,
             \A d \in Downloads : downloads[d] = Idle
      PROVE  Whole
  <2>1. Active = {}
    BY <1>1 DEF Active, Idle
  <2>2. done = << >>
    <3> SUFFICES ASSUME done # << >> PROVE FALSE
      OBVIOUS
    <3>1. 1 \in DOMAIN done /\ done[1] \in Downloads
      BY <1>1 DEF TypeOK
    <3>2. downloads[done[1]].stage \in {"ok", "failed"}
      BY <1>1, <3>1 DEF CacheInv, QueuedOnce
    <3> QED
      BY <1>1, <3>1, <3>2 DEF Idle
  <2>3. LastOk
    BY <1>1, <2>2 DEF LastOk
  <2> QED
    BY <1>1, <2>1, <2>3 DEF CacheInv, LastIsWhole
<1>2. Typed /\ CacheInv => CachedIsWhole
  BY <1>1 DEF Typed, CachedIsWhole, Whole
<1> QED
  BY <1>2, Invariants, PTL

-----------------------------------------------------------------------------
(* The popup, or the delay that will show it, stands for the mark: the     *)
(* window's version is the one that is marked, and everything that has     *)
(* been restarted for is older than that.  The mark is on disk.            *)
Asked == prompt \/ timers > 0

MarkInv ==
  /\ saved = mem
  /\ tried \subseteq 0..mem.mark
  /\ Asked => /\ mem.mark = button.latest
              /\ prev < mem.mark /\ tried \subseteq 0..prev
  /\ prompt => timers = 0
  /\ timers <= 1

(* No other release takes the place of the one that the popup is about.    *)
SameRelease == app = "up" /\ Asked => button'.latest = button.latest

(* Steps that ask nothing and mark nothing.                                *)
LEMMA MarkFrame ==
  ASSUME MarkInv, UNCHANGED << mem, prompt, timers, prev, tried >>,
         saved' \in {saved, mem}, Asked => button'.latest = button.latest
  PROVE  MarkInv'
<1>1. Asked' <=> Asked
  BY DEF Asked
<1> QED
  BY <1>1 DEF MarkInv

LEMMA FoundMarks ==
  ASSUME TypeOK, MarkInv, SameRelease,
         Release \/ CheckBegins \/ NothingFound \/ \E v \in Versions : UpdateFound(v)
  PROVE  MarkInv'
<1>1. CASE Release \/ CheckBegins
  BY <1>1, MarkFrame DEF Release, CheckBegins, guiVars
<1>2. CASE NothingFound
  <2>1. button'.latest = button.latest
    BY <1>2, Records DEF NothingFound, Buttons
  <2> QED
    BY <1>2, <2>1, MarkFrame DEF NothingFound
<1>3. CASE \E v \in Versions : UpdateFound(v)
  <2>1. app = "up" /\ UNCHANGED << saved, mem, prompt, timers, prev, tried >>
    BY <1>3 DEF UpdateFound
  <2> QED
    BY <2>1, MarkFrame DEF SameRelease
<1> QED
  BY <1>1, <1>2, <1>3

LEMMA ThreadMarks ==
  ASSUME MarkInv, NEW d \in Downloads, Thread(d)
  PROVE  MarkInv'
<1>1. UNCHANGED << saved, mem, prompt, timers, prev, tried, button >>
  BY DEF Thread, OpenWheel, EndWheel, Verify, DownloadFails, ThreadStep, guiVars
<1> QED
  BY <1>1, MarkFrame

(* The popup shows for a release beyond the mark, hence not tried.         *)
LEMMA PredownloadedMarks ==
  ASSUME Typed, QueuedOnce, MarkInv, Predownloaded
  PROVE  MarkInv'
<1>0. TypeOK /\ button \in Buttons /\ mem \in Settings
  BY Records DEF Typed
<1>1. UNCHANGED << timers, tried >>
  BY DEF Predownloaded
<1>2. button'.latest = button.latest
  <2>1. \E c, e \in BOOLEAN : button' = [button EXCEPT !.cached = c, !.enabled = e]
    BY DEF Predownloaded
  <2> QED
    BY <1>0, <2>1 DEF Buttons
<1>3. CASE UNCHANGED << prev, mem, saved, prompt >>
  BY <1>1, <1>2, <1>3, MarkFrame
<1>4. CASE /\ mem.mark < button.latest /\ ~prompt
           /\ prev' = mem.mark /\ mem' = [mem EXCEPT !.mark = button.latest]
           /\ saved' = mem' /\ prompt' = TRUE
  <2>1. mem.mark \in Nat /\ mem'.mark = button.latest /\ button.latest \in Nat
    <3>1. done # << >> /\ done \in Seq(Downloads)
      BY <1>0 DEF Predownloaded, TypeOK
    <3>2. 1 \in DOMAIN done /\ done[1] \in Downloads
      BY <3>1
    <3>3. button.latest \in Versions
      BY <3>2 DEF QueuedOnce, Typed, Known
    <3> QED
      BY <1>0, <1>4, <3>3 DEF Settings, Versions
  <2>2. ~Asked
    BY <1>4, <2>1 DEF MarkInv
  <2>3. timers \in Nat
    BY <1>0, UpdateConstants DEF TypeOK
  <2>4. timers = 0
    BY <2>2, <2>3 DEF Asked
  <2>5. tried' \subseteq 0..prev'
    BY <1>1, <1>4 DEF MarkInv
  <2> QED
    BY <1>1, <1>2, <1>4, <2>1, <2>4, <2>5 DEF MarkInv
<1> QED
  BY <1>3, <1>4 DEF Predownloaded, MaybeRestart, Save

(* The popup is gone when it has asked for the update, and the release     *)
(* stays marked, whether the helper was spawned or the download failed.    *)
LEMMA ApplyMarks ==
  ASSUME TypeOK, MarkInv, NEW cached, NEW auto \in BOOLEAN, NEW cli,
         Apply(cached, auto, cli), auto => prompt /\ prompt' = FALSE,
         ~auto => prompt' = prompt
  PROVE  MarkInv'
<1>1. UNCHANGED << saved, mem, button, prev, timers >>
  BY DEF Apply
<1>2. CASE auto
  <2>1. prompt /\ ~prompt' /\ timers = 0 /\ mem.mark = button.latest
    BY <1>2 DEF MarkInv, Asked
  <2>2. mem.mark \in Nat
    BY Records DEF Settings, Versions
  <2>3. tried' \subseteq tried \cup {mem.mark}
    BY <2>1 DEF Apply, DownloadNow, Spawn
  <2>4. tried' \subseteq 0..mem.mark
    BY <2>2, <2>3 DEF MarkInv
  <2>5. ~Asked'
    BY <1>1, <2>1 DEF Asked
  <2> QED
    BY <1>1, <2>1, <2>4, <2>5 DEF MarkInv
<1>3. CASE ~auto
  <2>1. tried' = tried /\ prompt' = prompt
    BY <1>3 DEF Apply, DownloadNow, Spawn
  <2> QED
    BY <1>1, <2>1, MarkFrame
<1> QED
  BY <1>2, <1>3

(* Dismissing the popup takes the mark back to where it was.               *)
LEMMA DeclinedMarks ==
  ASSUME TypeOK, MarkInv, prompt, Declined
  PROVE  /\ ~prompt' /\ timers = 0 /\ saved' = mem'
         /\ tried' \subseteq 0..mem'.mark
<1>1. timers = 0 /\ tried \subseteq 0..prev
  BY DEF MarkInv, Asked
<1>2. mem'.mark = prev
  BY Records DEF Declined, Settings
<1> QED
  BY <1>1, <1>2 DEF Declined, Save

LEMMA WindowMarks ==
  ASSUME TypeOK, MarkInv, \/ ClickUpdate \/ PromptFires \/ PromptDelayed \/ DelayEnds
                          \/ PromptDismissed \/ Toggle \/ StartOrStop \/ UserCloses
                          \/ CliUpdate
  PROVE  MarkInv'
<1>0. mem \in Settings /\ timers \in Nat
  BY Records, UpdateConstants DEF TypeOK
<1>1. CASE ClickUpdate \/ CliUpdate
  BY <1>1, ApplyMarks DEF ClickUpdate, CliUpdate
<1>2. CASE PromptFires
  BY <1>2, ApplyMarks DEF PromptFires
<1>3. CASE PromptDelayed \/ DelayEnds
  <2>1. UNCHANGED << saved, mem, tried, button, prev >>
    BY <1>3 DEF PromptDelayed, DelayEnds
  <2>2. CASE PromptDelayed
    <3>1. prompt /\ ~prompt' /\ timers = 0 /\ timers' = 1
      BY <2>2 DEF PromptDelayed, MarkInv
    <3> QED
      BY <2>1, <3>1 DEF MarkInv, Asked
  <2>3. CASE DelayEnds
    <3>1. timers = 1 /\ prompt' = TRUE /\ timers' = 0
      BY <1>0, <2>3 DEF DelayEnds, MarkInv
    <3> QED
      BY <2>1, <3>1 DEF MarkInv, Asked
  <2> QED
    BY <1>3, <2>2, <2>3
<1>4. CASE PromptDismissed
  <2>1. UNCHANGED timers /\ prompt /\ Declined
    BY <1>4 DEF PromptDismissed
  <2>2. ~prompt' /\ timers' = 0 /\ saved' = mem' /\ tried' \subseteq 0..mem'.mark
    BY <2>1, DeclinedMarks
  <2> QED
    BY <2>2 DEF MarkInv, Asked
<1>5. CASE Toggle
  <2>1. /\ UNCHANGED << button, timers, prompt, prev, tried >>
        /\ saved' = mem' /\ mem' = [mem EXCEPT !.auto_update = ~@]
    BY <1>5 DEF Toggle, Save
  <2>2. mem'.mark = mem.mark
    BY <1>0, <2>1 DEF Settings
  <2> QED
    BY <2>1, <2>2 DEF MarkInv, Asked
<1>6. CASE StartOrStop \/ UserCloses
  <2>1. /\ UNCHANGED << button, timers, prompt, prev, tried, mem >>
        /\ saved' \in {saved, mem}
    BY <1>6 DEF StartOrStop, Copying, Save, UserCloses
  <2> QED
    BY <2>1, MarkFrame
<1> QED
  BY <1>1, <1>2, <1>3, <1>4, <1>5, <1>6

(* The popup and the timers die with the process; the mark is on disk, and *)
(* the next one starts from it.                                            *)
LEMMA ProcessMarks ==
  ASSUME TypeOK, MarkInv, Quits \/ ForceKill \/ UserLaunches \/ HelperInstalls
                          \/ HelperRelaunches
  PROVE  MarkInv'
<1>1. CASE Quits \/ ForceKill
  <2>1. timers' = 0
    BY <1>1 DEF Quits, ForceKill, Gone
  <2>2. ~prompt' /\ saved' = mem' /\ tried' \subseteq 0..mem'.mark
    BY <1>1, DeclinedMarks DEF Quits, ForceKill, Save, MarkInv, TypeOK
  <2> QED
    BY <2>1, <2>2 DEF MarkInv, Asked
<1>2. CASE UserLaunches \/ HelperRelaunches
  <2>1. /\ UNCHANGED << saved, button, prompt, prev, timers, tried >>
        /\ mem' = saved
    BY <1>2 DEF UserLaunches, HelperRelaunches, Launch
  <2>2. mem' = mem
    BY <2>1 DEF MarkInv
  <2> QED
    BY <2>1, <2>2, MarkFrame
<1>3. CASE HelperInstalls
  <2>1. UNCHANGED << saved, mem, button, prompt, prev, timers, tried >>
    BY <1>3 DEF HelperInstalls, guiVars
  <2> QED
    BY <2>1, MarkFrame
<1> QED
  BY <1>1, <1>2, <1>3

LEMMA NextMarks ==
  ASSUME Typed, QueuedOnce, MarkInv, SameRelease, [Next]_vars
  PROVE  MarkInv'
<1>0. TypeOK
  BY DEF Typed
<1>1. CASE UNCHANGED vars
  BY <1>1, MarkFrame DEF vars, guiVars
<1>2. CASE Next
  BY <1>0, <1>2, FoundMarks, ThreadMarks, PredownloadedMarks, WindowMarks, ProcessMarks
     DEF Next, Gui, Helper
<1> QED
  BY <1>1, <1>2

(* Only the popup spawns the helper by itself, and what it restarts for    *)
(* has not been tried.                                                     *)
LEMMA AutoIsFirst ==
  ASSUME TypeOK, MarkInv, [Next]_vars, helper.phase = "none", helper'.phase = "wait",
         helper'.auto
  PROVE  button.latest \notin tried
<1>1. CASE PromptFires
  <2>1. prev < button.latest /\ tried \subseteq 0..prev
    BY <1>1 DEF PromptFires, MarkInv, Asked
  <2>2. prev \in Nat /\ mem.mark \in Nat /\ mem.mark = button.latest
    BY <1>1, Records DEF TypeOK, Versions, Settings, PromptFires, MarkInv, Asked
  <2> QED
    BY <2>1, <2>2
<1>2. CASE ClickUpdate \/ CliUpdate
  BY <1>2 DEF ClickUpdate, CliUpdate, Apply, DownloadNow, Spawn, NoHelper
<1>3. helper' # helper
  OBVIOUS
<1>4. CASE HelperInstalls \/ HelperRelaunches \/ UserLaunches
  BY <1>4 DEF HelperInstalls, HelperRelaunches, UserLaunches, NoHelper
<1>5. CASE Release \/ CheckBegins \/ NothingFound \/ (\E v \in Versions : UpdateFound(v))
           \/ Predownloaded \/ PromptDelayed \/ DelayEnds \/ PromptDismissed \/ Toggle
           \/ StartOrStop \/ UserCloses
  BY <1>3, <1>5
     DEF Release, CheckBegins, NothingFound, UpdateFound, Predownloaded, PromptDelayed,
         DelayEnds, PromptDismissed, Toggle, StartOrStop, Copying, UserCloses
<1>6. CASE UNCHANGED vars \/ Quits \/ ForceKill \/ \E d \in Downloads : Thread(d)
  BY <1>3, <1>6 DEF vars, Quits, ForceKill, Gone, Thread, OpenWheel, EndWheel, Verify,
     DownloadFails, ThreadStep
<1> QED
  BY <1>1, <1>2, <1>4, <1>5, <1>6 DEF Next, Gui, Helper

LEMMA InitMarks ==
  ASSUME Init
  PROVE  MarkInv
BY DEF Init, MarkInv, Asked

(* However many releases come out, whatever fails on the way and however   *)
(* often the process dies and returns: as long as none is found while the  *)
(* popup shows or is delayed, each is restarted for by itself once, until  *)
(* the user declines it (_auto_update_maybe_restart,                       *)
(* _auto_update_prompt_dismissed).  The condition cannot be dropped: the   *)
(* release that is found then is restarted for under the other one's mark. *)
THEOREM RestartedForOnce ==
  Spec /\ [][SameRelease]_vars => AutoOncePerVersion
<1> DEFINE First == (helper.phase = "none" /\ helper'.phase = "wait" /\ helper'.auto)
                     => button.latest \notin tried
<1>1. Typed /\ CacheInv /\ MarkInv /\ [Next]_vars /\ [SameRelease]_vars => MarkInv'
  <2>1. ASSUME MarkInv, UNCHANGED vars PROVE MarkInv'
    BY <2>1, MarkFrame DEF vars, guiVars
  <2> QED
    BY <2>1, NextMarks DEF CacheInv
<1>2. Typed /\ MarkInv /\ [Next]_vars => First
  BY AutoIsFirst DEF Typed
<1>3. Spec /\ [][SameRelease]_vars => [](Typed /\ CacheInv /\ MarkInv)
  BY <1>1, InitMarks, Invariants, PTL DEF Spec
<1>4. Spec /\ [][SameRelease]_vars => [][First]_vars
  <2> HIDE DEF First
  <2> QED
    BY <1>2, <1>3, PTL DEF Spec
<1> QED
  BY <1>4 DEF AutoOncePerVersion

(* With one release out, the condition holds by itself: a check that finds *)
(* something has found that one.                                           *)
THEOREM OneReleaseOnce ==
  ASSUME MaxVersion = 1
  PROVE  Spec => AutoOncePerVersion
<1> DEFINE Newer == 0 \notin checks
<1>1. Init => Newer
  BY DEF Init
<1>2. Typed /\ Newer /\ [Next]_vars => Newer'
  <2> SUFFICES ASSUME TypeOK, Newer, [Next]_vars
               PROVE  Newer'
    BY DEF Typed
  <2>1. CASE CheckBegins
    <3>1. running \in Nat /\ released \in Nat /\ running < released
      BY <2>1 DEF CheckBegins, TypeOK, Versions
    <3> QED
      BY <2>1, <3>1 DEF CheckBegins
  <2>2. CASE UNCHANGED checks \/ checks' \subseteq checks
    BY <2>2
  <2>3. ~CheckBegins => checks' \subseteq checks
    BY DEF Next, Gui, Helper, vars, threadVars, Release, NothingFound, UpdateFound,
       Predownloaded, ClickUpdate, PromptFires, PromptDelayed, DelayEnds,
       PromptDismissed, Toggle, StartOrStop, Copying, UserCloses, Quits, Gone,
       ForceKill, HelperInstalls, HelperRelaunches, UserLaunches, Launch, CliUpdate,
       Apply, Thread, OpenWheel, EndWheel, Verify, DownloadFails, ThreadStep
  <2> QED
    BY <2>1, <2>2, <2>3
<1>3. Typed /\ MarkInv /\ Newer /\ [Next]_vars => [SameRelease]_vars
  <2> SUFFICES ASSUME TypeOK, MarkInv, Newer, Next, app = "up", Asked
               PROVE  button'.latest = button.latest
    BY DEF SameRelease, Typed
  <2>1. CASE \E v \in Versions : UpdateFound(v)
    <3>1. PICK v \in Versions : UpdateFound(v)
      BY <2>1
    <3>2. v \in 0..1 /\ v # 0
      BY <3>1 DEF UpdateFound, Versions
    <3>3. button'.latest = 1
      BY <3>1, <3>2, Records DEF UpdateFound, Buttons
    <3>4. mem.mark \in 0..1 /\ prev \in 0..1 /\ prev < mem.mark
      BY Records DEF Settings, Versions, TypeOK, MarkInv
    <3> QED
      BY <3>3, <3>4 DEF MarkInv
  <2>2. CASE NothingFound
    BY <2>2, Records DEF NothingFound, Buttons
  <2>3. CASE Predownloaded
    <3>1. \E c, e \in BOOLEAN : button' = [button EXCEPT !.cached = c, !.enabled = e]
      BY <2>3 DEF Predownloaded
    <3> QED
      BY <3>1, Records DEF Buttons
  <2>4. CASE Quits \/ ForceKill \/ UserLaunches \/ HelperRelaunches
    BY <2>4 DEF Quits, ForceKill, UserLaunches, HelperRelaunches, Launch
  <2>5. CASE \/ Release \/ CheckBegins \/ ClickUpdate \/ PromptFires \/ PromptDelayed
             \/ DelayEnds \/ PromptDismissed \/ Toggle \/ StartOrStop \/ UserCloses
             \/ CliUpdate \/ HelperInstalls \/ \E d \in Downloads : Thread(d)
    BY <2>5
       DEF Release, CheckBegins, ClickUpdate, PromptFires, PromptDelayed, DelayEnds,
           PromptDismissed, Toggle, StartOrStop, Copying, UserCloses, CliUpdate, Apply,
           HelperInstalls, guiVars, Thread, OpenWheel, EndWheel, Verify, DownloadFails,
           ThreadStep
  <2> QED
    BY <2>1, <2>2, <2>3, <2>4, <2>5 DEF Next, Gui, Helper
<1>4. Typed /\ CacheInv /\ MarkInv /\ [Next]_vars /\ [SameRelease]_vars => MarkInv'
  <2>1. ASSUME MarkInv, UNCHANGED vars PROVE MarkInv'
    BY <2>1, MarkFrame DEF vars, guiVars
  <2> QED
    BY <2>1, NextMarks DEF CacheInv
<1>5. Spec => [][SameRelease]_vars
  <2> HIDE DEF Newer
  <2> QED
    BY <1>1, <1>2, <1>3, <1>4, InitMarks, Invariants, PTL DEF Spec
<1> QED
  BY <1>5, RestartedForOnce, PTL
=============================================================================
