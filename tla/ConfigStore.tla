----------------------------- MODULE ConfigStore -----------------------------
(***************************************************************************)
(* config.json: save_config and load_config of src/sshsync/config.py, the  *)
(* PUT and GET handlers of web/app.py, and the edits of the job and server *)
(* dialogs of app.js, each of which sends a whole new document.            *)
(*                                                                         *)
(* A save is validated, written to a temporary file of its own and renamed *)
(* over config.json.  Two browser tabs may save at once; the server may be *)
(* killed, and a write or a rename may fail, between any two steps.        *)
(***************************************************************************)
EXTENDS Selectors, SequencesExt

CONSTANTS
    Tabs,           \* browser tabs with the config editor open
    Jobs,           \* jobs the job dialog can save
    ServerNames,    \* names the server dialog can save
    InitialConfigs, \* what config.json may hold at first
    Broken,         \* a file that does not hold a whole document
    Asked,          \* sets of selectors a run may be asked for
    MaxSaves,       \* bound: edits sent to the server
    MaxFaults       \* bound: failed calls and crashes

ASSUME StoreAssumption ==
    /\ Jobs \subseteq Job /\ ServerNames \subseteq Words
    /\ InitialConfigs \subseteq {doc \in Document : Valid(doc)}
    /\ Broken \notin Document
    /\ Asked \subseteq SUBSET Seq(Words)
    /\ MaxSaves \in Nat /\ MaxFaults \in Nat

VARIABLES
    file,       \* config.json
    temps,      \* what each temporary file on disk holds
    shown,      \* state.config of each tab
    draft,      \* the document each tab has sent, or last had shown
    pc,         \* where the request of each tab is
    save,       \* the number of each tab's save, 0 for none
    crashed,    \* the server was killed at some time
    saves, faults

vars == <<file, temps, shown, draft, pc, save, crashed, saves, faults>>

PCs == {"idle", "sent", "valid", "open", "written", "cleaning", "stored", "refused"}

Init ==
    /\ file \in InitialConfigs
    /\ temps = << >>
    /\ shown = [t \in Tabs |-> file]
    /\ draft = shown
    /\ pc = [t \in Tabs |-> "idle"]
    /\ save = [t \in Tabs |-> 0]
    /\ crashed = FALSE
    /\ saves = 0 /\ faults = 0

GoTo(t, there) == pc' = [pc EXCEPT ![t] = there]
Fault == faults < MaxFaults /\ faults' = faults + 1

------------------------------------------------------------------------------
(* The dialogs.                                                            *)

Send(t, doc) ==
    /\ pc[t] = "idle"
    /\ saves < MaxSaves
    /\ saves' = saves + 1
    /\ save' = [save EXCEPT ![t] = saves + 1]
    /\ draft' = [draft EXCEPT ![t] = doc]
    /\ GoTo(t, "sent")
    /\ UNCHANGED <<file, temps, shown, crashed, faults>>

Offered(doc, job) ==
    job.type = Rclone => job.server \in Names(doc) \cup {Blank}

(* The job dialog offers the servers the tab shows.                        *)
SaveJob(t, job) ==
    /\ Offered(shown[t], job)
    /\ \/ Send(t, [shown[t] EXCEPT !.jobs = Append(@, job)])
       \/ \E i \in DOMAIN shown[t].jobs : Send(t, [shown[t] EXCEPT !.jobs[i] = job])

DeleteJob(t) ==
    \E i \in DOMAIN shown[t].jobs : Send(t, [shown[t] EXCEPT !.jobs = RemoveAt(@, i)])

AddServer(t, server) == Send(t, [shown[t] EXCEPT !.servers = Append(@, server)])

(* Seeded fault: the jobs of a renamed server keep its old name.           *)
EditServer_JobsKept(t, server) ==
    \E i \in DOMAIN shown[t].servers :
        Send(t, [shown[t] EXCEPT !.servers[i] = server])

(* The jobs that point at a renamed server follow it.                      *)
EditServer(t, server) ==
    \E i \in DOMAIN shown[t].servers :
        LET old == shown[t].servers[i].name
            Follow(job) == IF job.type = Rclone /\ job.server = old
                           THEN [job EXCEPT !.server = server.name] ELSE job
        IN  Send(t, [servers |-> [shown[t].servers EXCEPT ![i] = server],
                     jobs |-> [k \in DOMAIN shown[t].jobs |-> Follow(shown[t].jobs[k])]])

DeleteServer(t) ==
    \E i \in DOMAIN shown[t].servers :
        /\ \A k \in DOMAIN shown[t].jobs :
              shown[t].jobs[k].type = Rclone =>
                  shown[t].jobs[k].server # shown[t].servers[i].name
        /\ Send(t, [shown[t] EXCEPT !.servers = RemoveAt(@, i)])

------------------------------------------------------------------------------
(* PUT /api/config                                                         *)

(* Seeded fault: the document is taken as it comes.                        *)
Validate_Nothing(t) ==
    /\ pc[t] = "sent"
    /\ GoTo(t, "valid")
    /\ UNCHANGED <<file, temps, shown, draft, save, crashed, saves, faults>>

Validate(t) ==
    /\ pc[t] = "sent"
    /\ GoTo(t, IF Valid(draft[t]) THEN "valid" ELSE "refused")
    /\ UNCHANGED <<file, temps, shown, draft, save, crashed, saves, faults>>

(* Seeded fault: every save uses one temporary file.                       *)
TempName_Fixed(t) == 0

(* tempfile.mkstemp: the name is new.                                      *)
TempName(t) == save[t]

Put(n, text) ==
    temps' = [m \in DOMAIN temps \cup {n} |-> IF m = n THEN text ELSE temps[m]]

OpenTemp(t) ==
    /\ pc[t] = "valid"
    /\ \/ Put(TempName(t), Broken) /\ GoTo(t, "open") /\ UNCHANGED faults
       \/ Fault /\ GoTo(t, "refused") /\ UNCHANGED temps
    /\ UNCHANGED <<file, shown, draft, save, crashed, saves>>

WriteTemp(t) ==
    /\ pc[t] = "open"
    /\ \/ Put(TempName(t), draft[t]) /\ GoTo(t, "written") /\ UNCHANGED faults
       \/ Fault /\ GoTo(t, "cleaning") /\ UNCHANGED temps
    /\ UNCHANGED <<file, shown, draft, save, crashed, saves>>

WithoutTemp(t) == [n \in DOMAIN temps \ {TempName(t)} |-> temps[n]]

Replace(t) ==
    /\ pc[t] = "written"
    /\ \/ /\ TempName(t) \in DOMAIN temps
          /\ file' = temps[TempName(t)]
          /\ temps' = WithoutTemp(t)
          /\ GoTo(t, "stored")
          /\ UNCHANGED faults
       \/ Fault /\ GoTo(t, "cleaning") /\ UNCHANGED <<file, temps>>
    /\ UNCHANGED <<shown, draft, save, crashed, saves>>

(* Seeded fault: an exception leaves the temporary file where it is.       *)
CleanUp_Nothing(t) ==
    /\ pc[t] = "cleaning"
    /\ GoTo(t, "refused")
    /\ UNCHANGED <<file, temps, shown, draft, save, crashed, saves, faults>>

CleanUp(t) ==
    /\ pc[t] = "cleaning"
    /\ \/ temps' = WithoutTemp(t) /\ UNCHANGED faults
       \/ Fault /\ UNCHANGED temps
    /\ GoTo(t, "refused")
    /\ UNCHANGED <<file, shown, draft, save, crashed, saves>>

Show(t) ==
    /\ shown' = [shown EXCEPT ![t] = file]
    /\ draft' = [draft EXCEPT ![t] = file]
    /\ save' = [save EXCEPT ![t] = 0]
    /\ GoTo(t, "idle")
    /\ UNCHANGED <<file, temps, crashed, saves, faults>>

(* The answer is what a fresh load of config.json gives.                   *)
Answer(t) == pc[t] = "stored" /\ file # Broken /\ Show(t)

(* After an error the dialog stays open over what the tab showed.          *)
Refuse(t) ==
    /\ pc[t] = "refused"
    /\ draft' = [draft EXCEPT ![t] = shown[t]]
    /\ save' = [save EXCEPT ![t] = 0]
    /\ GoTo(t, "idle")
    /\ UNCHANGED <<file, temps, shown, crashed, saves, faults>>

(* GET /api/config: the page is loaded again.                              *)
Reload(t) == pc[t] = "idle" /\ file # Broken /\ Show(t)

(* The server is killed and started again; the tabs get an error.          *)
Crash ==
    /\ Fault
    /\ crashed' = TRUE
    /\ pc' = [t \in Tabs |-> IF pc[t] = "idle" THEN "idle" ELSE "refused"]
    /\ UNCHANGED <<file, temps, shown, draft, save, saves>>

------------------------------------------------------------------------------
Dialog(t) ==
    \/ \E job \in Jobs : SaveJob(t, job)
    \/ DeleteJob(t)
    \/ \E server \in [name : ServerNames, filled : BOOLEAN] :
          AddServer(t, server) \/ EditServer(t, server)
    \/ DeleteServer(t)

Request(t) ==
    \/ Validate(t) \/ OpenTemp(t) \/ WriteTemp(t) \/ Replace(t) \/ CleanUp(t)
    \/ Answer(t) \/ Refuse(t) \/ Reload(t)

Next == Crash \/ \E t \in Tabs : Dialog(t) \/ Request(t)

Spec == Init /\ [][Next]_vars

------------------------------------------------------------------------------
(* Properties.                                                             *)

TypeOK ==
    /\ file \in Document \cup {Broken}
    /\ DOMAIN temps \subseteq 1 .. saves
    /\ \A n \in DOMAIN temps : temps[n] \in Document \cup {Broken}
    /\ shown \in [Tabs -> Document]
    /\ draft \in [Tabs -> Document]
    /\ pc \in [Tabs -> PCs]
    /\ save \in [Tabs -> 0 .. saves]
    /\ crashed \in BOOLEAN
    /\ saves \in 0 .. MaxSaves
    /\ faults \in 0 .. MaxFaults

(* config.json is at every moment a whole document that validates, also    *)
(* between the steps of a save, with two saves at once, and after a crash  *)
(* or a failed write (save_config).                                        *)
ConfigStaysValid == file # Broken /\ Valid(file)

Saving(n) == \E t \in Tabs : save[t] = n /\ pc[t] \in {"open", "written", "cleaning"}

Strays == {n \in DOMAIN temps : ~ Saving(n)}

(* Short of a crash a temporary file outlives its save only if two calls   *)
(* failed for it, the write or rename and then the removal (the except     *)
(* clause of save_config).                                                 *)
StraysAreExplained == crashed \/ 2 * Cardinality(Strays) <= faults

(* No edit of a dialog sends a job whose server the same document lacks:   *)
(* renaming a server takes its jobs along and a server in use cannot go,   *)
(* whatever other tabs have saved in between.                              *)
EditsNeverDangle ==
    \A t \in Tabs : \A i \in DOMAIN draft[t].jobs :
        LET job == draft[t].jobs[i] IN
        job.type = Rclone => job.server \in Names(draft[t]) \cup {Blank}

(* In whatever config the edits lead to, the selector of a job finds it.   *)
SelectorsFind == SelectorFinds(file.jobs)

(* Whatever a run is asked for in that config, with one selector or with   *)
(* several, no job is guessed (select_jobs).                               *)
SelectionIsUnambiguous == \A requests \in Asked : NothingIsGuessed(file.jobs, requests)
==============================================================================
