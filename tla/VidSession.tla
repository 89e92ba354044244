----------------------------- MODULE VidSession -----------------------------
(***************************************************************************)
(* A ControlClient and a VidServer on one TCP connection, the directory    *)
(* the client watches, and somebody who edits it.                          *)
(*                                                                         *)
(* The file monitor is any that announces some of the changes of a file,   *)
(* with their types and in order, some time after they were made           *)
(* (FileMonitor.h:15-31).  It need not announce any: that of FileMonitor   *)
(* leaves out writes in place and removals (FileMonitor.cpp:88, 191).      *)
(***************************************************************************)
EXTENDS ControlClient

CONSTANTS
  Root, Dirs, DirOf, ServerFaults, MaxInFlight,  \* of the server
  MaxEdits      \* bound: how often a file is changed

ASSUME SessionAssumption == MaxEdits \in Nat

VARIABLES
  isLogin, remote, dirs,  \* the server's
  local,                  \* the files under the client's watchPath
  unannounced,            \* changes the monitor will announce
  unheard,                \* files whose last change it leaves out
  edits,                  \* how many changes there were
  refused                 \* history: files whose removal has failed with 404

S == INSTANCE VidServer

ASSUME ServerAssumption ==
  /\ Root \in Dirs /\ DirOf \in [Paths -> Dirs] /\ MaxInFlight \in Nat
  /\ ServerFaults \subseteq S!ServerFaultKinds

farVars   == <<isLogin, remote, dirs>>
nearVars  == <<local, unannounced, unheard, edits>>
clientVars == <<health, isRunning, busy, pool, posted, workerVars,
                main, arg, git, client, sock, reactors, lastId, stops>>
sessionVars == <<vars, farVars, nearVars, refused>>

(* Both ends start with the same files.  No step reads pair before run()   *)
(* has set it, so that one value stands for any.                           *)
SessionInit ==
  /\ Init /\ S!Init
  /\ pair = [path |-> CHOOSE p \in Paths : TRUE, type |-> "add"]
  /\ local = remote
  /\ unannounced = <<>> /\ unheard = {} /\ edits = 0 /\ refused = {}

-----------------------------------------------------------------------------
Registered == {reactors[id] : id \in Ids}

TypeOfChange(old, new) ==
  CASE old = Absent -> "add"
    [] old # Absent /\ new = Absent -> "removed"
    [] OTHER -> "modified"

(* Somebody writes or removes a file: while the monitor is started, or     *)
(* after the files were hashed and before it is.                           *)
Edit(p, new) ==
  /\ edits < MaxEdits /\ edits' = edits + 1
  /\ git = "live" \/ (git = "null" /\ "directory_verification" \in Registered)
  /\ new # local[p] /\ local' = [local EXCEPT ![p] = new]
  /\ \/ /\ unheard' = unheard \cup {p} /\ UNCHANGED unannounced
     \/ /\ git = "live" /\ unheard' = unheard \ {p}
        /\ unannounced' = Append(unannounced,
                                 [path |-> p, type |-> TypeOfChange(local[p], new)])
  /\ UNCHANGED <<vars, farVars, refused>>

(* The monitor emits fileChanged for the oldest change. *)
Announce ==
  /\ unannounced # <<>> /\ unannounced' = Tail(unannounced)
  /\ FileChanged(Head(unannounced).path, Head(unannounced).type)
  /\ UNCHANGED <<farVars, local, unheard, edits, refused>>

(* fileDiff reads the file as it is when the signal is delivered. *)
DeliverDiff ==
  /\ posted # <<>> /\ FileDiff(local[Head(posted).path])
  /\ UNCHANGED <<farVars, nearVars, refused>>

ClientStep ==
  /\ \/ Worker \/ Connected \/ ConnectFails \/ OnReadyRead \/ OnDisconnected
     \/ OnPartialRead \/ Erase \/ PushBack
  /\ UNCHANGED <<farVars, nearVars, refused>>

(* What the outcome of a file_diff says of earlier refusals. *)
Refused(diff) ==
  IF diff.type = "removed" /\ remote'[diff.path] # Absent
  THEN refused \cup {diff.path} ELSE refused \ {diff.path}

ServerStep ==
  /\ S!ServerNext /\ UNCHANGED <<clientVars, nearVars>>
  /\ refused' = IF S!FileDiff THEN Refused(Head(c2s)) ELSE refused

SessionNext ==
  \/ ClientStep \/ DeliverDiff \/ ServerStep \/ Announce
  \/ \E p \in Paths, new \in OnDisk : Edit(p, new)

SessionSpec == SessionInit /\ [][SessionNext]_sessionVars

(* Both threads, the connection and the server keep going; nobody has to   *)
(* edit, and the monitor has to announce nothing.                          *)
SessionFairSpec ==
  /\ SessionSpec
  /\ WF_sessionVars(Worker /\ UNCHANGED <<farVars, nearVars, refused>>)
  /\ WF_sessionVars(Connected /\ UNCHANGED <<farVars, nearVars, refused>>)
  /\ WF_sessionVars((Erase \/ PushBack) /\ UNCHANGED <<farVars, nearVars, refused>>)
  /\ SF_sessionVars(OnReadyRead /\ UNCHANGED <<farVars, nearVars, refused>>)
  /\ SF_sessionVars(DeliverDiff)
  /\ WF_sessionVars(ServerStep)

-----------------------------------------------------------------------------
(* Every variable of the session keeps to its range. *)
SessionTypeOK ==
  /\ TypeOK /\ S!ServerTypeOK
  /\ local \in [Paths -> FileStates] /\ edits \in 0 .. MaxEdits
  /\ unannounced \in Seq(Changes)
  /\ refused \in SUBSET Paths /\ unheard \in SUBSET Paths

(* Nothing is waiting or under way, and the session lasts. *)
Quiet ==
  /\ AtLoop /\ git = "live" /\ link = "up" /\ session = "serving"
  /\ unannounced = <<>> /\ pool = <<>> /\ ~busy /\ worker # "begin"

Mirror == \A p \in Paths \ (refused \cup unheard) : remote[p] = local[p]

(* Whenever the client has nothing left to send, the server's files are    *)
(* the client's, but for those whose last change nobody has announced and  *)
(* those the server said it could not remove: although entries of one path *)
(* follow, repeat and replace each other in the pool, and a file is read   *)
(* long after its change was announced, possibly when it is gone           *)
(* (ControlClient.cpp:33-45, Client.cpp:121-147, server.py:144-184).       *)
MirrorWhenQuiet == Quiet => Mirror

(* A change that has been announced, and is not followed by another one    *)
(* that has not, does not keep the two ends apart, unless the server has   *)
(* refused it or ended the session: whatever other changes come before it  *)
(* or are refused, it is sent and applied (ControlClient.cpp:146-182,      *)
(* Client.cpp:121-198, server.py:144-184).                                 *)
Apart(p) ==
  /\ remote[p] # local[p] /\ session # "closed"
  /\ p \notin refused \cup unheard
  /\ \A i \in DOMAIN unannounced : unannounced[i].path # p

AnnouncedArrives == \A p \in Paths : Apart(p) ~> ~Apart(p)

(* The server does to the client nothing but what ControlClient's open     *)
(* server may do, so that what is proved of ControlClient holds here ...   *)
ClientSpec == Spec

(* ... and the client does to the server nothing but what VidServer's open *)
(* client may do.                                                          *)
ServerSpec == S!Spec

(* A file_diff answered with code 0 has taken effect, or the session ends  *)
(* at once, before another change is applied to files that have silently   *)
(* fallen behind (server.py:49-63, 144-184).                               *)
SuccessMeansAppliedOrClosed == S!SuccessMeansAppliedOrClosed
=============================================================================
