--------------------------- MODULE UploadSession ---------------------------
(***************************************************************************)
(* A resumable upload (app/upload.go): the row of the session with the     *)
(* offset reached, the file, the lock of a node on the session, and the    *)
(* requests that bring the parts. The bytes of the upload are numbered: a  *)
(* file is right when it is 1, 2, ... FileSize. A request brings the bytes *)
(* that belong at the offset the server has when it arrives.               *)
(***************************************************************************)
EXTENDS Integers, Sequences

CONSTANTS Requests, Nodes,
          FileSize,
          MinFirstPartSize,
          MaxFails,    \* bound on the failures after the upload is complete
          MaxLost      \* bound on the updates of the offset that fail

UploadAssumption ==
  /\ FileSize \in Nat \ {0} /\ MinFirstPartSize \in Nat
  /\ MaxFails \in Nat /\ MaxLost \in Nat

VARIABLES offset,    \* FileOffset in the row; -1 when the session has been deleted
          file,
          uploadLockMap,  \* the nodes that hold the lock on the session
          req,       \* req[r]: its node, where it is, and the session it has read
          infos,     \* the files of which a FileInfo has been saved
          fails, lost

uploadVars == <<offset, file, uploadLockMap, req, infos, fails, lost>>

UploadTypeOK ==
  /\ offset \in -1 .. FileSize
  /\ file \in Seq(1 .. FileSize) /\ infos \in Seq(Seq(1 .. FileSize))
  /\ uploadLockMap \subseteq Nodes
  /\ req \in [Requests -> [node : Nodes, us : 0 .. FileSize, err : BOOLEAN,
                           pc : {"idle", "got", "locked", "checked", "written", "complete", "saved"}]]
  /\ \A n \in uploadLockMap : \E r \in Requests : req[r].node = n /\ req[r].pc \notin {"idle", "got"}
  /\ fails \in 0 .. MaxFails /\ lost \in 0 .. MaxLost

UploadInit ==
  /\ offset = 0 /\ file = <<>> /\ uploadLockMap = {} /\ infos = <<>>
  /\ req \in [Requests -> [node : Nodes, us : {0}, err : {FALSE}, pc : {"idle"}]]
  /\ fails = 0 /\ lost = 0

Bytes(first, last) == [i \in 1 .. last - first + 1 |-> first + i - 1]

ReqAt(r, pc) == req[r].pc = pc

ReqGo(r, pc) == req' = [req EXCEPT ![r].pc = pc]

Return(r) ==
  /\ req' = [req EXCEPT ![r] = [@ EXCEPT !.pc = "idle", !.us = 0, !.err = FALSE]]
  /\ uploadLockMap' = uploadLockMap \ {req[r].node}

-----------------------------------------------------------------------------

(* The handler reads the session. *)
GetUploadSession(r) ==
  /\ ReqAt(r, "idle") /\ offset >= 0
  /\ req' = [req EXCEPT ![r].pc = "got", ![r].us = offset]
  /\ UNCHANGED <<offset, file, uploadLockMap, infos, fails, lost>>

Lock(r) ==
  /\ ReqAt(r, "got")
  /\ \/ /\ req[r].node \in uploadLockMap
        /\ req' = [req EXCEPT ![r].pc = "idle", ![r].us = 0]
        /\ UNCHANGED uploadLockMap
     \/ /\ req[r].node \notin uploadLockMap
        /\ uploadLockMap' = uploadLockMap \cup {req[r].node}
        /\ ReqGo(r, "locked")
  /\ UNCHANGED <<offset, file, infos, fails, lost>>

(* The session in the store is not looked at. *)
CheckNothing(r) ==
  /\ ReqAt(r, "locked")
  /\ ReqGo(r, "checked")
  /\ UNCHANGED <<offset, file, uploadLockMap, infos, fails, lost>>

Check(r) ==
  /\ ReqAt(r, "locked")
  /\ \/ req[r].us # offset /\ Return(r)
     \/ req[r].us = offset /\ ReqGo(r, "checked") /\ UNCHANGED uploadLockMap
  /\ UNCHANGED <<offset, file, infos, fails, lost>>

Written(r, w, err) == req' = [req EXCEPT ![r].us = @ + w, ![r].err = err, ![r].pc = "written"]

(* The first part: the file is created, and removed when the part is small. *)
WriteFile(r, w, err) ==
  /\ ReqAt(r, "checked") /\ req[r].us = 0
  /\ \/ /\ err /\ w = 0
        /\ Return(r)
        /\ file' \in {file, <<>>}
     \/ /\ ~(err /\ w = 0) /\ w < MinFirstPartSize /\ w # FileSize
        /\ Return(r)
        /\ file' = <<>>
     \/ /\ w > 0 /\ (w >= MinFirstPartSize \/ w = FileSize)
        /\ Written(r, w, err)
        /\ file' = Bytes(1, w)
        /\ UNCHANGED uploadLockMap
  /\ UNCHANGED <<offset, infos, fails, lost>>

(* A later part, or a request that has nothing to add to a complete file. *)
AppendFile(r, w, err) ==
  /\ ReqAt(r, "checked") /\ req[r].us > 0
  /\ req[r].us = FileSize => w = 0 /\ ~err
  /\ file' = file \o Bytes(req[r].us + 1, req[r].us + w)
  /\ Written(r, w, err)
  /\ UNCHANGED <<offset, uploadLockMap, infos, fails, lost>>

(* The data is all there, or the connection ends before or breaks. *)
Write(r) ==
  \E w \in 0 .. FileSize - req[r].us, err \in BOOLEAN :
    WriteFile(r, w, err) \/ AppendFile(r, w, err)

WriteAll(r) ==
  \/ WriteFile(r, FileSize - req[r].us, FALSE)
  \/ AppendFile(r, FileSize - req[r].us, FALSE)

Update(r) ==
  /\ ReqAt(r, "written")
  /\ offset' = IF offset >= 0 THEN req[r].us ELSE offset
  /\ \/ req[r].err /\ Return(r)
     \/ ~req[r].err /\ req[r].us # FileSize /\ Return(r)
     \/ ~req[r].err /\ req[r].us = FileSize /\ ReqGo(r, "complete") /\ UNCHANGED uploadLockMap
  /\ UNCHANGED <<file, infos, fails, lost>>

(* The update of the row fails, or the node stops before it. *)
UpdateFails(r) ==
  /\ ReqAt(r, "written") /\ req[r].us # offset /\ lost < MaxLost
  /\ lost' = lost + 1
  /\ Return(r)
  /\ UNCHANGED <<offset, file, infos, fails>>

Save(r) ==
  /\ ReqAt(r, "complete")
  /\ infos' = Append(infos, file)
  /\ ReqGo(r, "saved")
  /\ UNCHANGED <<offset, file, uploadLockMap, fails, lost>>

(* The session is deleted although nothing is saved. *)
SaveFailsDeletes(r) ==
  /\ ReqAt(r, "complete") /\ fails < MaxFails
  /\ fails' = fails + 1
  /\ offset' = -1
  /\ Return(r)
  /\ UNCHANGED <<file, infos, lost>>

(* The file cannot be read, a plugin refuses it, or it cannot be saved. *)
SaveFails(r) ==
  /\ ReqAt(r, "complete") /\ fails < MaxFails
  /\ fails' = fails + 1
  /\ Return(r)
  /\ UNCHANGED <<offset, file, infos, lost>>

Delete(r) ==
  /\ ReqAt(r, "saved")
  /\ \/ offset' = -1 /\ UNCHANGED fails
     \/ fails < MaxFails /\ fails' = fails + 1 /\ UNCHANGED offset
  /\ Return(r)
  /\ UNCHANGED <<file, infos, lost>>

UploadNext ==
  \E r \in Requests :
    \/ GetUploadSession(r) \/ Lock(r) \/ Check(r) \/ Write(r)
    \/ Update(r) \/ UpdateFails(r) \/ Save(r) \/ SaveFails(r) \/ Delete(r)

UploadSpec == UploadInit /\ [][UploadNext]_uploadVars

(* The client goes on posting, and not every request of his breaks off or   *)
(* meets another one.                                                       *)
UploadFairness ==
  \A r \in Requests :
    /\ WF_uploadVars(GetUploadSession(r)) /\ SF_uploadVars(Lock(r) /\ req[r].node \notin uploadLockMap)
    /\ SF_uploadVars(Check(r) /\ req[r].us = offset) /\ WF_uploadVars(Check(r) \/ Lock(r))
    /\ WF_uploadVars(Write(r)) /\ SF_uploadVars(WriteAll(r))
    /\ WF_uploadVars(Update(r)) /\ WF_uploadVars(Save(r)) /\ WF_uploadVars(Delete(r))

UploadFairSpec == UploadSpec /\ UploadFairness

-----------------------------------------------------------------------------

Between == \E r \in Requests : req[r].pc \in {"checked", "written"}

(* "This is to avoid possible inconsistencies": whenever nobody is writing, *)
(* the file has exactly the bytes up to the offset in the row, also when    *)
(* requests with the same offset have met. That is so as long as no update  *)
(* of the row is lost, and at one node.                                     *)
OffsetExact ==
  (~Between /\ offset > 0 /\ lost = 0) => file = Bytes(1, offset)

(* A FileInfo is saved once, unless the session could not be deleted.       *)
SavedOnce == Len(infos) <= 1 + fails

(* What is stored is what was uploaded, and once: whenever nobody writes,   *)
(* the file has exactly the bytes up to the offset in the row, and a        *)
(* FileInfo is saved once unless the session could not be deleted           *)
(* (upload.go, UploadData).                                                 *)
StoredExactly == OffsetExact /\ SavedOnce

(* A client that goes on posting gets his file saved. *)
Completes == <>(infos # <<>>)
=============================================================================
