---------------------------- MODULE ServiceProofs ---------------------------
(***************************************************************************)
(* The services that keep rows and files, and the storage of browsers.     *)
(*                                                                         *)
(* For any number of files and of operations in progress, with every       *)
(* failure and every end of the process: a live row has its bytes, and     *)
(* bytes without a live row are accounted for.  For any number of tabs and *)
(* of logins: a session that can still be used is where a logout finds it, *)
(* or it is known why it is not.  For any number of operations, days and   *)
(* rows: what the look before a write is worth, and what follows a write.  *)
(* For any number of persons, workspaces, memberships, projects and tasks: *)
(* the owner of a workspace stays a member of it, workspaces of one name   *)
(* are told apart without gaps, and whoever is given a task belongs, or    *)
(* has belonged, to its workspace.  For any limit and any window: how many *)
(* requests pass.                                                          *)
(***************************************************************************)
EXTENDS Files, Sessions, Records, Projects, Limiter, FiniteSetTheorems, TLAPS

\* What a call at each place may rely on: it is the only upload of its file, whose
\* row is not there before it inserts it; a row it found is never "none" again.
CallsInStep ==
  \A c \in FileCalls :
    /\ fileCall[c].at \in {"write", "insert"} => fileCall[c].op = "upload"
    /\ fileCall[c].at \in {"open", "mark", "unlink"} => fileCall[c].op # "upload"
    /\ fileCall[c].at \in {"permit", "write", "insert"} /\ fileCall[c].op = "upload" =>
         fileRow[FileOf(c)] = "none"
    /\ fileCall[c].at = "permit" /\ fileCall[c].op = "upload" => disk[FileOf(c)] = "none"
    /\ fileCall[c].at = "insert" => disk[FileOf(c)] = "whole"
    /\ fileCall[c].at \in {"open", "mark"} => fileRow[FileOf(c)] # "none"
    /\ fileCall[c].at = "unlink" => fileRow[FileOf(c)] = "deleted"

OneUpload ==
  \A c, d \in FileCalls :
    /\ fileCall[c] # FileIdle /\ fileCall[c].op = "upload"
    /\ fileCall[d] # FileIdle /\ fileCall[d].op = "upload"
    /\ FileOf(c) = FileOf(d)
    => c = d

FilesInv == FilesTypeOK /\ CallsInStep /\ OneUpload /\ LiveRowHasBytes /\ StrayBytesExplained

LEMMA FilesTypeStep ==
  ASSUME FilesTypeOK, [FilesNext]_filesVars
  PROVE  FilesTypeOK'
<1>1. CASE UNCHANGED filesVars
  BY <1>1 DEF FilesTypeOK, filesVars
<1>2. CASE FileCrash
  BY <1>2 DEF FilesTypeOK, FileCrash, FileProcessDies, UnderWay, FileOf, FileIdle
<1>3. ASSUME NEW c \in FileCalls, NEW op \in {"upload", "download", "delete"},
             NEW f \in FileIds, FileCalled(c, op, f)
      PROVE  FilesTypeOK'
  BY <1>3 DEF FilesTypeOK, FileCalled, FilePlaces
<1>4. ASSUME NEW c \in FileCalls,
             \/ FileRefused(c) \/ WriteBegun(c) \/ WriteEnded(c) \/ UploadFailed(c)
             \/ FileInserted(c) \/ RowFound(c) \/ Marked(c) \/ Unlinked(c)
             \/ UnlinkSwallowed(c) \/ Opened(c)
      PROVE  FilesTypeOK'
  <2>1. fileCall[c] # FileIdle /\ FileOf(c) \in FileIds
    BY <1>4 DEF FilesTypeOK, FileRefused, WriteBegun, WriteEnded, UploadFailed, FileInserted,
        RowFound, Marked, Unlinked, UnlinkSwallowed, Opened, FileAt, FileIdle, FileOf
  <2>2. fileCall[c] \in [at : FilePlaces, op : {"upload", "download", "delete"}, file : FileIds]
    BY <2>1 DEF FilesTypeOK
  <2>3. \A place \in FilePlaces : FileGoto(c, place) => fileCall' \in [FileCalls ->
          {FileIdle} \cup [at : FilePlaces, op : {"upload", "download", "delete"},
                           file : FileIds]]
    BY <2>2 DEF FilesTypeOK, FileGoto
  <2>4. FileDone(c) => fileCall' \in [FileCalls ->
          {FileIdle} \cup [at : FilePlaces, op : {"upload", "download", "delete"},
                           file : FileIds]]
    BY DEF FilesTypeOK, FileDone
  <2>5. {"write", "insert", "mark", "unlink", "open"} \subseteq FilePlaces
    BY DEF FilePlaces
  <2> QED
    BY <1>4, <2>1, <2>3, <2>4, <2>5 DEF FilesTypeOK, FileRefused, WriteBegun, WriteEnded,
        UploadFailed, FileInserted, RowFound, Marked, Unlinked, UnlinkSwallowed, Opened
<1>5. ASSUME NEW c \in FileCalls, OpenFailed(c)
      PROVE  FilesTypeOK'
  BY <1>5 DEF FilesTypeOK, OpenFailed, FileProcessDies, UnderWay, FileOf, FileIdle
<1> QED
  BY <1>1, <1>2, <1>3, <1>4, <1>5 DEF FilesNext

\* A process that dies leaves rows and bytes as they are and remembers the files
\* that were under way.
LEMMA DeathKeeps ==
  ASSUME FilesInv, FilesTypeOK', FileProcessDies
  PROVE  FilesInv'
<1>1. \A c \in FileCalls : fileCall'[c] = FileIdle
  BY DEF FileProcessDies
<1>2. CallsInStep' /\ OneUpload'
  BY <1>1 DEF CallsInStep, OneUpload, FileIdle
<1>3. LiveRowHasBytes' /\ StrayBytesExplained'
  BY DEF FilesInv, LiveRowHasBytes, StrayBytesExplained, FileProcessDies
<1> QED BY <1>2, <1>3 DEF FilesInv

LEMMA FilesInvStep ==
  ASSUME FilesInv, [FilesNext]_filesVars
  PROVE  FilesInv'
<1>0. FilesTypeOK' /\ FilesTypeOK
  BY FilesTypeStep DEF FilesInv
<1>1. CASE UNCHANGED filesVars
  BY <1>1 DEF FilesInv, FilesTypeOK, CallsInStep, OneUpload, LiveRowHasBytes,
      StrayBytesExplained, UnderWay, FileOf, filesVars
<1>2. CASE FileCrash
  BY <1>0, <1>2, DeathKeeps DEF FileCrash
<1>3. ASSUME NEW c \in FileCalls, NEW op \in {"upload", "download", "delete"},
             NEW f \in FileIds, FileCalled(c, op, f)
      PROVE  FilesInv'
  <2>1. /\ fileCall' = [fileCall EXCEPT ![c] = [at |-> "permit", op |-> op, file |-> f]]
        /\ fileRow' = fileRow /\ disk' = disk /\ leftover' = leftover
        /\ fileCall[c] = FileIdle /\ (op = "upload" => FreshName(f))
    BY <1>3 DEF FileCalled
  <2>2. fileCall'[c] = [at |-> "permit", op |-> op, file |-> f]
        /\ \A d \in FileCalls \ {c} : fileCall'[d] = fileCall[d]
    BY <1>0, <2>1 DEF FilesTypeOK
  <2>3. CallsInStep'
    BY <2>1, <2>2 DEF FilesInv, CallsInStep, FileOf, FreshName
  <2>4. OneUpload'
    BY <2>1, <2>2 DEF FilesInv, OneUpload, FileOf, FreshName, FileIdle
  <2>5. UnderWay' = UnderWay
    BY <2>1, <2>2 DEF UnderWay, FileOf, FileIdle
  <2> QED
    BY <1>0, <2>1, <2>3, <2>4, <2>5 DEF FilesInv, LiveRowHasBytes, StrayBytesExplained
<1>4. ASSUME NEW c \in FileCalls,
             \/ FileRefused(c) \/ WriteBegun(c) \/ WriteEnded(c) \/ UploadFailed(c)
             \/ FileInserted(c) \/ RowFound(c) \/ Marked(c) \/ Unlinked(c)
             \/ UnlinkSwallowed(c) \/ Opened(c)
      PROVE  FilesInv'
  <2>1. /\ fileCall[c] # FileIdle /\ FileOf(c) \in FileIds
        /\ fileCall[c] \in [at : FilePlaces, op : {"upload", "download", "delete"},
                            file : FileIds]
    BY <1>0, <1>4 DEF FilesTypeOK, FileRefused, WriteBegun, WriteEnded, UploadFailed,
        FileInserted, RowFound, Marked, Unlinked, UnlinkSwallowed, Opened, FileAt, FileIdle,
        FileOf
  <2>2. /\ \A d \in FileCalls \ {c} : fileCall'[d] = fileCall[d]
        /\ \/ fileCall'[c] = FileIdle
           \/ fileCall'[c].op = fileCall[c].op /\ fileCall'[c].file = fileCall[c].file
              /\ fileCall'[c] # FileIdle
    BY <1>0, <1>4, <2>1 DEF FilesTypeOK, FileRefused, WriteBegun, WriteEnded, UploadFailed,
        FileInserted, RowFound, Marked, Unlinked, UnlinkSwallowed, Opened, FileGoto, FileDone,
        FileIdle
  <2>3. OneUpload'
    BY <2>1, <2>2 DEF FilesInv, OneUpload, FileOf
  \* Other calls of the same file: none of them an upload if this one is.
  <2>4. ASSUME NEW d \in FileCalls \ {c}, fileCall[d] # FileIdle, FileOf(d) = FileOf(c),
               fileCall[c].op = "upload"
        PROVE  fileCall[d].op # "upload"
    BY <2>1, <2>4 DEF FilesInv, OneUpload
  <2>5. \A d \in FileCalls : fileCall[d] = FileIdle
          \/ fileCall[d] \in [at : FilePlaces, op : {"upload", "download", "delete"},
                              file : FileIds]
    BY <1>0 DEF FilesTypeOK
  <2>6. \A g : g \in UnderWay <=>
          \E d \in FileCalls : fileCall[d].at \in {"write", "insert", "unlink"} /\ FileOf(d) = g
    BY DEF UnderWay
  <2>7. \A g : g \in UnderWay' <=>
          \E d \in FileCalls : fileCall'[d].at \in {"write", "insert", "unlink"}
                               /\ fileCall'[d].file = g
    BY DEF UnderWay, FileOf
  <2>8. CASE FileRefused(c) \/ Opened(c)
    <3>1. fileRow' = fileRow /\ disk' = disk /\ leftover' = leftover
          /\ fileCall[c].at \notin {"write", "insert", "unlink"} /\ fileCall'[c] = FileIdle
      BY <1>0, <2>8 DEF FilesTypeOK, FileRefused, Opened, FileDone, FileAt
    <3>2. CallsInStep'
      BY <2>2, <3>1 DEF FilesInv, CallsInStep, FileOf, FileIdle
    <3>3. UnderWay \subseteq UnderWay'
      BY <2>2, <2>6, <2>7, <3>1 DEF FileOf
    <3> QED
      BY <1>0, <2>3, <3>1, <3>2, <3>3 DEF FilesInv, LiveRowHasBytes, StrayBytesExplained
  <2>9. CASE RowFound(c)
    <3>1. /\ fileRow' = fileRow /\ disk' = disk /\ leftover' = leftover
          /\ fileCall[c].at = "permit" /\ fileCall'[c].at \in {"open", "mark"}
          /\ fileRow[FileOf(c)] = "live" /\ fileCall[c].op # "upload"
      BY <1>0, <2>1, <2>9 DEF FilesTypeOK, RowFound, FileGoto, FileAt
    <3>2. CallsInStep'
      BY <2>2, <3>1 DEF FilesInv, CallsInStep, FileOf, FileIdle
    <3>3. UnderWay \subseteq UnderWay'
      BY <2>2, <2>6, <2>7, <3>1 DEF FileOf
    <3> QED
      BY <1>0, <2>3, <3>1, <3>2, <3>3 DEF FilesInv, LiveRowHasBytes, StrayBytesExplained
  <2>10. CASE WriteBegun(c)
    <3>1. /\ fileRow' = fileRow /\ leftover' = leftover
          /\ disk' = [disk EXCEPT ![FileOf(c)] = "part"]
          /\ fileCall[c].at = "permit" /\ fileCall'[c].at = "write" /\ fileCall[c].op = "upload"
          /\ fileRow[FileOf(c)] = "none" /\ fileCall'[c].op = "upload"
          /\ fileCall'[c].file = FileOf(c)
      BY <1>0, <2>1, <2>10 DEF FilesInv, CallsInStep, FilesTypeOK, WriteBegun, FileGoto, FileAt,
          FileOf
    <3>2. disk'[FileOf(c)] = "part" /\ \A g \in FileIds \ {FileOf(c)} : disk'[g] = disk[g]
      BY <1>0, <2>1, <3>1 DEF FilesTypeOK
    <3>3. CallsInStep'
      BY <2>2, <2>4, <2>5, <3>1, <3>2 DEF FilesInv, CallsInStep, FileOf, FileIdle
    <3>4. UnderWay \subseteq UnderWay' /\ FileOf(c) \in UnderWay'
      BY <2>2, <2>6, <2>7, <3>1 DEF FileOf
    <3> QED
      BY <1>0, <2>3, <3>1, <3>2, <3>3, <3>4 DEF FilesInv, LiveRowHasBytes, StrayBytesExplained
  <2>11. CASE WriteEnded(c)
    <3>1. /\ fileRow' = fileRow /\ leftover' = leftover
          /\ disk' = [disk EXCEPT ![FileOf(c)] = "whole"]
          /\ fileCall[c].at = "write" /\ fileCall'[c].at = "insert" /\ fileCall[c].op = "upload"
          /\ fileRow[FileOf(c)] = "none" /\ fileCall'[c].op = "upload"
          /\ fileCall'[c].file = FileOf(c)
      BY <1>0, <2>1, <2>11 DEF FilesInv, CallsInStep, FilesTypeOK, WriteEnded, FileGoto, FileAt,
          FileOf
    <3>2. disk'[FileOf(c)] = "whole" /\ \A g \in FileIds \ {FileOf(c)} : disk'[g] = disk[g]
      BY <1>0, <2>1, <3>1 DEF FilesTypeOK
    <3>3. CallsInStep'
      BY <2>2, <2>4, <2>5, <3>1, <3>2 DEF FilesInv, CallsInStep, FileOf, FileIdle
    <3>4. UnderWay \subseteq UnderWay' /\ FileOf(c) \in UnderWay'
      BY <2>2, <2>6, <2>7, <3>1 DEF FileOf
    <3> QED
      BY <1>0, <2>3, <3>1, <3>2, <3>3, <3>4 DEF FilesInv, LiveRowHasBytes, StrayBytesExplained
  <2>12. CASE FileInserted(c)
    <3>1. /\ disk' = disk /\ leftover' = leftover
          /\ fileRow' = [fileRow EXCEPT ![FileOf(c)] = "live"]
          /\ fileCall[c].at = "insert" /\ fileCall'[c] = FileIdle /\ fileCall[c].op = "upload"
          /\ fileRow[FileOf(c)] = "none" /\ disk[FileOf(c)] = "whole"
      BY <1>0, <2>1, <2>12 DEF FilesInv, CallsInStep, FilesTypeOK, FileInserted, FileDone, FileAt
    <3>2. fileRow'[FileOf(c)] = "live" /\ \A g \in FileIds \ {FileOf(c)} : fileRow'[g] = fileRow[g]
      BY <1>0, <2>1, <3>1 DEF FilesTypeOK
    <3>3. CallsInStep'
      BY <2>2, <2>4, <2>5, <3>1, <3>2 DEF FilesInv, CallsInStep, FileOf, FileIdle
    <3>4. \A g \in UnderWay : g \in UnderWay' \/ g = FileOf(c)
      BY <2>2, <2>6, <2>7, <3>1 DEF FileOf
    <3> QED
      BY <1>0, <2>3, <3>1, <3>2, <3>3, <3>4 DEF FilesInv, LiveRowHasBytes, StrayBytesExplained
  <2>13. CASE Marked(c)
    <3>1. /\ disk' = disk /\ leftover' = leftover
          /\ fileRow' = [fileRow EXCEPT ![FileOf(c)] = "deleted"]
          /\ fileCall[c].at = "mark" /\ fileCall'[c].at = "unlink" /\ fileCall[c].op # "upload"
          /\ fileRow[FileOf(c)] # "none" /\ fileCall'[c].op # "upload"
          /\ fileCall'[c].file = FileOf(c)
      BY <1>0, <2>1, <2>13 DEF FilesInv, CallsInStep, FilesTypeOK, Marked, FileGoto, FileAt, FileOf
    <3>2. /\ fileRow'[FileOf(c)] = "deleted"
          /\ \A g \in FileIds \ {FileOf(c)} : fileRow'[g] = fileRow[g]
      BY <1>0, <2>1, <3>1 DEF FilesTypeOK
    <3>3. CallsInStep'
      BY <2>2, <2>5, <3>1, <3>2 DEF FilesInv, CallsInStep, FileOf, FileIdle
    <3>4. UnderWay \subseteq UnderWay' /\ FileOf(c) \in UnderWay'
      BY <2>2, <2>6, <2>7, <3>1 DEF FileOf
    <3> QED
      BY <1>0, <2>3, <3>1, <3>2, <3>3, <3>4 DEF FilesInv, LiveRowHasBytes, StrayBytesExplained
  <2>14. CASE Unlinked(c)
    <3>1. /\ fileRow' = fileRow /\ leftover' = leftover
          /\ disk' = [disk EXCEPT ![FileOf(c)] = "none"]
          /\ fileCall[c].at = "unlink" /\ fileCall'[c] = FileIdle
          /\ fileRow[FileOf(c)] = "deleted"
      BY <1>0, <2>1, <2>14 DEF FilesInv, CallsInStep, FilesTypeOK, Unlinked, FileDone, FileAt
    <3>2. disk'[FileOf(c)] = "none" /\ \A g \in FileIds \ {FileOf(c)} : disk'[g] = disk[g]
      BY <1>0, <2>1, <3>1 DEF FilesTypeOK
    <3>3. CallsInStep'
      BY <2>2, <2>5, <3>1, <3>2 DEF FilesInv, CallsInStep, FileOf, FileIdle
    <3>4. \A g \in UnderWay : g \in UnderWay' \/ g = FileOf(c)
      BY <2>2, <2>6, <2>7, <3>1 DEF FileOf
    <3> QED
      BY <1>0, <2>3, <3>1, <3>2, <3>3, <3>4 DEF FilesInv, LiveRowHasBytes, StrayBytesExplained
  <2>15. CASE UploadFailed(c) \/ UnlinkSwallowed(c)
    <3>1. /\ fileRow' = fileRow /\ disk' = disk /\ leftover' = leftover \cup {FileOf(c)}
          /\ fileCall'[c] = FileIdle
      BY <1>0, <2>15 DEF FilesTypeOK, UploadFailed, UnlinkSwallowed, FileDone
    <3>2. CallsInStep'
      BY <2>2, <3>1 DEF FilesInv, CallsInStep, FileOf, FileIdle
    <3>3. \A g \in UnderWay : g \in UnderWay' \/ g = FileOf(c)
      BY <2>2, <2>6, <2>7, <3>1 DEF FileOf
    <3> QED
      BY <1>0, <2>3, <3>1, <3>2, <3>3 DEF FilesInv, LiveRowHasBytes, StrayBytesExplained
  <2> QED
    BY <1>4, <2>8, <2>9, <2>10, <2>11, <2>12, <2>13, <2>14, <2>15
<1>5. ASSUME NEW c \in FileCalls, OpenFailed(c)
      PROVE  FilesInv'
  BY <1>0, <1>5, DeathKeeps DEF OpenFailed
<1> QED
  BY <1>1, <1>2, <1>3, <1>4, <1>5 DEF FilesNext

LEMMA FilesInvHolds == FilesSpec => []FilesInv
<1>1. FilesInit => FilesInv
  BY DEF FilesInit, FilesInv, FilesTypeOK, CallsInStep, OneUpload, LiveRowHasBytes,
      StrayBytesExplained, FileIdle
<1> QED
  BY <1>1, FilesInvStep, PTL DEF FilesSpec

\* Rows and bytes agree at every moment: a live row has its bytes whole, and bytes
\* without a live row belong to a call under way or to one that failed.
THEOREM BytesAlwaysFollowRows == FilesSpec => []BytesFollowRows
<1>1. FilesInv => BytesFollowRows
  BY DEF FilesInv, BytesFollowRows
<1> QED
  BY <1>1, FilesInvHolds, PTL

\* A file the list shows can be downloaded.
THEOREM LiveRowsAlwaysHaveBytes == FilesSpec => []LiveRowHasBytes
<1>1. BytesFollowRows => LiveRowHasBytes
  BY DEF BytesFollowRows
<1> QED
  BY <1>1, BytesAlwaysFollowRows, PTL

-----------------------------------------------------------------------------


\* A call that sends a token, or waits for one, has it; a session whose revocation
\* is on its way to the tab has ended, and stays so.
SentIsThere ==
  \A t \in BrowserTabs :
    /\ tab[t].at \in {"answer", "logout", "revoked"} => tab[t].sent \in Tokens
    /\ TabAt(t, "revoked") => sess[tab[t].sent] = "ended"

SessionsInv == SessionsTypeOK /\ SentIsThere /\ NoSessionForgotten

\* Sessions end and none begins; the tab whose logout ended one learns of it.
OnlyEnds ==
  /\ stored' = stored /\ abandoned' = abandoned
  /\ \A k \in Tokens : sess'[k] = sess[k] \/ sess'[k] = "ended"
  /\ \A t \in BrowserTabs :
       \/ tab'[t] = tab[t]
       \/ /\ tab[t].at = "logout" /\ tab'[t].at = "revoked"
          /\ tab'[t].sent = tab[t].sent /\ sess'[tab[t].sent] = "ended"

LEMMA SessionsTypeStep ==
  ASSUME SessionsTypeOK, SentIsThere, [SessionsNext]_sessionsVars
  PROVE  SessionsTypeOK'
<1>1. CASE UNCHANGED sessionsVars
  BY <1>1 DEF SessionsTypeOK, sessionsVars
<1>2. ASSUME NEW t \in BrowserTabs, TabOpened(t)
      PROVE  SessionsTypeOK'
  BY <1>2 DEF SessionsTypeOK, TabOpened, TabPlaces
<1>7. ASSUME NEW t \in BrowserTabs, TabClosed(t)
      PROVE  SessionsTypeOK'
  BY <1>7 DEF SessionsTypeOK, SentIsThere, TabClosed, Closed, TabAt, TabPlaces, SignInPlaces
<1>9. ASSUME NEW t \in BrowserTabs, AdriftGoesOn(t)
      PROVE  SessionsTypeOK'
  BY <1>9 DEF SessionsTypeOK, AdriftGoesOn, SignInPlaces
<1>10. ASSUME NEW t \in BrowserTabs, NEW k \in Tokens, AdriftSession(t, k)
      PROVE  SessionsTypeOK'
  BY <1>10 DEF SessionsTypeOK, AdriftSession
<1>8. ASSUME NEW t \in BrowserTabs,
             \/ RegisterSent(t) \/ EmailFree(t) \/ AccountCreated(t) \/ LoginSent(t)
             \/ SignInFailed(t)
      PROVE  SessionsTypeOK'
  <2>1. \A place \in TabPlaces : TabTo(t, place) =>
          tab' \in [BrowserTabs -> [at : TabPlaces, token : Tokens \cup {NoToken},
                                    sent : Tokens \cup {NoToken}]]
    BY DEF SessionsTypeOK, TabTo
  <2> QED
    BY <1>8, <2>1 DEF SessionsTypeOK, RegisterSent, EmailFree, AccountCreated, LoginSent,
        SignInFailed, TabPlaces
<1>3. ASSUME NEW t \in BrowserTabs, LoginAnswered(t) \/ LoginAnswerLost(t)
      PROVE  SessionsTypeOK'
  BY <1>3 DEF SessionsTypeOK, SentIsThere, LoginAnswered, LoginAnswerLost, Abandon, TabAt,
      TabPlaces
<1>4. ASSUME NEW t \in BrowserTabs, NEW k \in Tokens, SessionCreated(t, k)
      PROVE  SessionsTypeOK'
  BY <1>4 DEF SessionsTypeOK, SessionCreated, TabPlaces
<1>5. ASSUME NEW t \in BrowserTabs,
             LogoutSent(t) \/ Revoked(t) \/ LogoutAnswered(t) \/ LogoutOffline(t)
             \/ LogoutFailed(t)
      PROVE  SessionsTypeOK'
  BY <1>5 DEF SessionsTypeOK, SentIsThere, LogoutSent, Revoked, LogoutAnswered, LogoutOffline,
      LogoutFailed, SignedOut, Abandon, TabTo, TabAt, TabPlaces
<1>6. ASSUME NEW k \in Tokens, Expired(k)
      PROVE  SessionsTypeOK'
  BY <1>6 DEF SessionsTypeOK, Expired
<1> QED
  BY <1>1, <1>2, <1>3, <1>4, <1>5, <1>6, <1>7, <1>8, <1>9, <1>10 DEF SessionsNext

LEMMA SessionsInvStep ==
  ASSUME SessionsInv, [SessionsNext]_sessionsVars
  PROVE  SessionsInv'
<1>0. SessionsTypeOK /\ SessionsTypeOK' /\ SentIsThere /\ NoSessionForgotten
  BY SessionsTypeStep DEF SessionsInv
<1>1. CASE UNCHANGED sessionsVars
  BY <1>0, <1>1 DEF SessionsInv, SentIsThere, NoSessionForgotten, Valid, TabAt, sessionsVars
\* A step of a tab that leaves the sessions and the storage alone.
<1>2. ASSUME NEW t \in BrowserTabs, UNCHANGED <<sess, stored>>,
             \A d \in BrowserTabs \ {t} : tab'[d] = tab[d],
             abandoned \subseteq abandoned',
             tab'[t].at \notin {"answer", "revoked"},
             tab'[t].at = "logout" => tab'[t].sent \in Tokens,
             tab[t].at = "answer" => tab[t].sent \in abandoned'
      PROVE  SessionsInv'
  <2>1. SentIsThere'
    BY <1>0, <1>2 DEF SentIsThere, TabAt
  <2>2. NoSessionForgotten'
    BY <1>0, <1>2 DEF NoSessionForgotten, Valid, TabAt
  <2> QED BY <1>0, <2>1, <2>2 DEF SessionsInv
<1>3. ASSUME NEW t \in BrowserTabs,
             \/ TabOpened(t) \/ TabClosed(t) \/ RegisterSent(t) \/ EmailFree(t)
             \/ AccountCreated(t) \/ LoginSent(t) \/ SignInFailed(t) \/ LoginAnswerLost(t)
             \/ LogoutSent(t) \/ LogoutFailed(t)
      PROVE  SessionsInv'
  <2>1. UNCHANGED <<sess, stored>> /\ abandoned \subseteq abandoned'
        /\ \A d \in BrowserTabs \ {t} : tab'[d] = tab[d]
    BY <1>0, <1>3 DEF SessionsTypeOK, TabOpened, TabClosed, RegisterSent, EmailFree,
        AccountCreated, LoginSent, SignInFailed, LoginAnswerLost, LogoutSent, LogoutFailed, TabTo
  <2>2. /\ tab'[t].at \notin {"answer", "revoked"}
        /\ tab'[t].at = "logout" => tab'[t].sent \in Tokens
        /\ tab[t].at = "answer" => tab[t].sent \in abandoned'
    BY <1>0, <1>3 DEF SessionsTypeOK, TabOpened, TabClosed, RegisterSent, EmailFree,
        AccountCreated, LoginSent, SignInFailed, LoginAnswerLost, LogoutSent, LogoutFailed, TabTo,
        TabAt, Closed, SignInPlaces
  <2> QED BY <1>2, <2>1, <2>2
<1>4. ASSUME NEW t \in BrowserTabs, NEW k \in Tokens, SessionCreated(t, k)
      PROVE  SessionsInv'
  <2>1. /\ stored' = stored /\ abandoned' = abandoned
        /\ sess'[k] = "live" /\ \A j \in Tokens \ {k} : sess'[j] = sess[j]
        /\ tab'[t].at = "answer" /\ tab'[t].sent = k /\ tab[t].at = "login"
        /\ \A d \in BrowserTabs \ {t} : tab'[d] = tab[d]
        /\ sess[k] = "none"
    BY <1>0, <1>4 DEF SessionsTypeOK, SessionCreated, TabAt
  <2>2. SentIsThere'
    BY <1>0, <2>1 DEF SentIsThere, TabAt
  <2>3. NoSessionForgotten'
    BY <1>0, <2>1 DEF NoSessionForgotten, Valid, TabAt
  <2> QED BY <1>0, <2>2, <2>3 DEF SessionsInv
\* The session that is replaced in the storage is another tab's.
<1>5. ASSUME NEW t \in BrowserTabs, LoginAnswered(t)
      PROVE  SessionsInv'
  <2>1. /\ sess' = sess /\ stored' = tab[t].sent /\ abandoned' = Abandon(stored)
        /\ tab'[t].at = "idle" /\ tab[t].at = "answer"
        /\ \A d \in BrowserTabs \ {t} : tab'[d] = tab[d]
    BY <1>0, <1>5 DEF SessionsTypeOK, LoginAnswered, TabAt
  <2>2. SentIsThere'
    BY <1>0, <2>1 DEF SentIsThere, TabAt
  <2>3. \A k \in Tokens : Valid(k) /\ k = stored => k \in abandoned'
    BY <2>1, SessionConstants DEF Abandon
  <2>4. abandoned \subseteq abandoned'
    BY <2>1 DEF Abandon
  <2>5. NoSessionForgotten'
    BY <1>0, <2>1, <2>3, <2>4 DEF NoSessionForgotten, Valid, TabAt
  <2> QED BY <1>0, <2>2, <2>5 DEF SessionsInv
<1>6. ASSUME OnlyEnds
      PROVE  SessionsInv'
  <2>1. SentIsThere'
    BY <1>0, <1>6 DEF OnlyEnds, SentIsThere, TabAt
  <2>2. NoSessionForgotten'
    BY <1>0, <1>6 DEF OnlyEnds, NoSessionForgotten, Valid, TabAt
  <2> QED BY <1>0, <2>1, <2>2 DEF SessionsInv
<1>7. ASSUME NEW t \in BrowserTabs, Revoked(t)
      PROVE  SessionsInv'
  <2>1. tab[t].sent \in Tokens /\ tab[t].at = "logout"
    BY <1>0, <1>7 DEF SentIsThere, Revoked, TabAt
  <2>2. /\ UNCHANGED <<stored, abandoned>> /\ sess' = [sess EXCEPT ![tab[t].sent] = "ended"]
        /\ tab' = [tab EXCEPT ![t].at = "revoked"]
    BY <1>7 DEF Revoked, TabTo
  <2>3. sess'[tab[t].sent] = "ended" /\ \A k \in Tokens : sess'[k] = sess[k] \/ sess'[k] = "ended"
    BY <1>0, <2>1, <2>2 DEF SessionsTypeOK
  <2>4. /\ tab'[t].at = "revoked" /\ tab'[t].sent = tab[t].sent
        /\ \A d \in BrowserTabs \ {t} : tab'[d] = tab[d]
    BY <1>0, <2>2 DEF SessionsTypeOK
  <2>5. OnlyEnds
    BY <2>1, <2>2, <2>3, <2>4 DEF OnlyEnds
  <2> QED BY <1>6, <2>5
<1>8. ASSUME NEW k \in Tokens, Expired(k)
      PROVE  SessionsInv'
  <2>1. UNCHANGED <<stored, tab, abandoned>> /\ sess' = [sess EXCEPT ![k] = "ended"]
    BY <1>8 DEF Expired
  <2>2. \A j \in Tokens : sess'[j] = sess[j] \/ sess'[j] = "ended"
    BY <1>0, <2>1 DEF SessionsTypeOK
  <2>3. OnlyEnds
    BY <2>1, <2>2 DEF OnlyEnds
  <2> QED BY <1>6, <2>3
\* What a logout takes out of the storage has ended, unless it is not its own.
<1>9. ASSUME NEW t \in BrowserTabs, LogoutAnswered(t) \/ LogoutOffline(t)
      PROVE  SessionsInv'
  <2>1. /\ sess' = sess /\ stored' = NoToken /\ tab'[t].at = "idle"
        /\ \A d \in BrowserTabs \ {t} : tab'[d] = tab[d]
        /\ tab[t].at \in {"revoked", "idle"}
    BY <1>0, <1>9 DEF SessionsTypeOK, LogoutAnswered, LogoutOffline, SignedOut, TabAt
  <2>2. SentIsThere'
    BY <1>0, <2>1 DEF SentIsThere, TabAt
  <2>3. abandoned \subseteq abandoned'
    BY <1>9 DEF LogoutAnswered, LogoutOffline, Abandon
  <2>4. ASSUME NEW k \in Tokens, Valid(k), k = stored
        PROVE  k \in abandoned'
    <3>1. LogoutAnswered(t)
      BY <1>9, <2>4, SessionConstants DEF LogoutOffline
    <3>2. stored # tab[t].sent
      BY <1>0, <2>4, <3>1 DEF SentIsThere, LogoutAnswered, Valid
    <3> QED BY <2>4, <3>1, <3>2, SessionConstants DEF LogoutAnswered, Abandon
  <2>5. NoSessionForgotten'
    BY <1>0, <2>1, <2>3, <2>4 DEF NoSessionForgotten, Valid, TabAt
  <2> QED BY <1>0, <2>2, <2>5 DEF SessionsInv
\* The server works for a tab that was closed: nobody will hold what it creates.
<1>10. ASSUME NEW t \in BrowserTabs, AdriftGoesOn(t)
      PROVE  SessionsInv'
  BY <1>0, <1>10 DEF SessionsInv, SentIsThere, NoSessionForgotten, Valid, TabAt, AdriftGoesOn
<1>11. ASSUME NEW t \in BrowserTabs, NEW k \in Tokens, AdriftSession(t, k)
      PROVE  SessionsInv'
  <2>1. /\ UNCHANGED <<stored, tab>> /\ abandoned' = abandoned \cup {k} /\ sess[k] = "none"
        /\ sess'[k] = "live" /\ \A j \in Tokens \ {k} : sess'[j] = sess[j]
    BY <1>0, <1>11 DEF SessionsTypeOK, AdriftSession
  <2>2. SentIsThere'
    BY <1>0, <2>1 DEF SentIsThere, TabAt
  <2>3. NoSessionForgotten'
    BY <1>0, <2>1 DEF NoSessionForgotten, Valid, TabAt
  <2> QED BY <1>0, <2>2, <2>3 DEF SessionsInv
<1> QED
  BY <1>1, <1>3, <1>4, <1>5, <1>7, <1>8, <1>9, <1>10, <1>11 DEF SessionsNext

LEMMA SessionsInvHolds == SessionsSpec => []SessionsInv
<1>1. ASSUME SessionsInit
      PROVE  SessionsInv
  <2>1. Closed \in [at : TabPlaces, token : Tokens \cup {NoToken}, sent : Tokens \cup {NoToken}]
    BY DEF Closed, TabPlaces
  <2>2. \A t \in BrowserTabs : tab[t].at = "closed"
    BY <1>1 DEF SessionsInit, Closed
  <2>3. SessionsTypeOK
    BY <1>1, <2>1 DEF SessionsInit, SessionsTypeOK
  <2> QED
    BY <1>1, <2>2, <2>3 DEF SessionsInit, SessionsInv, SentIsThere, NoSessionForgotten, Valid,
        TabAt
<1> QED
  BY <1>1, SessionsInvStep, PTL DEF SessionsSpec

\* No session is left open by mistake, whatever calls and answers are lost and
\* whichever tabs are closed.
THEOREM NoSessionIsForgotten == SessionsSpec => []NoSessionForgotten
<1>1. SessionsInv => NoSessionForgotten
  BY DEF SessionsInv
<1> QED
  BY <1>1, SessionsInvHolds, PTL

-----------------------------------------------------------------------------
AllOps == {submitFeedback, vote, decide, clockIn, clockOut, createUnit, createChannel}
CallRecords ==
  [at : {"permit", "look", "write", "audit", "tell"}, op : RecordOps, key : Keys]

\* An operation works on a row of its table.
KeysMatch ==
  \A c \in RecordCalls : recordCall[c] # RecordIdle => KeyOf(c)[1] = OpOf(c).table

Writes(c, k, w) == RecordAt(c, "write") /\ KeyOf(c) = k /\ OpOf(c).write = w

\* As long as no two calls had both looked, the one that is about to write is alone
\* and what it saw is still so.
LooksStillTrue ==
  \A k \in Keys \ contended : \A c \in RecordCalls : RecordAt(c, "write") /\ KeyOf(c) = k =>
    /\ \A d \in RecordCalls : Writes(d, k, OpOf(c).write) => d = c
    /\ OpOf(c).looks = "absent" => rowsOf[k] = 0
    /\ OpOf(c).looks = "open" => closings[k] = 0

RecordsInv == RecordsTypeOK /\ KeysMatch /\ LooksStillTrue /\ OncePerKey /\ ReportsFollow

\* What the operations have in common.
LEMMA OpFacts ==
  ASSUME NEW op \in RecordOps
  PROVE  /\ op.write \in {"insert", "close"}
         /\ op.write = "close" => op.looks = "open"
         /\ op.write = "insert" /\ ~op.unique => op.looks = "absent" \/ op.table = "feedback"
         /\ op.looks = "absent" => op.write = "insert"
         /\ op.looks = "open" => op.write = "close"
         /\ op.report \subseteq {"audit", "tell"}
         /\ op.table \in {"feedback", "vote", "attendance", "unit", "channel"}
<1>1. op \in AllOps
  BY RecordConstants DEF AllOps
<1> QED
  BY <1>1 DEF AllOps, submitFeedback, vote, decide, clockIn, clockOut, createUnit, createChannel,
      Insert, Close

\* A row is inserted, and closed, by one operation only.
LEMMA OpsDiffer ==
  ASSUME NEW op \in RecordOps, NEW other \in RecordOps,
         op.table = other.table, op.write = other.write
  PROVE  op = other
<1>1. op \in AllOps /\ other \in AllOps
  BY RecordConstants DEF AllOps
<1>2. /\ submitFeedback.table = "feedback" /\ submitFeedback.write = "insert"
      /\ vote.table = "vote" /\ vote.write = "insert"
      /\ decide.table = "feedback" /\ decide.write = "close"
      /\ clockIn.table = "attendance" /\ clockIn.write = "insert"
      /\ clockOut.table = "attendance" /\ clockOut.write = "close"
      /\ createUnit.table = "unit" /\ createUnit.write = "insert"
      /\ createChannel.table = "channel" /\ createChannel.write = "insert"
  BY DEF submitFeedback, vote, decide, clockIn, clockOut, createUnit, createChannel, Insert, Close
<1> QED
  BY <1>1, <1>2 DEF AllOps

LEMMA CallsAreRecords ==
  ASSUME RecordsTypeOK, NEW c \in RecordCalls, recordCall[c] # RecordIdle
  PROVE  /\ recordCall[c] \in CallRecords /\ OpOf(c) \in RecordOps /\ KeyOf(c) \in Keys
BY DEF RecordsTypeOK, CallRecords, OpOf, KeyOf

\* Where a step of a call leaves it and the others.
LEMMA GoneTo ==
  ASSUME RecordsTypeOK, NEW c \in RecordCalls, recordCall[c] # RecordIdle,
         NEW place \in {"look", "write", "audit", "tell", "idle"}, RecordTo(c, place)
  PROVE  /\ recordCall' \in [RecordCalls -> {RecordIdle} \cup CallRecords]
         /\ \A d \in RecordCalls \ {c} : recordCall'[d] = recordCall[d]
         /\ place = "idle" => recordCall'[c] = RecordIdle
         /\ place # "idle" => /\ recordCall'[c].at = place /\ recordCall'[c].op = OpOf(c)
                              /\ recordCall'[c].key = KeyOf(c)
                              /\ recordCall'[c] # RecordIdle
<1>1. recordCall[c] \in CallRecords
  BY CallsAreRecords
<1>2. recordCall \in [RecordCalls -> {RecordIdle} \cup CallRecords]
  BY DEF RecordsTypeOK, CallRecords
<1>3. CASE place = "idle"
  BY <1>2, <1>3 DEF RecordTo
<1>4. CASE place # "idle"
  <2>1. recordCall' = [recordCall EXCEPT ![c] = [recordCall[c] EXCEPT !.at = place]]
    BY <1>4 DEF RecordTo
  <2>2. /\ [recordCall[c] EXCEPT !.at = place] \in CallRecords
        /\ [recordCall[c] EXCEPT !.at = place].at = place
        /\ [recordCall[c] EXCEPT !.at = place].op = OpOf(c)
        /\ [recordCall[c] EXCEPT !.at = place].key = KeyOf(c)
    BY <1>1, <1>4 DEF CallRecords, OpOf, KeyOf
  <2>3. [recordCall[c] EXCEPT !.at = place] # RecordIdle
    BY <1>4, <2>2 DEF RecordIdle
  <2> QED BY <1>2, <1>4, <2>1, <2>2, <2>3
<1> QED BY <1>3, <1>4

LEMMA NextReportPlace ==
  ASSUME NEW op, NEW after
  PROVE  NextReport(op, after) \in {"look", "write", "audit", "tell", "idle"}
BY DEF NextReport

LEMMA BusyPlaces ==
  ASSUME NEW c, recordCall[c].at \in {"permit", "look", "write", "audit", "tell"}
  PROVE  recordCall[c] # RecordIdle
BY DEF RecordIdle

LEMMA RecordsTypeStep ==
  ASSUME RecordsTypeOK, KeysMatch, [RecordsNext]_recordsVars
  PROVE  RecordsTypeOK' /\ KeysMatch'
<1>0. recordCall \in [RecordCalls -> {RecordIdle} \cup CallRecords]
  BY DEF RecordsTypeOK, CallRecords
<1>1. CASE UNCHANGED recordsVars
  BY <1>1 DEF RecordsTypeOK, KeysMatch, KeyOf, OpOf, recordsVars
<1>2. ASSUME NEW c \in RecordCalls, NEW op \in RecordOps, NEW k \in Keys, RecordCalled(c, op, k)
      PROVE  RecordsTypeOK' /\ KeysMatch'
  <2>1. [at |-> "permit", op |-> op, key |-> k] \in CallRecords
    BY DEF CallRecords
  <2>2. recordCall' = [recordCall EXCEPT ![c] = [at |-> "permit", op |-> op, key |-> k]]
        /\ k[1] = op.table
    BY <1>2 DEF RecordCalled
  <2>3. recordCall' \in [RecordCalls -> {RecordIdle} \cup CallRecords]
    BY <1>0, <2>1, <2>2
  <2>4. KeysMatch'
    BY <1>0, <2>2 DEF KeysMatch, KeyOf, OpOf
  <2> QED BY <1>2, <2>3, <2>4 DEF RecordCalled, RecordsTypeOK, CallRecords
<1>3. ASSUME NEW c \in RecordCalls, RecordPermitted(c)
      PROVE  RecordsTypeOK' /\ KeysMatch'
  <2>1. recordCall[c] # RecordIdle
    BY <1>3, BusyPlaces DEF RecordPermitted, RecordAt
  <2>2. recordCall[c] \in CallRecords /\ OpOf(c) \in RecordOps /\ KeyOf(c)[1] = OpOf(c).table
    BY <2>1, CallsAreRecords DEF KeysMatch
  <2> DEFINE key == IF OpOf(c).table = "attendance" THEN <<"attendance", today>> ELSE KeyOf(c)
  <2>3. key \in Keys /\ key[1] = OpOf(c).table
    BY <2>1, <2>2, CallsAreRecords DEF RecordsTypeOK, Keys
  <2>4. recordCall' = [recordCall EXCEPT ![c] = [recordCall[c] EXCEPT !.at = "look", !.key = key]]
    BY <1>3 DEF RecordPermitted, KeyOf
  <2> HIDE DEF key
  <2>5. [recordCall[c] EXCEPT !.at = "look", !.key = key] \in CallRecords
    BY <2>2, <2>3 DEF CallRecords
  <2>6. recordCall' \in [RecordCalls -> {RecordIdle} \cup CallRecords]
    BY <1>0, <2>4, <2>5
  <2>7. KeysMatch'
    BY <1>0, <2>2, <2>3, <2>4, <2>5 DEF KeysMatch, KeyOf, OpOf, CallRecords
  <2> QED BY <1>3, <2>6, <2>7 DEF RecordPermitted, RecordsTypeOK, CallRecords
\* Whoever follows GoneTo keeps its key.
<1>4. ASSUME NEW c \in RecordCalls, recordCall[c] # RecordIdle,
             NEW place \in {"look", "write", "audit", "tell", "idle"}, RecordTo(c, place)
      PROVE  recordCall' \in [RecordCalls -> {RecordIdle} \cup CallRecords] /\ KeysMatch'
  BY <1>4, GoneTo DEF KeysMatch, KeyOf, OpOf
<1>5. ASSUME NEW c \in RecordCalls, RecordRefused(c) \/ Looked(c)
      PROVE  RecordsTypeOK' /\ KeysMatch'
  <2>1. recordCall[c] # RecordIdle
    BY <1>5, BusyPlaces DEF RecordRefused, Looked, RecordAt
  <2>2. recordCall' \in [RecordCalls -> {RecordIdle} \cup CallRecords] /\ KeysMatch'
    BY <1>4, <1>5, <2>1 DEF RecordRefused, Looked
  <2> QED BY <1>5, <2>1, <2>2, CallsAreRecords DEF RecordRefused, Looked, RecordsTypeOK, CallRecords
<1>6. ASSUME NEW c \in RecordCalls, RowInserted(c) \/ RowClosed(c)
      PROVE  RecordsTypeOK' /\ KeysMatch'
  <2>1. recordCall[c] # RecordIdle
    BY <1>6, BusyPlaces DEF RowInserted, RowClosed, RecordAt
  <2>2. recordCall' \in [RecordCalls -> {RecordIdle} \cup CallRecords] /\ KeysMatch'
    BY <1>4, <1>6, <2>1, NextReportPlace DEF RowInserted, RowClosed
  <2> QED BY <1>6, <2>1, <2>2, CallsAreRecords DEF RowInserted, RowClosed, RecordsTypeOK, CallRecords
<1>7. ASSUME NEW c \in RecordCalls, NEW made \in BOOLEAN, Audited(c, made) \/ Told(c, made)
      PROVE  RecordsTypeOK' /\ KeysMatch'
  <2>1. recordCall[c] # RecordIdle
    BY <1>7, BusyPlaces DEF Audited, Told, RecordAt
  <2>2. recordCall' \in [RecordCalls -> {RecordIdle} \cup CallRecords] /\ KeysMatch'
    BY <1>4, <1>7, <2>1, NextReportPlace DEF Audited, Told
  <2>3. <<OpOf(c).write, recordCall[c].at, KeyOf(c)>> \in Reports
    BY <1>7, <2>1, CallsAreRecords, OpFacts DEF Audited, Told, RecordAt, Reports
  <2> QED BY <1>7, <2>2, <2>3 DEF Audited, Told, Report, RecordsTypeOK, CallRecords
<1>8. CASE Midnight
  BY <1>8, RecordConstants DEF Midnight, RecordsTypeOK, KeysMatch, KeyOf, OpOf
<1>9. CASE RecordsProcessDies
  <2>1. ASSUME NEW c \in RecordCalls, recordCall[c].at \in {"audit", "tell"}
        PROVE  StillToCome(c, recordCall[c].at) \subseteq Reports
    BY <2>1, BusyPlaces, CallsAreRecords, OpFacts DEF StillToCome, Reports
  <2>2. unreported' \subseteq Reports
    BY <1>9, <2>1 DEF RecordsProcessDies, RecordsTypeOK
  <2> QED BY <1>9, <2>2 DEF RecordsProcessDies, RecordsTypeOK, KeysMatch
<1> QED
  BY <1>1, <1>2, <1>3, <1>5, <1>6, <1>7, <1>8, <1>9 DEF RecordsNext

LEMMA RecordsInvStep ==
  ASSUME RecordsInv, [RecordsNext]_recordsVars
  PROVE  LooksStillTrue' /\ OncePerKey'
<1>0. RecordsTypeOK /\ RecordsTypeOK' /\ KeysMatch /\ KeysMatch' /\ LooksStillTrue /\ OncePerKey
  BY RecordsTypeStep DEF RecordsInv
<1>1. CASE UNCHANGED recordsVars
  BY <1>0, <1>1 DEF LooksStillTrue, OncePerKey, Writes, RecordAt, KeyOf, OpOf, recordsVars
\* Calls that are about to write were so before; rows and the looked-at are as they were.
<1>2. ASSUME UNCHANGED <<rowsOf, closings>>, contended \subseteq contended',
             \A c \in RecordCalls : recordCall'[c].at = "write" => recordCall'[c] = recordCall[c]
      PROVE  LooksStillTrue' /\ OncePerKey'
  BY <1>0, <1>2 DEF LooksStillTrue, OncePerKey, Writes, RecordAt, KeyOf, OpOf
<1>3. ASSUME NEW c \in RecordCalls, NEW op \in RecordOps, NEW k \in Keys, RecordCalled(c, op, k)
      PROVE  LooksStillTrue' /\ OncePerKey'
  <2>1. /\ UNCHANGED <<rowsOf, closings, contended>> /\ recordCall'[c].at = "permit"
        /\ \A d \in RecordCalls \ {c} : recordCall'[d] = recordCall[d]
    BY <1>0, <1>3 DEF RecordCalled, RecordsTypeOK
  <2> QED BY <1>2, <2>1
<1>4. ASSUME NEW c \in RecordCalls, RecordPermitted(c)
      PROVE  LooksStillTrue' /\ OncePerKey'
  <2>1. recordCall[c] # RecordIdle
    BY <1>4, BusyPlaces DEF RecordPermitted, RecordAt
  <2>2. recordCall[c] \in CallRecords
    BY <1>0, <2>1, CallsAreRecords
  <2>3. /\ UNCHANGED <<rowsOf, closings, contended>> /\ recordCall'[c].at = "look"
        /\ \A d \in RecordCalls \ {c} : recordCall'[d] = recordCall[d]
    BY <1>0, <1>4, <2>2 DEF RecordPermitted, RecordsTypeOK, CallRecords
  <2> QED BY <1>2, <2>3
<1>5. ASSUME NEW c \in RecordCalls, recordCall[c] # RecordIdle,
             NEW place \in {"audit", "tell", "idle"}, RecordTo(c, place),
             UNCHANGED <<rowsOf, closings, contended>>
      PROVE  LooksStillTrue' /\ OncePerKey'
  <2>1. /\ recordCall'[c].at # "write"
        /\ \A d \in RecordCalls \ {c} : recordCall'[d] = recordCall[d]
    BY <1>0, <1>5, GoneTo DEF RecordIdle
  <2> QED BY <1>2, <1>5, <2>1
<1>6. \A op, after : NextReport(op, after) \in {"audit", "tell", "idle"}
  BY DEF NextReport
<1>7. ASSUME NEW c \in RecordCalls, RecordRefused(c)
      PROVE  LooksStillTrue' /\ OncePerKey'
  <2>1. recordCall[c] # RecordIdle
    BY <1>7, BusyPlaces DEF RecordRefused
  <2> QED BY <1>5, <1>7, <2>1 DEF RecordRefused
<1>8. ASSUME NEW c \in RecordCalls, NEW made \in BOOLEAN, Audited(c, made) \/ Told(c, made)
      PROVE  LooksStillTrue' /\ OncePerKey'
  <2>1. recordCall[c] # RecordIdle
    BY <1>8, BusyPlaces DEF Audited, Told, RecordAt
  <2> QED BY <1>5, <1>6, <1>8, <2>1 DEF Audited, Told, Report
<1>9. CASE Midnight
  BY <1>2, <1>9 DEF Midnight
<1>10. CASE RecordsProcessDies
  <2>1. \A c \in RecordCalls : recordCall'[c].at # "write"
    BY <1>10 DEF RecordsProcessDies, RecordIdle
  <2> QED BY <1>2, <1>10, <2>1 DEF RecordsProcessDies
\* The look: another that is about to write the same makes the key contended.
<1>11. ASSUME NEW c \in RecordCalls, Looked(c)
       PROVE  LooksStillTrue' /\ OncePerKey'
  <2>1. recordCall[c] # RecordIdle
    BY <1>11, BusyPlaces DEF Looked, RecordAt
  <2>2. /\ UNCHANGED <<rowsOf, closings>> /\ contended \subseteq contended'
        /\ recordCall'[c].at = "write" /\ recordCall'[c].op = OpOf(c)
        /\ recordCall'[c].key = KeyOf(c)
        /\ \A d \in RecordCalls \ {c} : recordCall'[d] = recordCall[d]
        /\ Sees(OpOf(c).looks, KeyOf(c))
    BY <1>0, <1>11, <2>1, GoneTo DEF Looked
  <2>3. OncePerKey'
    BY <1>0, <2>2 DEF OncePerKey
  <2>4. ASSUME NEW k \in Keys \ contended', NEW b \in RecordCalls,
               recordCall'[b].at = "write", recordCall'[b].key = k
        PROVE  /\ \A d \in RecordCalls : /\ recordCall'[d].at = "write" /\ recordCall'[d].key = k
                                         /\ recordCall'[d].op.write = recordCall'[b].op.write
                                        => d = b
               /\ recordCall'[b].op.looks = "absent" => rowsOf'[k] = 0
               /\ recordCall'[b].op.looks = "open" => closings'[k] = 0
    <3>1. k \in Keys \ contended
      BY <2>2, <2>4
    <3>2. ASSUME k = KeyOf(c), NEW d \in RecordCalls \ {c}, Writes(d, k, OpOf(c).write)
          PROVE  FALSE
      BY <1>11, <2>4, <3>2 DEF Looked, Writes
    <3>3. CASE b = c
      <4>1. /\ OpOf(c).looks = "absent" => rowsOf[k] = 0
            /\ OpOf(c).looks = "open" => closings[k] = 0
        BY <2>2, <2>4, <3>3 DEF Sees
      <4> QED BY <2>2, <2>4, <3>2, <3>3, <4>1 DEF Writes, RecordAt, KeyOf, OpOf
    <3>4. CASE b # c
      <4>1. /\ RecordAt(b, "write") /\ KeyOf(b) = k /\ recordCall'[b] = recordCall[b]
        BY <2>2, <2>4, <3>4 DEF RecordAt, KeyOf
      <4>2. /\ \A d \in RecordCalls : Writes(d, k, OpOf(b).write) => d = b
            /\ OpOf(b).looks = "absent" => rowsOf[k] = 0
            /\ OpOf(b).looks = "open" => closings[k] = 0
        BY <1>0, <3>1, <4>1 DEF LooksStillTrue
      <4>3. ~(KeyOf(c) = k /\ OpOf(c).write = OpOf(b).write)
        BY <3>2, <3>4, <4>1 DEF Writes
      <4> QED BY <2>2, <4>1, <4>2, <4>3 DEF Writes, RecordAt, KeyOf, OpOf
    <3> QED BY <3>3, <3>4
  <2> QED BY <2>3, <2>4 DEF LooksStillTrue, Writes, RecordAt, KeyOf, OpOf
\* The write: whoever was alone has written once, and is gone.
<1>12. ASSUME NEW c \in RecordCalls, RowInserted(c) \/ RowClosed(c)
       PROVE  LooksStillTrue' /\ OncePerKey'
  <2>1. recordCall[c] # RecordIdle
    BY <1>12, BusyPlaces DEF RowInserted, RowClosed, RecordAt
  <2>2. /\ contended' = contended /\ recordCall'[c].at # "write"
        /\ \A d \in RecordCalls \ {c} : recordCall'[d] = recordCall[d]
    BY <1>0, <1>6, <1>12, <2>1, GoneTo DEF RowInserted, RowClosed, RecordIdle
  <2>3. /\ OpOf(c) \in RecordOps /\ KeyOf(c) \in Keys /\ KeyOf(c)[1] = OpOf(c).table
        /\ RecordAt(c, "write")
    BY <1>0, <1>12, <2>1, CallsAreRecords DEF KeysMatch, RowInserted, RowClosed
  <2>4. /\ RowInserted(c) => /\ OpOf(c).write = "insert" /\ closings' = closings
                             /\ rowsOf' = [rowsOf EXCEPT ![KeyOf(c)] = @ + 1]
        /\ RowClosed(c) => /\ OpOf(c).write = "close" /\ rowsOf' = rowsOf
                           /\ closings' = [closings EXCEPT ![KeyOf(c)] = @ + 1]
    BY DEF RowInserted, RowClosed
  <2>5. /\ rowsOf \in [Keys -> Nat] /\ closings \in [Keys -> Nat]
    BY <1>0 DEF RecordsTypeOK
  <2>6. OncePerKey'
    <3> SUFFICES ASSUME NEW k \in Keys \ contended
                 PROVE  closings'[k] <= 1 /\ (k[1] # "feedback" => rowsOf'[k] <= 1)
      BY <2>2 DEF OncePerKey
    <3>1. closings[k] <= 1 /\ (k[1] # "feedback" => rowsOf[k] <= 1)
      BY <1>0 DEF OncePerKey
    <3>2. CASE k # KeyOf(c)
      BY <1>12, <2>3, <2>4, <2>5, <3>1, <3>2
    <3>3. CASE k = KeyOf(c) /\ RowClosed(c)
      <4>1. closings[k] = 0
        BY <1>0, <2>3, <2>4, <3>3, OpFacts DEF LooksStillTrue
      <4> QED BY <2>4, <2>5, <3>1, <3>3, <4>1
    <3>4. CASE k = KeyOf(c) /\ RowInserted(c)
      <4>1. k[1] # "feedback" => rowsOf[k] = 0
        <5>1. CASE OpOf(c).unique
          BY <2>5, <3>4, <5>1 DEF RowInserted
        <5>2. CASE ~OpOf(c).unique
          BY <1>0, <2>3, <2>4, <3>4, <5>2, OpFacts DEF LooksStillTrue
        <5> QED BY <5>1, <5>2
      <4> QED BY <2>4, <2>5, <3>1, <3>4, <4>1
    <3> QED BY <1>12, <3>2, <3>3, <3>4
  <2>7. ASSUME NEW k \in Keys \ contended, NEW b \in RecordCalls,
               recordCall'[b].at = "write", recordCall'[b].key = k
        PROVE  /\ \A d \in RecordCalls : /\ recordCall'[d].at = "write" /\ recordCall'[d].key = k
                                         /\ recordCall'[d].op.write = recordCall'[b].op.write
                                        => d = b
               /\ recordCall'[b].op.looks = "absent" => rowsOf'[k] = 0
               /\ recordCall'[b].op.looks = "open" => closings'[k] = 0
    <3>1. /\ b # c /\ recordCall'[b] = recordCall[b] /\ RecordAt(b, "write") /\ KeyOf(b) = k
      BY <2>2, <2>7 DEF RecordAt, KeyOf
    <3>2. /\ \A d \in RecordCalls : Writes(d, k, OpOf(b).write) => d = b
          /\ OpOf(b).looks = "absent" => rowsOf[k] = 0
          /\ OpOf(b).looks = "open" => closings[k] = 0
      BY <1>0, <3>1 DEF LooksStillTrue
    <3>3. ~(KeyOf(c) = k /\ OpOf(c).write = OpOf(b).write)
      BY <2>3, <3>1, <3>2 DEF Writes
    <3>4. OpOf(b) \in RecordOps
      BY <1>0, <3>1, BusyPlaces, CallsAreRecords DEF RecordAt
    <3>5. /\ OpOf(b).looks = "absent" => rowsOf'[k] = rowsOf[k]
          /\ OpOf(b).looks = "open" => closings'[k] = closings[k]
      BY <1>12, <2>4, <2>5, <3>3, <3>4, OpFacts
    <3> QED BY <2>2, <3>1, <3>2, <3>5 DEF Writes, RecordAt, KeyOf, OpOf
  <2> QED BY <2>2, <2>6, <2>7 DEF LooksStillTrue, Writes, RecordAt, KeyOf, OpOf
<1> QED
  BY <1>1, <1>3, <1>4, <1>7, <1>8, <1>9, <1>10, <1>11, <1>12 DEF RecordsNext

\* Report r of what writes w to the row of key k is still to come from call c.
ToCome(c, w, r, k) ==
  /\ recordCall[c].at \in {"audit", "tell"}
  /\ OpOf(c).write = w /\ KeyOf(c) = k /\ r \in OpOf(c).report
  /\ r = "tell" \/ (r = "audit" /\ recordCall[c].at = "audit")

LEMMA ToComeIsPending ==
  ASSUME NEW c, NEW w, NEW r, NEW k, recordCall[c].at \in {"audit", "tell"}
  PROVE  <<w, r, k>> \in StillToCome(c, recordCall[c].at) <=> ToCome(c, w, r, k)
<1> DEFINE still == {q \in OpOf(c).report : q = "tell" \/ q = recordCall[c].at}
<1>1. StillToCome(c, recordCall[c].at) = {<<OpOf(c).write, q, KeyOf(c)>> : q \in still}
  BY DEF StillToCome
<1>2. r \in still <=> r \in OpOf(c).report /\ (r = "tell" \/ r = recordCall[c].at)
  OBVIOUS
<1> HIDE DEF still
<1>3. <<w, r, k>> \in {<<OpOf(c).write, q, KeyOf(c)>> : q \in still} <=>
        OpOf(c).write = w /\ KeyOf(c) = k /\ r \in still
  <2>1. <<w, r, k>> \in {<<OpOf(c).write, q, KeyOf(c)>> : q \in still} <=>
          \E q \in still : <<w, r, k>> = <<OpOf(c).write, q, KeyOf(c)>>
    OBVIOUS
  <2>2. \A q : <<w, r, k>> = <<OpOf(c).write, q, KeyOf(c)>> <=>
          w = OpOf(c).write /\ r = q /\ k = KeyOf(c)
    OBVIOUS
  <2> QED BY <2>1, <2>2
<1>4. r = "tell" \/ r = recordCall[c].at <=>
        r = "tell" \/ (r = "audit" /\ recordCall[c].at = "audit")
  OBVIOUS
<1> QED
  BY <1>1, <1>2, <1>3, <1>4 DEF ToCome

Accounted(w, r, k) ==
  <<w, r, k>> \in reported \cup unreported \/ \E c \in RecordCalls : ToCome(c, w, r, k)

Done(w, k) == IF w = "insert" THEN rowsOf[k] > 0 ELSE closings[k] > 0

\* ReportsFollow, with what is still to come spelt out.
AllAccounted ==
  \A op \in RecordOps, k \in Keys : \A r \in op.report :
    op.table = k[1] /\ Done(op.write, k) => Accounted(op.write, r, k)

LEMMA ReportsFollowIsAllAccounted == ReportsFollow <=> AllAccounted
<1>1. \A w, r, k : Accounted(w, r, k) <=>
        \/ <<w, r, k>> \in reported \cup unreported
        \/ \E c \in RecordCalls : /\ recordCall[c].at \in {"audit", "tell"}
                                  /\ <<w, r, k>> \in StillToCome(c, recordCall[c].at)
  <2> TAKE w, r, k
  <2>1. \A c \in RecordCalls : ToCome(c, w, r, k) <=>
          /\ recordCall[c].at \in {"audit", "tell"}
          /\ <<w, r, k>> \in StillToCome(c, recordCall[c].at)
    <3> TAKE c \in RecordCalls
    <3>1. ToCome(c, w, r, k) => recordCall[c].at \in {"audit", "tell"}
      BY DEF ToCome
    <3> QED BY <3>1, ToComeIsPending
  <2> QED BY <2>1 DEF Accounted
<1> QED
  BY <1>1 DEF ReportsFollow, AllAccounted, Done

LEMMA AccountedStep ==
  ASSUME RecordsTypeOK, KeysMatch, AllAccounted, [RecordsNext]_recordsVars
  PROVE  AllAccounted'
<1>1. CASE UNCHANGED recordsVars
  BY <1>1 DEF AllAccounted, Done, Accounted, ToCome, KeyOf, OpOf, recordsVars
\* No row is written, and whoever has reports to make still has them.
<1>2. ASSUME UNCHANGED <<rowsOf, closings, reported, unreported>>,
             \A c \in RecordCalls : recordCall[c].at \in {"audit", "tell"} =>
               recordCall'[c] = recordCall[c]
      PROVE  AllAccounted'
  <2>1. \A w, r, k : Accounted(w, r, k) => Accounted(w, r, k)'
    BY <1>2 DEF Accounted, ToCome, KeyOf, OpOf
  <2> QED BY <1>2, <2>1 DEF AllAccounted, Done
<1>3. ASSUME NEW c \in RecordCalls, NEW op \in RecordOps, NEW k \in Keys, RecordCalled(c, op, k)
      PROVE  AllAccounted'
  BY <1>2, <1>3 DEF RecordCalled, RecordsTypeOK, RecordIdle
<1>4. ASSUME NEW c \in RecordCalls, RecordPermitted(c)
      PROVE  AllAccounted'
  BY <1>2, <1>4 DEF RecordPermitted, RecordAt, RecordsTypeOK
<1>5. ASSUME NEW c \in RecordCalls, RecordRefused(c) \/ Looked(c)
      PROVE  AllAccounted'
  <2>1. recordCall[c] # RecordIdle
    BY <1>5, BusyPlaces DEF RecordRefused, Looked, RecordAt
  <2>2. \A d \in RecordCalls \ {c} : recordCall'[d] = recordCall[d]
    BY <1>5, <2>1, GoneTo DEF RecordRefused, Looked
  <2> QED BY <1>2, <1>5, <2>2 DEF RecordRefused, Looked, RecordAt
<1>6. CASE Midnight
  BY <1>2, <1>6 DEF Midnight
\* A row is written by the operation of its table, and the reports begin.
<1>7. ASSUME NEW c \in RecordCalls, RowInserted(c) \/ RowClosed(c)
      PROVE  AllAccounted'
  <2>1. recordCall[c] # RecordIdle /\ recordCall[c].at = "write"
    BY <1>7, BusyPlaces DEF RowInserted, RowClosed, RecordAt
  <2>2. /\ UNCHANGED <<reported, unreported>>
        /\ RecordTo(c, NextReport(OpOf(c), "write"))
        /\ \A d \in RecordCalls \ {c} : recordCall'[d] = recordCall[d]
    BY <1>7, <2>1, GoneTo, NextReportPlace DEF RowInserted, RowClosed
  <2>3. /\ OpOf(c) \in RecordOps /\ KeyOf(c) \in Keys /\ KeyOf(c)[1] = OpOf(c).table
    BY <2>1, CallsAreRecords DEF KeysMatch
  <2>4. ASSUME NEW w, NEW k, NEW r \in OpOf(c).report, w = OpOf(c).write, k = KeyOf(c)
        PROVE  Accounted(w, r, k)'
    <3>1. r \in {"audit", "tell"}
      BY <2>3, OpFacts
    <3>2. NextReport(OpOf(c), "write") = IF "audit" \in OpOf(c).report THEN "audit" ELSE "tell"
      BY <2>4, <3>1 DEF NextReport
    <3>3. /\ recordCall'[c].at = NextReport(OpOf(c), "write")
          /\ recordCall'[c].op = OpOf(c) /\ recordCall'[c].key = KeyOf(c)
      BY <2>1, <2>2, <3>2, GoneTo
    <3>4. ToCome(c, w, r, k)'
      BY <2>4, <3>1, <3>2, <3>3 DEF ToCome, OpOf, KeyOf
    <3>5. \E d \in RecordCalls : ToCome(d, w, r, k)'
      BY <3>4
    <3> QED BY <3>5 DEF Accounted
  <2>5. \A w, r, k : Accounted(w, r, k) => Accounted(w, r, k)'
    BY <2>1, <2>2 DEF Accounted, ToCome, KeyOf, OpOf
  <2>6. ASSUME NEW w \in {"insert", "close"}, NEW k \in Keys, Done(w, k)', ~Done(w, k)
        PROVE  k = KeyOf(c) /\ w = OpOf(c).write
    BY <1>7, <2>3, <2>6 DEF RowInserted, RowClosed, Done, RecordsTypeOK
  <2>7. ASSUME NEW op \in RecordOps, NEW k \in Keys, NEW r \in op.report,
               op.table = k[1], Done(op.write, k)'
        PROVE  Accounted(op.write, r, k)'
    <3>1. CASE Done(op.write, k)
      BY <2>5, <2>7, <3>1 DEF AllAccounted
    <3>2. CASE ~Done(op.write, k)
      <4>1. k = KeyOf(c) /\ op.write = OpOf(c).write
        BY <2>6, <2>7, <3>2, OpFacts
      <4>2. op = OpOf(c)
        BY <2>3, <2>7, <4>1, OpsDiffer
      <4> QED BY <2>4, <2>7, <4>1, <4>2
    <3> QED BY <3>1, <3>2
  <2> QED BY <2>7 DEF AllAccounted
\* A report that is made, or fails, is accounted for; the next one is still to come.
<1>8. ASSUME NEW c \in RecordCalls, NEW made \in BOOLEAN, Audited(c, made) \/ Told(c, made)
      PROVE  AllAccounted'
  <2>1. recordCall[c] # RecordIdle /\ recordCall[c].at \in {"audit", "tell"}
    BY <1>8, BusyPlaces DEF Audited, Told, RecordAt
  <2> DEFINE place == IF Audited(c, made) THEN NextReport(OpOf(c), "audit") ELSE "idle"
  <2>2. /\ UNCHANGED <<rowsOf, closings>> /\ RecordTo(c, place)
        /\ reported \cup unreported \subseteq reported' \cup unreported'
        /\ <<OpOf(c).write, recordCall[c].at, KeyOf(c)>> \in reported' \cup unreported'
    BY <1>8 DEF Audited, Told, Report
  <2>3. /\ recordCall[c].at = "audit" /\ "tell" \in OpOf(c).report => place = "tell"
        /\ place \in {"tell", "idle"}
    BY <1>8 DEF Audited, Told, RecordAt, NextReport
  <2>4. OpOf(c).report \subseteq {"audit", "tell"}
    BY <2>1, CallsAreRecords, OpFacts
  <2> HIDE DEF place
  <2>5. /\ \A d \in RecordCalls \ {c} : recordCall'[d] = recordCall[d]
        /\ place = "tell" => /\ recordCall'[c].at = "tell" /\ recordCall'[c].op = OpOf(c)
                             /\ recordCall'[c].key = KeyOf(c)
    BY <2>1, <2>2, <2>3, GoneTo
  <2>6. ASSUME NEW w, NEW r, NEW k, ToCome(c, w, r, k)
        PROVE  Accounted(w, r, k)'
    <3>1. w = OpOf(c).write /\ k = KeyOf(c) /\ r \in OpOf(c).report
      BY <2>6 DEF ToCome
    <3>2. CASE r = recordCall[c].at
      BY <2>2, <3>1, <3>2 DEF Accounted
    <3>3. CASE r # recordCall[c].at
      <4>1. recordCall[c].at = "audit" /\ r = "tell" /\ place = "tell"
        BY <2>1, <2>3, <2>6, <3>1, <3>3 DEF ToCome
      <4>2. ToCome(c, w, r, k)'
        BY <2>5, <3>1, <4>1 DEF ToCome, OpOf, KeyOf
      <4>3. \E d \in RecordCalls : ToCome(d, w, r, k)'
        BY <4>2
      <4> QED BY <4>3 DEF Accounted
    <3> QED BY <3>2, <3>3
  <2>7. \A d \in RecordCalls \ {c} : \A w, r, k : ToCome(d, w, r, k) => ToCome(d, w, r, k)'
    BY <2>5 DEF ToCome, OpOf, KeyOf
  <2>8. \A w, r, k : Accounted(w, r, k) => Accounted(w, r, k)'
    BY <2>2, <2>6, <2>7 DEF Accounted
  <2> QED BY <2>2, <2>8 DEF AllAccounted, Done
<1>9. CASE RecordsProcessDies
  <2>1. /\ UNCHANGED <<rowsOf, closings, reported>> /\ unreported \subseteq unreported'
        /\ \A d \in RecordCalls : recordCall[d].at \in {"audit", "tell"} =>
             StillToCome(d, recordCall[d].at) \subseteq unreported'
    BY <1>9 DEF RecordsProcessDies
  <2>2. ASSUME NEW d \in RecordCalls, NEW w, NEW r, NEW k, ToCome(d, w, r, k)
        PROVE  <<w, r, k>> \in unreported'
    <3>1. recordCall[d].at \in {"audit", "tell"}
      BY <2>2 DEF ToCome
    <3> QED BY <2>1, <2>2, <3>1, ToComeIsPending
  <2>3. \A w, r, k : Accounted(w, r, k) => Accounted(w, r, k)'
    BY <2>1, <2>2 DEF Accounted
  <2> QED BY <2>1, <2>3 DEF AllAccounted, Done
<1> QED
  BY <1>1, <1>3, <1>4, <1>5, <1>6, <1>7, <1>8, <1>9 DEF RecordsNext

LEMMA RecordsInvHolds == RecordsSpec => []RecordsInv
<1>1. RecordsInit => RecordsInv
  <2> SUFFICES ASSUME RecordsInit PROVE RecordsInv
    OBVIOUS
  <2>1. RecordsTypeOK
    BY RecordConstants DEF RecordsInit, RecordsTypeOK
  <2>2. KeysMatch /\ LooksStillTrue /\ OncePerKey
    BY DEF RecordsInit, KeysMatch, LooksStillTrue, OncePerKey, RecordAt, RecordIdle
  <2>3. AllAccounted
    BY DEF RecordsInit, AllAccounted, Done
  <2> QED BY <2>1, <2>2, <2>3, ReportsFollowIsAllAccounted DEF RecordsInv
<1>2. RecordsInv /\ [RecordsNext]_recordsVars => RecordsInv'
  <2> SUFFICES ASSUME RecordsInv, [RecordsNext]_recordsVars PROVE RecordsInv'
    OBVIOUS
  <2>1. RecordsTypeOK' /\ KeysMatch' /\ LooksStillTrue' /\ OncePerKey'
    BY RecordsTypeStep, RecordsInvStep DEF RecordsInv
  <2>2. AllAccounted'
    BY AccountedStep, ReportsFollowIsAllAccounted DEF RecordsInv
  <2>3. ReportsFollow' <=> AllAccounted'
    BY ReportsFollowIsAllAccounted, PTL
  <2> QED BY <2>1, <2>2, <2>3 DEF RecordsInv
<1> QED
  BY <1>1, <1>2, PTL DEF RecordsSpec

\* Two rows for one vote, day, name or channel, and two decisions of one feedback,
\* need two calls that had both looked before either wrote.
THEOREM OncePerKeyAlways == RecordsSpec => []OncePerKey
<1>1. RecordsInv => OncePerKey
  BY DEF RecordsInv
<1> QED
  BY <1>1, RecordsInvHolds, PTL

\* Nothing is written without the audit row and the notification it is followed by,
\* unless one of them failed or the process ended.
THEOREM ReportsAlwaysFollow == RecordsSpec => []ReportsFollow
<1>1. RecordsInv => ReportsFollow
  BY DEF RecordsInv
<1> QED
  BY <1>1, RecordsInvHolds, PTL

(***************************************************************************)
(* Workspaces, their members, their projects and tasks.                    *)
(***************************************************************************)

\* Every operation but the creation is one of a workspace that is there.
CallsOfOffices ==
  \A c \in MemberCalls :
    memberCall[c] # MemberIdle /\ Asked(c).op # "create" => IsOffice(Asked(c).office)

\* A removal that found its membership is never the owner's: rows keep their
\* workspace and their person, and workspaces their owner.
RemovalsSpareOwner ==
  \A c \in MemberCalls :
    MemberAt(c, "write") /\ Asked(c).op = "remove" =>
      LET k == Asked(c) IN
      /\ membership[k.id] # NoMember
      /\ membership[k.id].office = k.office
      /\ MayGo(k)

\* A creation that tries a suffix found the smaller ones taken.
SmallerTaken ==
  \A c \in MemberCalls : MemberAt(c, "slug") \/ MemberAt(c, "transact") =>
    \A n \in 1..(memberCall[c].slug - 1) : SlugTaken(n)

MembersInv == MembersTypeOK /\ CallsOfOffices /\ RemovalsSpareOwner /\ OwnerStays

MemberPlaces == {"permit", "slug", "transact", "find", "write"}
MemberCallRecords == [at : MemberPlaces, ask : MemberAsks, slug : Nat \ {0}]

LEMMA AskShapes ==
  ASSUME NEW k \in MemberAsks
  PROVE  /\ k.by \in Persons /\ k.office \in Offices
         /\ k.op = "invite" => k.person \in Persons /\ k.role \in GivenRoles
         /\ k.op = "role.set" => k.id \in MemberIds /\ k.role \in GivenRoles
         /\ k.op = "remove" => k.id \in MemberIds
BY DEF MemberAsks

LEMMA RowIsNotNothing == \A r \in MemberRows : r # NoMember
BY DEF MemberRows, NoMember

LEMMA FreshIdIsFree ==
  ASSUME IdLeft
  PROVE  FreshId \in MemberIds /\ membership[FreshId] = NoMember
BY DEF IdLeft, FreshId

LEMMA OwnerIsRole == "OWNER" \in Roles
BY DEF Roles, Granted

\* A row that is added takes nothing from the others.
LEMMA NewMemberAdds ==
  ASSUME MembersTypeOK, NEW w \in Offices, NEW u \in Persons, NEW role \in Roles,
         NewMember(w, u, role)
  PROVE  /\ membership' \in [MemberIds -> {NoMember} \cup MemberRows]
         /\ \A i \in MemberIds : membership[i] # NoMember => membership'[i] = membership[i]
         /\ \E i \in MemberIds : membership'[i] =
              [office |-> w, person |-> u, role |-> role, current |-> TRUE]
<1>1. FreshId \in MemberIds /\ membership[FreshId] = NoMember
  BY FreshIdIsFree DEF NewMember
<1>2. [office |-> w, person |-> u, role |-> role, current |-> TRUE] \in MemberRows
  BY DEF MemberRows
<1>3. membership' = [membership EXCEPT ![FreshId] =
        [office |-> w, person |-> u, role |-> role, current |-> TRUE]]
  BY DEF NewMember
<1> QED
  BY <1>1, <1>2, <1>3 DEF MembersTypeOK

LEMMA MembersTypeStep ==
  ASSUME MembersTypeOK, [MembersNext]_membersVars
  PROVE  MembersTypeOK'
<1>1. CASE UNCHANGED membersVars
  BY <1>1 DEF MembersTypeOK, membersVars
<1>2. ASSUME NEW c \in MemberCalls, NEW k \in MemberAsks, MemberCalled(c, k)
      PROVE  MembersTypeOK'
  <2>1. [at |-> IF k.op = "create" THEN "slug" ELSE "permit", ask |-> k, slug |-> 1]
          \in MemberCallRecords
    BY DEF MemberCallRecords, MemberPlaces
  <2> QED
    BY <1>2, <2>1 DEF MembersTypeOK, MemberCalled, MemberCallRecords, MemberPlaces
<1>3. ASSUME NEW c \in MemberCalls, MemberRefused(c)
      PROVE  MembersTypeOK'
  BY <1>3 DEF MembersTypeOK, MemberRefused, MemberDone
<1>4. ASSUME NEW c \in MemberCalls, memberCall[c] # MemberIdle
      PROVE  /\ memberCall[c] \in MemberCallRecords /\ Asked(c) \in MemberAsks
             /\ \A place \in MemberPlaces : MemberGoto(c, place) =>
                  memberCall' \in [MemberCalls -> {MemberIdle} \cup MemberCallRecords]
             /\ MemberDone(c) =>
                  memberCall' \in [MemberCalls -> {MemberIdle} \cup MemberCallRecords]
  <2>1. memberCall \in [MemberCalls -> {MemberIdle} \cup MemberCallRecords]
    BY DEF MembersTypeOK, MemberCallRecords, MemberPlaces
  <2>2. memberCall[c] \in MemberCallRecords
    BY <1>4, <2>1
  <2>3. ASSUME NEW place \in MemberPlaces
        PROVE  [memberCall[c] EXCEPT !.at = place] \in MemberCallRecords
    BY <2>2 DEF MemberCallRecords
  <2> QED
    BY <2>1, <2>2, <2>3 DEF MemberCallRecords, Asked, MemberGoto, MemberDone
<1>5. \A c \in MemberCalls, place \in MemberPlaces : MemberAt(c, place) => memberCall[c] # MemberIdle
  BY DEF MemberAt, MemberIdle, MemberPlaces
<1>6. ASSUME NEW c \in MemberCalls, MemberPermitted(c) \/ MemberFound(c)
      PROVE  MembersTypeOK'
  <2>1. memberCall[c] # MemberIdle
    BY <1>5, <1>6 DEF MemberPermitted, MemberFound, MemberPlaces
  <2> QED
    BY <1>4, <1>6, <2>1
    DEF MembersTypeOK, MemberPermitted, MemberFound, MemberPlaces, MemberCallRecords
<1>7. ASSUME NEW c \in MemberCalls, SlugTried(c)
      PROVE  MembersTypeOK'
  <2>1. memberCall[c] # MemberIdle
    BY <1>5, <1>7 DEF SlugTried, MemberPlaces
  <2>2. memberCall[c] \in MemberCallRecords
    BY <1>4, <2>1
  <2>3. [memberCall[c] EXCEPT !.slug = @ + 1] \in MemberCallRecords
    BY <2>2 DEF MemberCallRecords
  <2>4. memberCall' \in [MemberCalls -> {MemberIdle} \cup MemberCallRecords]
    BY <1>4, <1>7, <2>1, <2>3 DEF SlugTried, MembersTypeOK, MemberCallRecords, MemberPlaces
  <2> QED
    BY <1>7, <2>4 DEF SlugTried, MembersTypeOK, MemberCallRecords, MemberPlaces
<1>8. ASSUME NEW c \in MemberCalls, OfficeCreated(c)
      PROVE  MembersTypeOK'
  <2>1. memberCall[c] # MemberIdle
    BY <1>5, <1>8 DEF OfficeCreated, MemberPlaces
  <2>2. Asked(c).by \in Persons /\ Asked(c).office \in Offices
        /\ memberCall[c].slug \in Nat \ {0}
    BY <1>4, <2>1, AskShapes DEF MemberCallRecords
  <2>3. membership' \in [MemberIds -> {NoMember} \cup MemberRows]
    BY <1>8, <2>2, NewMemberAdds, OwnerIsRole DEF OfficeCreated
  <2> QED
    BY <1>4, <1>8, <2>1, <2>2, <2>3
    DEF OfficeCreated, MembersTypeOK, MemberCallRecords, MemberPlaces
<1>9. ASSUME NEW c \in MemberCalls, Invited(c)
      PROVE  MembersTypeOK'
  <2>1. memberCall[c] # MemberIdle
    BY <1>5, <1>9 DEF Invited, MemberPlaces
  <2>2. /\ Asked(c).office \in Offices /\ Asked(c).person \in Persons
        /\ Asked(c).role \in Roles
    BY <1>4, <1>9, <2>1, AskShapes, RolesAreGiven DEF Invited
  <2>3. membership' \in [MemberIds -> {NoMember} \cup MemberRows]
    BY <1>9, <2>2, NewMemberAdds DEF Invited
  <2> QED
    BY <1>4, <1>9, <2>1, <2>3 DEF Invited, MembersTypeOK, MemberCallRecords, MemberPlaces
<1>10. ASSUME NEW c \in MemberCalls, RoleSet(c) \/ MemberRemoved(c)
       PROVE  MembersTypeOK'
  <2>1. memberCall[c] # MemberIdle
    BY <1>5, <1>10 DEF RoleSet, MemberRemoved, MemberPlaces
  <2>2. Asked(c).id \in MemberIds /\ (RoleSet(c) => Asked(c).role \in Roles)
    BY <1>4, <1>10, <2>1, AskShapes, RolesAreGiven DEF RoleSet, MemberRemoved
  <2>3. membership[Asked(c).id] \in MemberRows
    BY <1>10, <2>2 DEF RoleSet, MemberRemoved, MembersTypeOK, Current, NoMember
  <2>4. /\ RoleSet(c) => [membership[Asked(c).id] EXCEPT !.role = Asked(c).role] \in MemberRows
        /\ [membership[Asked(c).id] EXCEPT !.current = FALSE] \in MemberRows
    BY <2>2, <2>3 DEF MemberRows
  <2> QED
    BY <1>4, <1>10, <2>1, <2>2, <2>4
    DEF RoleSet, MemberRemoved, MembersTypeOK, MemberCallRecords, MemberPlaces
<1> QED
  BY <1>1, <1>2, <1>3, <1>6, <1>7, <1>8, <1>9, <1>10 DEF MembersNext

\* What the other operations of a step find unchanged: a row keeps its workspace and
\* its person, a workspace its owner.
RowsKept ==
  /\ \A i \in MemberIds : membership[i] # NoMember =>
       /\ membership'[i] # NoMember
       /\ membership'[i].office = membership[i].office
       /\ membership'[i].person = membership[i].person
  /\ \A w \in Offices : IsOffice(w) => office'[w] = office[w]

LEMMA StepKeepsRows ==
  ASSUME MembersTypeOK, NEW c \in MemberCalls,
         OfficeCreated(c) \/ Invited(c) \/ RoleSet(c) \/ MemberRemoved(c)
  PROVE  RowsKept /\ memberCall' = [memberCall EXCEPT ![c] = MemberIdle]
<1>1. memberCall[c] # MemberIdle
  BY DEF OfficeCreated, Invited, RoleSet, MemberRemoved, MemberAt, MemberIdle
<1>2. Asked(c) \in MemberAsks
  BY <1>1 DEF MembersTypeOK, Asked
<1>3. CASE OfficeCreated(c)
  <2>1. \A i \in MemberIds : membership[i] # NoMember => membership'[i] = membership[i]
    BY <1>2, <1>3, AskShapes, NewMemberAdds, OwnerIsRole DEF OfficeCreated
  <2> QED
    BY <1>2, <1>3, <2>1, AskShapes DEF OfficeCreated, RowsKept, MembersTypeOK, MemberDone
<1>4. CASE Invited(c)
  <2>1. \A i \in MemberIds : membership[i] # NoMember => membership'[i] = membership[i]
    BY <1>2, <1>4, AskShapes, NewMemberAdds, RolesAreGiven DEF Invited
  <2> QED
    BY <1>4, <2>1 DEF Invited, RowsKept, MemberDone
<1>5. CASE RoleSet(c) \/ MemberRemoved(c)
  <2>1. Asked(c).id \in MemberIds
    BY <1>2, <1>5, AskShapes DEF RoleSet, MemberRemoved
  <2>2. membership[Asked(c).id] \in MemberRows
    BY <1>5, <2>1 DEF RoleSet, MemberRemoved, MembersTypeOK, Current, NoMember
  <2>3. /\ membership'[Asked(c).id].office = membership[Asked(c).id].office
        /\ membership'[Asked(c).id].person = membership[Asked(c).id].person
        /\ membership'[Asked(c).id] # NoMember
    <3>1. membership' = [membership EXCEPT ![Asked(c).id] =
            [membership[Asked(c).id] EXCEPT !.role = Asked(c).role]] \/
          membership' = [membership EXCEPT ![Asked(c).id] =
            [membership[Asked(c).id] EXCEPT !.current = FALSE]]
      BY <1>5 DEF RoleSet, MemberRemoved
    <3>2. membership'[Asked(c).id] = [membership[Asked(c).id] EXCEPT !.role = Asked(c).role] \/
          membership'[Asked(c).id] = [membership[Asked(c).id] EXCEPT !.current = FALSE]
      BY <2>1, <3>1 DEF MembersTypeOK
    <3> QED
      BY <2>2, <3>2, RowIsNotNothing DEF MemberRows, NoMember
  <2>4. \A i \in MemberIds \ {Asked(c).id} : membership'[i] = membership[i]
    BY <1>5, <2>1 DEF RoleSet, MemberRemoved, MembersTypeOK
  <2> QED
    BY <1>5, <2>3, <2>4 DEF RowsKept, RoleSet, MemberRemoved, MemberDone
<1> QED
  BY <1>3, <1>4, <1>5

LEMMA MembersInvStep ==
  ASSUME MembersInv, [MembersNext]_membersVars
  PROVE  MembersInv'
<1>0. MembersTypeOK /\ MembersTypeOK'
  BY MembersTypeStep DEF MembersInv
<1>1. CASE UNCHANGED membersVars
  BY <1>1 DEF MembersInv, MembersTypeOK, CallsOfOffices, RemovalsSpareOwner, OwnerStays,
      IsOffice, IsMember, Memberships, Current, MayGo, Asked, MemberAt, membersVars
\* A step that writes no row.
<1>2. ASSUME NEW c \in MemberCalls, UNCHANGED <<office, membership>>,
             \A d \in MemberCalls \ {c} : memberCall'[d] = memberCall[d],
             memberCall'[c] # MemberIdle /\ Asked(c)'.op # "create" => IsOffice(Asked(c)'.office),
             memberCall'[c].at = "write" /\ Asked(c)'.op = "remove" =>
               /\ membership[Asked(c)'.id] # NoMember
               /\ membership[Asked(c)'.id].office = Asked(c)'.office
               /\ MayGo(Asked(c)')
      PROVE  MembersInv'
  <2>1. CallsOfOffices'
    BY <1>2 DEF MembersInv, CallsOfOffices, IsOffice, Asked
  <2>2. RemovalsSpareOwner'
    BY <1>2 DEF MembersInv, RemovalsSpareOwner, MemberAt, MayGo, Asked
  <2>3. OwnerStays'
    BY <1>2 DEF MembersInv, OwnerStays, IsOffice, IsMember, Memberships, Current
  <2> QED BY <1>0, <2>1, <2>2, <2>3 DEF MembersInv
<1>3. ASSUME NEW c \in MemberCalls, NEW k \in MemberAsks, MemberCalled(c, k)
      PROVE  MembersInv'
  <2>1. /\ UNCHANGED <<office, membership>>
        /\ memberCall' = [memberCall EXCEPT ![c] =
             [at |-> IF k.op = "create" THEN "slug" ELSE "permit", ask |-> k, slug |-> 1]]
        /\ k.op # "create" => IsOffice(k.office)
    BY <1>3 DEF MemberCalled
  <2>2. /\ memberCall'[c].at # "write" /\ memberCall'[c].ask = k
        /\ \A d \in MemberCalls \ {c} : memberCall'[d] = memberCall[d]
    BY <1>0, <2>1 DEF MembersTypeOK
  <2> QED BY <1>2, <2>1, <2>2 DEF Asked
<1>4. ASSUME NEW c \in MemberCalls, MemberRefused(c)
      PROVE  MembersInv'
  <2>1. /\ UNCHANGED <<office, membership>> /\ memberCall'[c] = MemberIdle
        /\ \A d \in MemberCalls \ {c} : memberCall'[d] = memberCall[d]
    BY <1>0, <1>4 DEF MemberRefused, MemberDone, MembersTypeOK
  <2>2. memberCall'[c].at # "write"
    BY <2>1 DEF MemberIdle
  <2> QED BY <1>2, <2>1, <2>2
<1>5. ASSUME NEW c \in MemberCalls, MemberPermitted(c) \/ SlugTried(c) \/ MemberFound(c)
      PROVE  MembersInv'
  <2>1. memberCall[c] # MemberIdle /\ Asked(c) \in MemberAsks
    BY <1>0, <1>5 DEF MemberPermitted, SlugTried, MemberFound, MemberAt, MemberIdle, Asked,
        MembersTypeOK
  <2>2. memberCall[c] \in MemberCallRecords
    BY <1>0, <2>1 DEF MembersTypeOK, MemberCallRecords, MemberPlaces
  <2>3. /\ UNCHANGED <<office, membership>> /\ Asked(c)' = Asked(c)
        /\ \A d \in MemberCalls \ {c} : memberCall'[d] = memberCall[d]
        /\ memberCall'[c].at = "write" => MemberFound(c)
    BY <1>0, <1>5, <2>2 DEF MemberPermitted, SlugTried, MemberFound, MemberGoto, MemberAt, Asked,
        MembersTypeOK, MemberCallRecords
  <2>4. Asked(c).op # "create" => IsOffice(Asked(c).office)
    BY <2>1 DEF MembersInv, CallsOfOffices
  <2>5. ASSUME MemberFound(c), Asked(c).op = "remove"
        PROVE  /\ membership[Asked(c).id] # NoMember
               /\ membership[Asked(c).id].office = Asked(c).office
               /\ MayGo(Asked(c))
    BY <2>5 DEF MemberFound, Current, NoMember
  <2> QED BY <1>2, <2>3, <2>4, <2>5
\* A step that writes a row.
<1>6. ASSUME NEW c \in MemberCalls,
             OfficeCreated(c) \/ Invited(c) \/ RoleSet(c) \/ MemberRemoved(c)
      PROVE  MembersInv'
  <2>1. RowsKept /\ memberCall' = [memberCall EXCEPT ![c] = MemberIdle]
    BY <1>0, <1>6, StepKeepsRows
  <2>2. memberCall'[c] = MemberIdle /\ \A d \in MemberCalls \ {c} : memberCall'[d] = memberCall[d]
    BY <1>0, <2>1 DEF MembersTypeOK
  <2>3. \A d \in MemberCalls : memberCall[d] # MemberIdle => Asked(d) \in MemberAsks
    BY <1>0 DEF MembersTypeOK, Asked
  <2>4. \A d \in MemberCalls : MemberAt(d, "write") => memberCall[d] # MemberIdle
    BY DEF MemberAt, MemberIdle
  <2>5. CallsOfOffices'
    BY <2>1, <2>2, <2>3, AskShapes DEF MembersInv, CallsOfOffices, RowsKept, IsOffice, Asked
  <2>6. RemovalsSpareOwner'
    <3> SUFFICES ASSUME NEW d \in MemberCalls, memberCall'[d].at = "write",
                        memberCall'[d].ask.op = "remove"
                 PROVE  /\ membership'[memberCall'[d].ask.id] # NoMember
                        /\ membership'[memberCall'[d].ask.id].office = memberCall'[d].ask.office
                        /\ membership'[memberCall'[d].ask.id].person #
                             office'[memberCall'[d].ask.office].owner
      BY DEF RemovalsSpareOwner, MemberAt, MayGo, Asked
    <3>1. d # c /\ memberCall'[d] = memberCall[d]
      BY <2>2 DEF MemberIdle
    <3>2. MemberAt(d, "write") /\ Asked(d).op = "remove" /\ memberCall'[d].ask = Asked(d)
      BY <3>1 DEF MemberAt, Asked
    <3>3. Asked(d).id \in MemberIds /\ Asked(d).office \in Offices
      BY <2>3, <2>4, <3>2, AskShapes
    <3>4. /\ membership[Asked(d).id] # NoMember
          /\ membership[Asked(d).id].office = Asked(d).office
          /\ membership[Asked(d).id].person # office[Asked(d).office].owner
      BY <3>2 DEF MembersInv, RemovalsSpareOwner, MayGo
    <3>5. IsOffice(Asked(d).office)
      BY <2>4, <3>2 DEF MembersInv, CallsOfOffices
    <3> QED BY <2>1, <3>2, <3>3, <3>4, <3>5 DEF RowsKept
  <2>7. OwnerStays'
    <3> SUFFICES ASSUME NEW w \in Offices, office'[w] # NoOffice
                 PROVE  \E i \in MemberIds : /\ membership'[i].current
                                             /\ membership'[i].office = w
                                             /\ membership'[i].person = office'[w].owner
      BY DEF OwnerStays, IsOffice, IsMember, Memberships, Current
    <3>1. Asked(c) \in MemberAsks
      BY <1>6, <2>3 DEF OfficeCreated, Invited, RoleSet, MemberRemoved, MemberAt, MemberIdle
    <3>2. CASE ~IsOffice(w)
      <4>1. OfficeCreated(c) /\ Asked(c).office = w /\ office'[w].owner = Asked(c).by
        BY <1>0, <1>6, <3>1, <3>2, AskShapes
        DEF IsOffice, OfficeCreated, Invited, RoleSet, MemberRemoved, MembersTypeOK
      <4>2. PICK i \in MemberIds : membership'[i] =
              [office |-> w, person |-> Asked(c).by, role |-> "OWNER", current |-> TRUE]
        BY <1>0, <3>1, <4>1, AskShapes, NewMemberAdds, OwnerIsRole DEF OfficeCreated
      <4> QED BY <4>1, <4>2
    <3>3. CASE IsOffice(w)
      <4>1. PICK i \in MemberIds : /\ membership[i].current /\ membership[i].office = w
                                   /\ membership[i].person = office[w].owner
        BY <3>3 DEF MembersInv, OwnerStays, IsMember, Memberships, Current
      <4>2. membership[i] # NoMember /\ membership[i] \in MemberRows
        BY <1>0, <3>3, <4>1 DEF MembersTypeOK, NoMember, IsOffice, NoOffice
      <4>3. /\ membership'[i].office = w /\ membership'[i].person = office'[w].owner
        BY <2>1, <3>3, <4>1, <4>2 DEF RowsKept
      <4>4. membership'[i].current
        <5>1. CASE OfficeCreated(c) \/ Invited(c)
          BY <1>0, <3>1, <4>1, <4>2, <5>1, AskShapes, NewMemberAdds, OwnerIsRole, RolesAreGiven
          DEF OfficeCreated, Invited
        <5>2. CASE RoleSet(c)
          BY <1>0, <4>1, <4>2, <5>2 DEF RoleSet, MembersTypeOK, MemberRows
        <5>3. CASE MemberRemoved(c)
          <6>1. /\ membership[Asked(c).id].office = Asked(c).office
                /\ membership[Asked(c).id].person # office[Asked(c).office].owner
            BY <5>3 DEF MembersInv, RemovalsSpareOwner, MemberRemoved, MayGo
          <6>2. Asked(c).id # i
            BY <4>1, <6>1
          <6> QED BY <1>0, <4>1, <5>3, <6>2 DEF MemberRemoved, MembersTypeOK
        <5> QED BY <1>6, <5>1, <5>2, <5>3
      <4> QED BY <4>3, <4>4
    <3> QED BY <3>2, <3>3
  <2> QED BY <1>0, <2>5, <2>6, <2>7 DEF MembersInv
<1> QED
  BY <1>1, <1>3, <1>4, <1>5, <1>6 DEF MembersNext

LEMMA MembersInvHolds == MembersSpec => []MembersInv
<1>1. MembersInit => MembersInv
  BY DEF MembersInit, MembersInv, MembersTypeOK, CallsOfOffices, RemovalsSpareOwner, OwnerStays,
      IsOffice, MemberAt, MemberIdle
<1> QED
  BY <1>1, MembersInvStep, PTL DEF MembersSpec

\* No chain of invitations, roles and removals, however it interleaves, leaves a
\* workspace whose owner is not a member of it.
THEOREM OwnerAlwaysStays == MembersSpec => []OwnerStays
<1>1. MembersInv => OwnerStays
  BY DEF MembersInv
<1> QED
  BY <1>1, MembersInvHolds, PTL

LEMMA SlugsStep ==
  ASSUME MembersTypeOK, SmallerTaken, SlugsDense, [MembersNext]_membersVars
  PROVE  SmallerTaken' /\ SlugsDense'
\* Names are never given back.
<1>1. \A w \in Offices : IsOffice(w) => office'[w] = office[w]
  <2>1. CASE UNCHANGED membersVars
    BY <2>1 DEF membersVars
  <2>2. ASSUME NEW c \in MemberCalls,
               \/ \E k \in MemberAsks : MemberCalled(c, k)
               \/ MemberRefused(c) \/ MemberPermitted(c) \/ SlugTried(c) \/ MemberFound(c)
        PROVE  office' = office
    BY <2>2 DEF MemberCalled, MemberRefused, MemberPermitted, SlugTried, MemberFound
  <2>3. ASSUME NEW c \in MemberCalls,
               OfficeCreated(c) \/ Invited(c) \/ RoleSet(c) \/ MemberRemoved(c)
        PROVE  RowsKept
    BY <2>3, StepKeepsRows
  <2> QED BY <2>1, <2>2, <2>3 DEF MembersNext, RowsKept
<1>2. \A n : SlugTaken(n) => SlugTaken(n)'
  BY <1>1 DEF SlugTaken, IsOffice
\* A creation that goes on with a suffix has found the one before it taken.
<1>3. ASSUME NEW c \in MemberCalls, memberCall'[c].at \in {"slug", "transact"}
      PROVE  \/ memberCall'[c].slug = 1
             \/ /\ memberCall[c].at \in {"slug", "transact"}
                /\ \/ memberCall'[c].slug = memberCall[c].slug
                   \/ /\ memberCall'[c].slug = memberCall[c].slug + 1
                      /\ SlugTaken(memberCall[c].slug)
  <2>1. CASE memberCall'[c] = memberCall[c]
    BY <1>3, <2>1
  <2>2. ASSUME NEW k \in MemberAsks, MemberCalled(c, k)
        PROVE  memberCall'[c].slug = 1
    BY <2>2 DEF MemberCalled, MembersTypeOK
  <2>3. CASE SlugTried(c)
    <3>1. memberCall[c] \in MemberCallRecords
      BY <2>3 DEF SlugTried, MemberAt, MemberIdle, MembersTypeOK, MemberCallRecords, MemberPlaces
    <3> QED BY <2>3, <3>1 DEF SlugTried, MemberAt, MemberGoto, MembersTypeOK, MemberCallRecords
  <2>4. CASE MemberPermitted(c) \/ MemberFound(c)
    <3>1. memberCall[c] \in MemberCallRecords
      BY <2>4 DEF MemberPermitted, MemberFound, MemberAt, MemberIdle, MembersTypeOK,
          MemberCallRecords, MemberPlaces
    <3> QED BY <1>3, <2>4, <3>1
         DEF MemberPermitted, MemberFound, MemberGoto, MembersTypeOK, MemberCallRecords
  <2>5. CASE MemberRefused(c) \/ OfficeCreated(c) \/ Invited(c) \/ RoleSet(c) \/ MemberRemoved(c)
    BY <1>3, <2>5 DEF MemberRefused, OfficeCreated, Invited, RoleSet, MemberRemoved, MemberDone,
        MemberIdle, MembersTypeOK
  <2>6. ASSUME NEW d \in MemberCalls \ {c},
               \/ \E k \in MemberAsks : MemberCalled(d, k)
               \/ MemberRefused(d) \/ MemberPermitted(d) \/ SlugTried(d) \/ MemberFound(d)
               \/ OfficeCreated(d) \/ Invited(d) \/ RoleSet(d) \/ MemberRemoved(d)
        PROVE  memberCall'[c] = memberCall[c]
    BY <2>6 DEF MemberCalled, MemberRefused, MemberPermitted, SlugTried, MemberFound,
        OfficeCreated, Invited, RoleSet, MemberRemoved, MemberGoto, MemberDone, MembersTypeOK
  <2>7. CASE UNCHANGED membersVars
    BY <2>1, <2>7 DEF membersVars
  <2> QED BY <2>1, <2>2, <2>3, <2>4, <2>5, <2>6, <2>7 DEF MembersNext
<1>4. \A c \in MemberCalls : memberCall[c].at \in {"slug", "transact"} =>
        memberCall[c].slug \in Nat \ {0}
  BY DEF MembersTypeOK, MemberIdle
<1>5. ASSUME NEW c \in MemberCalls, memberCall'[c].at \in {"slug", "transact"},
             NEW n \in 1..(memberCall'[c].slug - 1)
      PROVE  SlugTaken(n)'
  <2>1. memberCall'[c].slug # 1
    BY <1>5
  <2>2. memberCall[c].at \in {"slug", "transact"}
        /\ (n \in 1..(memberCall[c].slug - 1) \/ SlugTaken(n))
    BY <1>3, <1>4, <1>5, <2>1
  <2> QED BY <1>2, <2>2 DEF SmallerTaken, MemberAt
<1>6. ASSUME NEW w \in Offices, office'[w] # NoOffice, NEW n \in 1..office'[w].slug
      PROVE  SlugTaken(n)'
  <2>1. CASE IsOffice(w)
    BY <1>1, <1>2, <1>6, <2>1 DEF SlugsDense
  <2>2. CASE ~IsOffice(w)
    <3>1. PICK c \in MemberCalls : OfficeCreated(c) /\ Asked(c).office = w
      <4>1. office' # office
        BY <1>6, <2>2 DEF IsOffice
      <4>2. PICK c \in MemberCalls : OfficeCreated(c)
        BY <4>1 DEF MembersNext, membersVars, MemberCalled, MemberRefused, MemberPermitted,
            SlugTried, MemberFound, Invited, RoleSet, MemberRemoved
      <4> QED BY <1>6, <2>2, <4>2 DEF OfficeCreated, IsOffice, MembersTypeOK
    <3>2. /\ memberCall[c].at = "transact" /\ memberCall[c].slug \in Nat \ {0}
          /\ office'[w].slug = memberCall[c].slug
      BY <1>4, <3>1 DEF OfficeCreated, MemberAt, MembersTypeOK
    <3>3. CASE n = memberCall[c].slug
      BY <1>6, <3>2, <3>3 DEF SlugTaken, IsOffice
    <3>4. CASE n # memberCall[c].slug
      <4>1. n \in 1..(memberCall[c].slug - 1)
        BY <1>6, <3>2, <3>4
      <4> QED BY <1>2, <3>2, <4>1 DEF SmallerTaken, MemberAt
    <3> QED BY <3>3, <3>4
  <2> QED BY <2>1, <2>2
<1>7. SmallerTaken'
  BY <1>5 DEF SmallerTaken, MemberAt
<1>8. SlugsDense'
  BY <1>6 DEF SlugsDense, IsOffice
<1> QED BY <1>7, <1>8

\* However many workspaces of one name are created at once, their addresses are
\* numbered without gaps.
THEOREM SlugsAlwaysDense == MembersSpec => []SlugsDense
<1>1. MembersInit => SmallerTaken /\ SlugsDense
  BY DEF MembersInit, SmallerTaken, SlugsDense, MemberAt, MemberIdle, IsOffice
<1>2. MembersInv => MembersTypeOK
  BY DEF MembersInv
<1> QED
  BY <1>1, <1>2, SlugsStep, MembersInvHolds, PTL DEF MembersSpec

-----------------------------------------------------------------------------

\* A membership of that person in that workspace, which may have ended.
HasBelonged(u, w) ==
  \E i \in MemberIds :
    membership[i] # NoMember /\ membership[i].person = u /\ membership[i].office = w

\* Every task is of a project that is there, deletions taking both.
TasksOfProjects ==
  \A t \in TaskIds : IsTask(t) => project[task[t].project] \in Offices

\* Creations of one id at most, of an id nobody has had.
CreationsAreNew ==
  \A c \in TaskCalls : taskCall[c] # TaskIdle /\ Creates(TaskAsked(c)) =>
    LET k == TaskAsked(c) IN
    /\ IF OnTask(k) THEN task[k.task] = NoTask ELSE project[k.project] = "none"
    /\ \A d \in TaskCalls \ {c} : taskCall[d] # TaskIdle /\ TaskAsked(d).op = k.op =>
         IF OnTask(k) THEN TaskAsked(d).task # k.task ELSE TaskAsked(d).project # k.project

\* What a call found of its project and of its task still is so, or is gone.
FoundStands ==
  \A c \in TaskCalls : TaskAt(c, "assignee") \/ TaskAt(c, "write") =>
    LET k == TaskAsked(c) IN
    /\ k.op # "project.create" => project[k.project] \in {k.office, "gone"}
    /\ k.op = "task.update" =>
         task[k.task] # NoTask /\ (IsTask(k.task) => task[k.task].project = k.project)

\* The assignee that was looked up was a member then.
AssigneesLookedUp ==
  \A c \in TaskCalls :
    TaskAt(c, "write") /\ OnTask(TaskAsked(c)) /\ TaskAsked(c).to # Unassigned =>
      HasBelonged(TaskAsked(c).to, TaskAsked(c).office)

ProjectsInv ==
  /\ ProjectsTypeOK /\ TasksOfProjects /\ CreationsAreNew /\ FoundStands
  /\ AssigneesLookedUp /\ AssigneesBelong

TaskPlaces == {"permit", "find", "assignee", "write"}
AnyTaskAsk == ProjectAsks \cup TaskAsks
TaskCallRecords == [at : TaskPlaces, ask : AnyTaskAsk]

LEMMA TaskAskShapes ==
  ASSUME NEW k \in AnyTaskAsk
  PROVE  /\ k.by \in Persons /\ k.office \in Offices /\ k.project \in ProjectIds
         /\ OnTask(k) <=> k.op \in {"task.create", "task.update"}
         /\ OnTask(k) => k.task \in TaskIds /\ k.to \in Assignees
         /\ k.op \in {"project.create", "project.update", "project.delete",
                       "task.create", "task.update"}
BY DEF AnyTaskAsk, ProjectAsks, TaskAsks, OnTask

LEMMA TaskCallShape ==
  ASSUME ProjectsTypeOK, NEW c \in TaskCalls, taskCall[c] # TaskIdle
  PROVE  taskCall[c] \in TaskCallRecords /\ TaskAsked(c) \in AnyTaskAsk
BY DEF ProjectsTypeOK, TaskCallRecords, TaskPlaces, AnyTaskAsk, TaskAsked

LEMMA SomewhereIsBusy ==
  ASSUME NEW c \in TaskCalls, NEW place \in TaskPlaces, TaskAt(c, place)
  PROVE  taskCall[c] # TaskIdle
BY DEF TaskAt, TaskIdle, TaskPlaces

\* What nothing is, and what a task that is there is.
LEMMA TaskRowShapes ==
  ASSUME ProjectsTypeOK, NEW t \in TaskIds
  PROVE  /\ IsTask(t) => task[t] \in [project : ProjectIds, to : Assignees]
         /\ task[t] = NoTask \/ task[t] = GoneTask => ~IsTask(t)
         /\ GoneTask # NoTask
         /\ \A r \in [project : ProjectIds, to : Assignees] : r # NoTask
BY ProjectNames DEF ProjectsTypeOK, IsTask, NoTask, GoneTask

\* Rows of memberships stay, so who has belonged to a workspace always has.
LEMMA BelongingStays ==
  ASSUME MembersTypeOK, [MembersNext]_membersVars, NEW u, NEW w, HasBelonged(u, w)
  PROVE  HasBelonged(u, w)'
<1>1. CASE UNCHANGED membersVars
  BY <1>1 DEF membersVars, HasBelonged
<1>2. ASSUME NEW c \in MemberCalls,
             \/ \E k \in MemberAsks : MemberCalled(c, k)
             \/ MemberRefused(c) \/ MemberPermitted(c) \/ SlugTried(c) \/ MemberFound(c)
      PROVE  HasBelonged(u, w)'
  <2>1. membership' = membership
    BY <1>2 DEF MemberCalled, MemberRefused, MemberPermitted, SlugTried, MemberFound
  <2> QED BY <2>1 DEF HasBelonged
<1>3. ASSUME NEW c \in MemberCalls,
             OfficeCreated(c) \/ Invited(c) \/ RoleSet(c) \/ MemberRemoved(c)
      PROVE  HasBelonged(u, w)'
  <2>1. RowsKept
    BY <1>3, StepKeepsRows
  <2> QED BY <2>1 DEF RowsKept, HasBelonged
<1> QED BY <1>1, <1>2, <1>3 DEF MembersNext

\* A step of the members leaves projects and tasks as they are.
LEMMA MembersStepKeeps ==
  ASSUME MembersTypeOK, ProjectsInv, [MembersNext]_membersVars, UNCHANGED projectsVars
  PROVE  ProjectsInv'
<1>1. \A u, w : HasBelonged(u, w) => HasBelonged(u, w)'
  BY BelongingStays
<1>2. ProjectsTypeOK' /\ TasksOfProjects' /\ CreationsAreNew' /\ FoundStands'
  BY DEF ProjectsInv, ProjectsTypeOK, TasksOfProjects, CreationsAreNew, FoundStands, IsTask,
      TaskAsked, TaskAt, projectsVars
<1>3. AssigneesLookedUp'
  BY <1>1 DEF ProjectsInv, AssigneesLookedUp, TaskAsked, TaskAt, projectsVars
<1>4. AssigneesBelong'
  <2> SUFFICES ASSUME NEW t \in TaskIds, IsTask(t), task[t].to # Unassigned
               PROVE  HasBelonged(task[t].to, project[task[t].project])'
    BY DEF AssigneesBelong, HasBelonged, IsTask, projectsVars
  <2>1. HasBelonged(task[t].to, project[task[t].project])
    BY DEF ProjectsInv, AssigneesBelong, HasBelonged
  <2>2. HasBelonged(task[t].to, project[task[t].project])'
        <=> \E i \in MemberIds : membership'[i] # NoMember
              /\ membership'[i].person = task[t].to
              /\ membership'[i].office = project[task[t].project]
    BY DEF HasBelonged, projectsVars
  <2>3. \A u, w : HasBelonged(u, w) => 
          \E i \in MemberIds : membership'[i] # NoMember
              /\ membership'[i].person = u /\ membership'[i].office = w
    BY <1>1 DEF HasBelonged
  <2> QED BY <2>1, <2>2, <2>3
<1> QED BY <1>2, <1>3, <1>4 DEF ProjectsInv

\* A call begins.
LEMMA TaskCalledKeeps ==
  ASSUME ProjectsInv, NEW c \in TaskCalls, NEW k \in AnyTaskAsk, TaskCalled(c, k),
         UNCHANGED membersVars
  PROVE  ProjectsInv'
<1>1. /\ UNCHANGED <<project, task>>
      /\ Creates(k) => IsNew(k)
      /\ taskCall[c] = TaskIdle
      /\ taskCall' = [taskCall EXCEPT ![c] = [at |-> "permit", ask |-> k]]
  BY DEF TaskCalled
<1>2. /\ ProjectsTypeOK
      /\ taskCall'[c] = [at |-> "permit", ask |-> k]
      /\ \A d \in TaskCalls \ {c} : taskCall'[d] = taskCall[d]
  BY <1>1 DEF ProjectsInv, ProjectsTypeOK
<1>3. [at |-> "permit", ask |-> k] \in TaskCallRecords
  BY DEF TaskCallRecords, TaskPlaces
<1>4. ProjectsTypeOK'
  BY <1>1, <1>2, <1>3 DEF ProjectsTypeOK, TaskCallRecords, TaskPlaces, AnyTaskAsk
<1>5. TasksOfProjects' /\ AssigneesBelong'
  BY <1>1 DEF ProjectsInv, TasksOfProjects, AssigneesBelong, IsTask, membersVars
<1>6. FoundStands'
  BY <1>1, <1>2 DEF ProjectsInv, FoundStands, TaskAt, TaskAsked, IsTask
<1>7. AssigneesLookedUp'
  BY <1>1, <1>2 DEF ProjectsInv, AssigneesLookedUp, TaskAt, TaskAsked, HasBelonged, membersVars
<1>8. CreationsAreNew'
  <2> SUFFICES ASSUME NEW d \in TaskCalls, taskCall'[d] # TaskIdle, Creates(taskCall'[d].ask)
               PROVE  LET q == taskCall'[d].ask IN
                      /\ IF OnTask(q) THEN task[q.task] = NoTask ELSE project[q.project] = "none"
                      /\ \A e \in TaskCalls \ {d} : taskCall'[e] # TaskIdle /\ taskCall'[e].ask.op = q.op =>
                           IF OnTask(q) THEN taskCall'[e].ask.task # q.task
                           ELSE taskCall'[e].ask.project # q.project
    BY <1>1 DEF CreationsAreNew, TaskAsked, OnTask, Creates
  <2>1. CASE d = c
    BY <1>1, <1>2, <2>1 DEF IsNew, TaskAsked
  <2>2. CASE d # c
    <3>1. taskCall'[d] = taskCall[d]
      BY <1>2, <2>2
    <3>2. taskCall[d].ask \in AnyTaskAsk
      BY <1>2, <3>1, TaskCallShape DEF TaskAsked
    <3>3. k.op = taskCall[d].ask.op =>
            /\ Creates(k) /\ (OnTask(k) <=> OnTask(taskCall[d].ask))
            /\ IF OnTask(k) THEN taskCall[d].ask.task # k.task
               ELSE taskCall[d].ask.project # k.project
      BY <1>1, <3>1, <3>2, TaskAskShapes DEF Creates, IsNew, TaskAsked
    <3> QED BY <1>2, <2>2, <3>1, <3>3 DEF ProjectsInv, CreationsAreNew, TaskAsked
  <2> QED BY <2>1, <2>2
<1> QED BY <1>4, <1>5, <1>6, <1>7, <1>8 DEF ProjectsInv

\* A call is refused.
LEMMA TaskRefusedKeeps ==
  ASSUME ProjectsInv, NEW c \in TaskCalls, TaskRefused(c), UNCHANGED membersVars
  PROVE  ProjectsInv'
<1>1. /\ UNCHANGED <<project, task>> /\ ProjectsTypeOK
      /\ taskCall'[c] = TaskIdle /\ \A d \in TaskCalls \ {c} : taskCall'[d] = taskCall[d]
  BY DEF TaskRefused, TaskDone, ProjectsInv, ProjectsTypeOK
<1>2. ProjectsTypeOK'
  BY <1>1 DEF ProjectsTypeOK, TaskRefused, TaskDone
<1>3. TasksOfProjects' /\ AssigneesBelong'
  BY <1>1 DEF ProjectsInv, TasksOfProjects, AssigneesBelong, IsTask, membersVars
<1>4. FoundStands' /\ AssigneesLookedUp'
  BY <1>1 DEF ProjectsInv, FoundStands, AssigneesLookedUp, TaskAt, TaskAsked, IsTask, TaskIdle,
      HasBelonged, membersVars
<1>5. CreationsAreNew'
  BY <1>1 DEF ProjectsInv, CreationsAreNew, TaskAsked
<1> QED BY <1>2, <1>3, <1>4, <1>5 DEF ProjectsInv

\* A call goes on from one query to the next.
LEMMA TaskWalkKeeps ==
  ASSUME MembersTypeOK, ProjectsInv, NEW c \in TaskCalls,
         TaskPermitted(c) \/ TaskFound(c) \/ AssigneeFound(c), UNCHANGED membersVars
  PROVE  ProjectsInv'
<1>0. ProjectsTypeOK
  BY DEF ProjectsInv
<1>1. taskCall[c] # TaskIdle
  BY SomewhereIsBusy DEF TaskPermitted, TaskFound, AssigneeFound, TaskPlaces
<1>2. taskCall[c] \in TaskCallRecords /\ TaskAsked(c) \in AnyTaskAsk
  BY <1>0, <1>1, TaskCallShape
<1>3. PICK place \in TaskPlaces : taskCall' = [taskCall EXCEPT ![c].at = place]
  BY DEF TaskPermitted, TaskFound, AssigneeFound, TaskGoto, TaskPlaces, AfterFind
<1>4. /\ UNCHANGED <<project, task>>
      /\ taskCall'[c] \in TaskCallRecords /\ taskCall'[c].ask = taskCall[c].ask
      /\ taskCall'[c].at = place
      /\ \A d \in TaskCalls \ {c} : taskCall'[d] = taskCall[d]
  BY <1>0, <1>2, <1>3 DEF TaskPermitted, TaskFound, AssigneeFound, ProjectsTypeOK, TaskCallRecords
<1>5. ProjectsTypeOK'
  BY <1>0, <1>3, <1>4 DEF ProjectsTypeOK, TaskCallRecords, TaskPlaces, AnyTaskAsk
<1>6. TasksOfProjects' /\ AssigneesBelong'
  BY <1>4 DEF ProjectsInv, TasksOfProjects, AssigneesBelong, IsTask, membersVars
<1>7. CreationsAreNew'
  <2>1. \A d \in TaskCalls :
          /\ taskCall'[d] # TaskIdle => taskCall[d] # TaskIdle
          /\ taskCall[d] # TaskIdle => taskCall'[d].ask = taskCall[d].ask
    BY <1>1, <1>4
  <2> SUFFICES ASSUME NEW d \in TaskCalls, taskCall'[d] # TaskIdle, Creates(taskCall'[d].ask)
               PROVE  LET q == taskCall'[d].ask IN
                      /\ IF OnTask(q) THEN task[q.task] = NoTask ELSE project[q.project] = "none"
                      /\ \A e \in TaskCalls \ {d} : taskCall'[e] # TaskIdle /\ taskCall'[e].ask.op = q.op =>
                           IF OnTask(q) THEN taskCall'[e].ask.task # q.task
                           ELSE taskCall'[e].ask.project # q.project
    BY <1>4 DEF CreationsAreNew, TaskAsked, OnTask, Creates
  <2>2. taskCall[d] # TaskIdle /\ taskCall'[d].ask = TaskAsked(d) /\ Creates(TaskAsked(d))
    BY <2>1 DEF TaskAsked, Creates
  <2>3. LET q == TaskAsked(d) IN
        /\ IF OnTask(q) THEN task[q.task] = NoTask ELSE project[q.project] = "none"
        /\ \A e \in TaskCalls \ {d} : taskCall[e] # TaskIdle /\ TaskAsked(e).op = q.op =>
             IF OnTask(q) THEN TaskAsked(e).task # q.task ELSE TaskAsked(e).project # q.project
    BY <2>2 DEF ProjectsInv, CreationsAreNew
  <2> QED BY <2>1, <2>2, <2>3 DEF TaskAsked, OnTask
<1>8. FoundStands'
  <2> SUFFICES ASSUME NEW d \in TaskCalls, taskCall'[d].at \in {"assignee", "write"}
               PROVE  LET q == taskCall'[d].ask IN
                      /\ q.op # "project.create" => project[q.project] \in {q.office, "gone"}
                      /\ q.op = "task.update" =>
                           task[q.task] # NoTask /\ (IsTask(q.task) => task[q.task].project = q.project)
    BY <1>4 DEF FoundStands, TaskAt, TaskAsked, IsTask
  <2>1. CASE d # c \/ taskCall[c].at = "assignee"
    BY <1>4, <2>1 DEF ProjectsInv, FoundStands, TaskAt, TaskAsked
  <2>2. CASE d = c /\ TaskPermitted(c)
    <3>1. TaskGoto(c, IF TaskAsked(c).op = "project.create" THEN "write" ELSE "find")
      BY <2>2 DEF TaskPermitted
    <3>2. TaskAsked(c).op = "project.create"
      BY <1>0, <1>2, <2>2, <3>1 DEF TaskGoto, ProjectsTypeOK, TaskCallRecords
    <3> QED BY <1>4, <2>2, <3>2 DEF TaskAsked
  <2>3. CASE d = c /\ TaskFound(c)
    <3>1. /\ project[TaskAsked(c).project] = TaskAsked(c).office
          /\ TaskAsked(c).op = "task.update" =>
               task[TaskAsked(c).task].project = TaskAsked(c).project
      BY <2>3 DEF TaskFound
    <3>2. ASSUME TaskAsked(c).op = "task.update"
          PROVE  task[TaskAsked(c).task] # NoTask
      BY <1>2, <3>1, <3>2, TaskAskShapes, ProjectNames DEF NoTask
    <3> QED BY <1>4, <2>3, <3>1, <3>2 DEF TaskAsked
  <2> QED BY <2>1, <2>2, <2>3 DEF AssigneeFound, TaskAt
<1>9. AssigneesLookedUp'
  <2> SUFFICES ASSUME NEW d \in TaskCalls, taskCall'[d].at = "write",
                      OnTask(taskCall'[d].ask), taskCall'[d].ask.to # Unassigned
               PROVE  HasBelonged(taskCall'[d].ask.to, taskCall'[d].ask.office)
    BY DEF AssigneesLookedUp, TaskAt, TaskAsked, OnTask, HasBelonged, membersVars
  <2>1. CASE d # c
    BY <1>4, <2>1 DEF ProjectsInv, AssigneesLookedUp, TaskAt, TaskAsked
  <2>2. CASE d = c /\ AssigneeFound(c)
    BY <1>4, <2>2 DEF AssigneeFound, IsMember, Memberships, Current, NoMember, HasBelonged, TaskAsked
  <2>3. CASE d = c /\ TaskPermitted(c)
    <3>1. TaskGoto(c, IF TaskAsked(c).op = "project.create" THEN "write" ELSE "find")
      BY <2>3 DEF TaskPermitted
    <3>2. TaskAsked(c).op = "project.create"
      BY <1>0, <1>2, <2>3, <3>1 DEF TaskGoto, ProjectsTypeOK, TaskCallRecords
    <3>3. taskCall'[d].ask = TaskAsked(c)
      BY <1>4, <2>3 DEF TaskAsked
    <3> QED BY <1>2, <3>2, <3>3, TaskAskShapes
  <2>4. CASE d = c /\ TaskFound(c)
    <3>1. TaskGoto(c, AfterFind(TaskAsked(c)))
      BY <2>4 DEF TaskFound
    <3>2. taskCall'[c].at = AfterFind(TaskAsked(c))
      BY <1>0, <1>2, <3>1 DEF TaskGoto, ProjectsTypeOK, TaskCallRecords
    <3>3. taskCall'[d].ask = TaskAsked(c)
      BY <1>4, <2>4 DEF TaskAsked
    <3> QED BY <2>4, <3>2, <3>3 DEF AfterFind
  <2> QED BY <2>1, <2>2, <2>3, <2>4
<1> QED BY <1>5, <1>6, <1>7, <1>8, <1>9 DEF ProjectsInv

\* What a call that writes knows: what it asked, what it found, and that it ends.
LEMMA TaskWriterKnows ==
  ASSUME ProjectsInv, NEW c \in TaskCalls,
         ProjectWritten(c) \/ ProjectDeleted(c) \/ TaskWritten(c)
  PROVE  LET k == TaskAsked(c) IN
         /\ taskCall[c] # TaskIdle /\ k \in AnyTaskAsk
         /\ k.op # "project.create" => project[k.project] \in {k.office, "gone"}
         /\ k.op = "task.update" /\ IsTask(k.task) => task[k.task].project = k.project
         /\ OnTask(k) /\ k.to # Unassigned => HasBelonged(k.to, k.office)
         /\ taskCall' \in [TaskCalls -> {TaskIdle} \cup TaskCallRecords]
         /\ taskCall'[c] = TaskIdle
         /\ \A d \in TaskCalls \ {c} : taskCall'[d] = taskCall[d]
<1>1. TaskAt(c, "write") /\ TaskDone(c)
  BY DEF ProjectWritten, ProjectDeleted, TaskWritten
<1>2. taskCall[c] # TaskIdle /\ TaskAsked(c) \in AnyTaskAsk /\ ProjectsTypeOK
  BY <1>1, SomewhereIsBusy, TaskCallShape DEF TaskPlaces, ProjectsInv
<1>3. /\ taskCall' \in [TaskCalls -> {TaskIdle} \cup TaskCallRecords]
      /\ taskCall'[c] = TaskIdle
      /\ \A d \in TaskCalls \ {c} : taskCall'[d] = taskCall[d]
  BY <1>1, <1>2 DEF TaskDone, ProjectsTypeOK, TaskCallRecords, TaskPlaces, AnyTaskAsk
<1> QED
  BY <1>1, <1>2, <1>3 DEF ProjectsInv, FoundStands, AssigneesLookedUp

\* The parts of the invariant about calls outlive a write that spares what the
\* calls found: ids that are new stay new, rows keep their workspace and project.
LEMMA WriteSparesOthers ==
  ASSUME ProjectsInv, NEW c \in TaskCalls, UNCHANGED membersVars,
         taskCall'[c] = TaskIdle, \A d \in TaskCalls \ {c} : taskCall'[d] = taskCall[d],
         \A d \in TaskCalls \ {c} : taskCall[d] # TaskIdle /\ Creates(TaskAsked(d)) =>
           IF OnTask(TaskAsked(d)) THEN task'[TaskAsked(d).task] = NoTask
           ELSE project'[TaskAsked(d).project] = "none",
         \A p \in ProjectIds : project[p] \in Offices \cup {"gone"} =>
           project'[p] \in {project[p], "gone"},
         \A t \in TaskIds : task[t] # NoTask =>
           /\ task'[t] # NoTask
           /\ task'[t].project \in ProjectIds => IsTask(t) /\ task'[t].project = task[t].project
  PROVE  CreationsAreNew' /\ FoundStands' /\ AssigneesLookedUp'
<1>1. CreationsAreNew'
  <2> SUFFICES ASSUME NEW d \in TaskCalls, taskCall'[d] # TaskIdle, Creates(taskCall'[d].ask)
               PROVE  LET q == taskCall'[d].ask IN
                      /\ IF OnTask(q) THEN task'[q.task] = NoTask ELSE project'[q.project] = "none"
                      /\ \A e \in TaskCalls \ {d} :
                           taskCall'[e] # TaskIdle /\ taskCall'[e].ask.op = q.op =>
                             IF OnTask(q) THEN taskCall'[e].ask.task # q.task
                             ELSE taskCall'[e].ask.project # q.project
    BY DEF CreationsAreNew, TaskAsked, OnTask, Creates
  <2>1. d # c /\ taskCall'[d] = taskCall[d]
    OBVIOUS
  <2>2. LET q == taskCall[d].ask IN
        /\ IF OnTask(q) THEN task'[q.task] = NoTask ELSE project'[q.project] = "none"
        /\ \A e \in TaskCalls \ {d} : taskCall[e] # TaskIdle /\ taskCall[e].ask.op = q.op =>
             IF OnTask(q) THEN taskCall[e].ask.task # q.task
             ELSE taskCall[e].ask.project # q.project
    BY <2>1 DEF ProjectsInv, CreationsAreNew, TaskAsked
  <2>3. \A e \in TaskCalls : taskCall'[e] # TaskIdle => taskCall'[e] = taskCall[e]
    OBVIOUS
  <2> QED BY <2>1, <2>2, <2>3
<1>2. FoundStands'
  <2> SUFFICES ASSUME NEW d \in TaskCalls, taskCall'[d].at \in {"assignee", "write"}
               PROVE  LET q == taskCall'[d].ask IN
                      /\ q.op # "project.create" => project'[q.project] \in {q.office, "gone"}
                      /\ q.op = "task.update" =>
                           /\ task'[q.task] # NoTask
                           /\ task'[q.task].project \in ProjectIds => task'[q.task].project = q.project
    BY DEF FoundStands, TaskAt, TaskAsked, IsTask
  <2>1. d # c /\ taskCall'[d] = taskCall[d]
    BY DEF TaskIdle
  <2>2. LET q == taskCall[d].ask IN
        /\ q \in AnyTaskAsk
        /\ q.op # "project.create" => project[q.project] \in {q.office, "gone"}
        /\ q.op = "task.update" =>
             task[q.task] # NoTask /\ (IsTask(q.task) => task[q.task].project = q.project)
    BY <2>1, TaskCallShape DEF ProjectsInv, FoundStands, TaskAt, TaskAsked, TaskIdle
  <2>3. LET q == taskCall[d].ask IN
        q.project \in ProjectIds /\ q.office \in Offices /\ (q.op = "task.update" => q.task \in TaskIds)
    BY <2>2, TaskAskShapes
  <2> QED BY <2>1, <2>2, <2>3
<1>3. AssigneesLookedUp'
  BY DEF ProjectsInv, AssigneesLookedUp, TaskAt, TaskAsked, TaskIdle, HasBelonged, membersVars
<1> QED BY <1>1, <1>2, <1>3

\* A project is created, or updated to what it is.
LEMMA ProjectWrittenKeeps ==
  ASSUME ProjectsInv, NEW c \in TaskCalls, ProjectWritten(c), UNCHANGED membersVars
  PROVE  ProjectsInv'
<1> DEFINE k == TaskAsked(c)
<1>1. /\ taskCall[c] # TaskIdle /\ k \in AnyTaskAsk
      /\ k.op # "project.create" => project[k.project] \in {k.office, "gone"}
      /\ taskCall' \in [TaskCalls -> {TaskIdle} \cup TaskCallRecords]
      /\ taskCall'[c] = TaskIdle
      /\ \A d \in TaskCalls \ {c} : taskCall'[d] = taskCall[d]
  BY TaskWriterKnows
<1>2. /\ k.op \in {"project.create", "project.update"} /\ task' = task
      /\ k.op = "project.update" => project[k.project] \in Offices
      /\ project' = [project EXCEPT ![k.project] = k.office]
  BY DEF ProjectWritten
<1>3. /\ ProjectsTypeOK /\ k.office \in Offices /\ k.project \in ProjectIds
      /\ project'[k.project] = k.office
      /\ \A p \in ProjectIds \ {k.project} : project'[p] = project[p]
  BY <1>1, <1>2, TaskAskShapes DEF ProjectsInv, ProjectsTypeOK
<1>4. ProjectsTypeOK'
  BY <1>1, <1>2, <1>3 DEF ProjectsTypeOK, TaskCallRecords, TaskPlaces, AnyTaskAsk
<1>5. IF k.op = "project.create" THEN project[k.project] = "none" ELSE project[k.project] = k.office
  <2>1. CASE k.op = "project.create"
    BY <1>1, <2>1, TaskAskShapes DEF ProjectsInv, CreationsAreNew, Creates
  <2> QED BY <1>1, <1>2, <2>1, ProjectNames
<1>6. \A t \in TaskIds : IsTask(t) => project'[task[t].project] = project[task[t].project]
  <2>1. \A t \in TaskIds : IsTask(t) => task[t].project \in ProjectIds /\ project[task[t].project] \in Offices
    BY DEF ProjectsInv, TasksOfProjects, IsTask
  <2> QED BY <1>3, <1>5, <2>1, ProjectNames
<1>7. TasksOfProjects' /\ AssigneesBelong'
  BY <1>2, <1>6 DEF ProjectsInv, TasksOfProjects, AssigneesBelong, IsTask, membersVars
<1>8. ASSUME NEW d \in TaskCalls \ {c}, taskCall[d] # TaskIdle, Creates(TaskAsked(d))
      PROVE  IF OnTask(TaskAsked(d)) THEN task'[TaskAsked(d).task] = NoTask
             ELSE project'[TaskAsked(d).project] = "none"
  <2>1. IF OnTask(TaskAsked(d)) THEN task[TaskAsked(d).task] = NoTask
        ELSE project[TaskAsked(d).project] = "none"
    BY <1>8 DEF ProjectsInv, CreationsAreNew
  <2>2. TaskAsked(d) \in AnyTaskAsk
    BY <1>3, <1>8, TaskCallShape
  <2>3. ASSUME ~OnTask(TaskAsked(d)) PROVE TaskAsked(d).project # k.project
    <3>1. CASE k.op = "project.create"
      <4>1. TaskAsked(d).op = k.op
        BY <1>8, <2>2, <2>3, <3>1, TaskAskShapes DEF Creates
      <4> QED BY <1>1, <1>8, <2>3, <4>1 DEF ProjectsInv, CreationsAreNew
    <3>2. CASE k.op # "project.create"
      BY <1>3, <1>5, <2>1, <2>3, <3>2, ProjectNames
    <3> QED BY <3>1, <3>2
  <2>4. TaskAsked(d).project \in ProjectIds
    BY <2>2, TaskAskShapes
  <2> QED BY <1>2, <1>3, <2>1, <2>3, <2>4
<1>9. \A p \in ProjectIds : project[p] \in Offices \cup {"gone"} => project'[p] \in {project[p], "gone"}
  BY <1>3, <1>5, ProjectNames
<1>10. \A t \in TaskIds : task[t] # NoTask =>
         /\ task'[t] # NoTask
         /\ task'[t].project \in ProjectIds => IsTask(t) /\ task'[t].project = task[t].project
  BY <1>2 DEF IsTask
<1>11. CreationsAreNew' /\ FoundStands' /\ AssigneesLookedUp'
  BY <1>1, <1>8, <1>9, <1>10, WriteSparesOthers
<1> QED BY <1>4, <1>7, <1>11 DEF ProjectsInv

\* A project goes, and its tasks with it.
LEMMA ProjectDeletedKeeps ==
  ASSUME ProjectsInv, NEW c \in TaskCalls, ProjectDeleted(c), UNCHANGED membersVars
  PROVE  ProjectsInv'
<1> DEFINE k == TaskAsked(c)
<1>1. /\ taskCall[c] # TaskIdle /\ k \in AnyTaskAsk
      /\ taskCall' \in [TaskCalls -> {TaskIdle} \cup TaskCallRecords]
      /\ taskCall'[c] = TaskIdle
      /\ \A d \in TaskCalls \ {c} : taskCall'[d] = taskCall[d]
  BY TaskWriterKnows
<1>2. /\ project[k.project] \in Offices
      /\ project' = [project EXCEPT ![k.project] = "gone"]
      /\ task' = [t \in TaskIds |-> IF task[t].project = k.project THEN GoneTask ELSE task[t]]
  BY DEF ProjectDeleted
<1>3. /\ ProjectsTypeOK /\ k.project \in ProjectIds
      /\ project'[k.project] = "gone"
      /\ \A p \in ProjectIds \ {k.project} : project'[p] = project[p]
  BY <1>1, <1>2, TaskAskShapes DEF ProjectsInv, ProjectsTypeOK
<1>4. ProjectsTypeOK'
  BY <1>1, <1>2, <1>3 DEF ProjectsTypeOK, TaskCallRecords, TaskPlaces, AnyTaskAsk
<1>5. \A t \in TaskIds : task'[t].project \in ProjectIds =>
        /\ IsTask(t) /\ task'[t] = task[t] /\ task[t].project # k.project
        /\ project'[task[t].project] = project[task[t].project]
  BY <1>2, <1>3, ProjectNames DEF IsTask, GoneTask
<1>6. TasksOfProjects'
  BY <1>5 DEF ProjectsInv, TasksOfProjects, IsTask
<1>7. AssigneesBelong'
  BY <1>5 DEF ProjectsInv, AssigneesBelong, IsTask, membersVars
<1>8. ASSUME NEW d \in TaskCalls \ {c}, taskCall[d] # TaskIdle, Creates(TaskAsked(d))
      PROVE  IF OnTask(TaskAsked(d)) THEN task'[TaskAsked(d).task] = NoTask
             ELSE project'[TaskAsked(d).project] = "none"
  <2>1. IF OnTask(TaskAsked(d)) THEN task[TaskAsked(d).task] = NoTask
        ELSE project[TaskAsked(d).project] = "none"
    BY <1>8 DEF ProjectsInv, CreationsAreNew
  <2>2. /\ TaskAsked(d).project \in ProjectIds
        /\ OnTask(TaskAsked(d)) => TaskAsked(d).task \in TaskIds
    BY <1>3, <1>8, TaskCallShape, TaskAskShapes
  <2> QED BY <1>2, <1>3, <2>1, <2>2, ProjectNames DEF NoTask
<1>9. \A p \in ProjectIds : project[p] \in Offices \cup {"gone"} => project'[p] \in {project[p], "gone"}
  BY <1>3
<1>10. \A t \in TaskIds : task[t] # NoTask =>
         /\ task'[t] # NoTask
         /\ task'[t].project \in ProjectIds => IsTask(t) /\ task'[t].project = task[t].project
  BY <1>2, <1>5 DEF NoTask, GoneTask
<1>11. CreationsAreNew' /\ FoundStands' /\ AssigneesLookedUp'
  BY <1>1, <1>8, <1>9, <1>10, WriteSparesOthers
<1> QED BY <1>4, <1>6, <1>7, <1>11 DEF ProjectsInv

\* A task is created, or given to somebody else.
LEMMA TaskWrittenKeeps ==
  ASSUME ProjectsInv, NEW c \in TaskCalls, TaskWritten(c), UNCHANGED membersVars
  PROVE  ProjectsInv'
<1> DEFINE k == TaskAsked(c)
<1>1. /\ taskCall[c] # TaskIdle /\ k \in AnyTaskAsk
      /\ k.op # "project.create" => project[k.project] \in {k.office, "gone"}
      /\ k.op = "task.update" /\ IsTask(k.task) => task[k.task].project = k.project
      /\ OnTask(k) /\ k.to # Unassigned => HasBelonged(k.to, k.office)
      /\ taskCall' \in [TaskCalls -> {TaskIdle} \cup TaskCallRecords]
      /\ taskCall'[c] = TaskIdle
      /\ \A d \in TaskCalls \ {c} : taskCall'[d] = taskCall[d]
  BY TaskWriterKnows
<1>2. /\ OnTask(k) /\ project' = project
      /\ IF Creates(k) THEN project[k.project] \in Offices ELSE IsTask(k.task)
      /\ task' = [task EXCEPT ![k.task] =
           IF Creates(k) THEN [project |-> k.project, to |-> k.to]
           ELSE IF k.to = Unassigned THEN task[k.task] ELSE [task[k.task] EXCEPT !.to = k.to]]
  BY DEF TaskWritten
<1>3. /\ ProjectsTypeOK /\ k.office \in Offices /\ k.project \in ProjectIds
      /\ k.task \in TaskIds /\ k.to \in Assignees
      /\ k.op \in {"task.create", "task.update"}
      /\ Creates(k) <=> k.op = "task.create"
  BY <1>1, <1>2, TaskAskShapes DEF ProjectsInv, Creates
<1>4. /\ task'[k.task] = IF Creates(k) THEN [project |-> k.project, to |-> k.to]
                         ELSE IF k.to = Unassigned THEN task[k.task]
                         ELSE [task[k.task] EXCEPT !.to = k.to]
      /\ \A t \in TaskIds \ {k.task} : task'[t] = task[t]
  BY <1>2, <1>3 DEF ProjectsTypeOK
<1>5. Creates(k) => task[k.task] = NoTask
  BY <1>1, <1>2 DEF ProjectsInv, CreationsAreNew
<1>6. ~Creates(k) => task[k.task] \in [project : ProjectIds, to : Assignees]
                     /\ task[k.task].project = k.project
  BY <1>1, <1>2, <1>3, TaskRowShapes
<1>7. /\ task'[k.task] \in [project : ProjectIds, to : Assignees]
      /\ task'[k.task].project = k.project
      /\ ~Creates(k) /\ k.to = Unassigned => task'[k.task] = task[k.task]
      /\ Creates(k) \/ k.to # Unassigned => task'[k.task].to = k.to
  BY <1>3, <1>4, <1>6
<1>8. project[k.project] = k.office
  <2>1. project[k.project] \in Offices
    BY <1>2, <1>3, <1>6 DEF ProjectsInv, TasksOfProjects
  <2> QED BY <1>1, <1>3, <2>1, ProjectNames
<1>9. ProjectsTypeOK'
  <2>1. task' \in [TaskIds -> {NoTask, GoneTask} \cup [project : ProjectIds, to : Assignees]]
    BY <1>2, <1>3, <1>4, <1>7 DEF ProjectsTypeOK
  <2> QED BY <1>1, <1>2, <1>3, <2>1 DEF ProjectsTypeOK, TaskCallRecords, TaskPlaces, AnyTaskAsk
<1>10. TasksOfProjects'
  BY <1>2, <1>3, <1>4, <1>7, <1>8 DEF ProjectsInv, TasksOfProjects, IsTask
<1>11. AssigneesBelong'
  <2> SUFFICES ASSUME NEW t \in TaskIds, task'[t].project \in ProjectIds, task'[t].to # Unassigned
               PROVE  HasBelonged(task'[t].to, project[task'[t].project])
    BY <1>2 DEF AssigneesBelong, HasBelonged, IsTask, membersVars
  <2>1. CASE t # k.task \/ task'[t] = task[t]
    BY <1>4, <2>1 DEF ProjectsInv, AssigneesBelong, HasBelonged, IsTask
  <2>2. CASE t = k.task /\ task'[t].to = k.to
    BY <1>1, <1>2, <1>7, <1>8, <2>2
  <2> QED BY <1>7, <2>1, <2>2
<1>12. ASSUME NEW d \in TaskCalls \ {c}, taskCall[d] # TaskIdle, Creates(TaskAsked(d))
       PROVE  IF OnTask(TaskAsked(d)) THEN task'[TaskAsked(d).task] = NoTask
              ELSE project'[TaskAsked(d).project] = "none"
  <2>1. IF OnTask(TaskAsked(d)) THEN task[TaskAsked(d).task] = NoTask
        ELSE project[TaskAsked(d).project] = "none"
    BY <1>12 DEF ProjectsInv, CreationsAreNew
  <2>2. TaskAsked(d) \in AnyTaskAsk
    BY <1>3, <1>12, TaskCallShape
  <2>3. ASSUME OnTask(TaskAsked(d)) PROVE TaskAsked(d).task # k.task
    <3>1. CASE Creates(k)
      <4>1. TaskAsked(d).op = k.op
        BY <1>3, <1>12, <2>2, <2>3, <3>1, TaskAskShapes DEF Creates
      <4> QED BY <1>1, <1>2, <1>12, <3>1, <4>1 DEF ProjectsInv, CreationsAreNew
    <3>2. CASE ~Creates(k)
      BY <1>3, <1>6, <2>1, <2>3, <3>2, TaskRowShapes
    <3> QED BY <3>1, <3>2
  <2>4. OnTask(TaskAsked(d)) => TaskAsked(d).task \in TaskIds
    BY <2>2, TaskAskShapes
  <2> QED BY <1>2, <1>4, <2>1, <2>3, <2>4
<1>13. \A p \in ProjectIds : project[p] \in Offices \cup {"gone"} => project'[p] \in {project[p], "gone"}
  BY <1>2
<1>14. \A t \in TaskIds : task[t] # NoTask =>
         /\ task'[t] # NoTask
         /\ task'[t].project \in ProjectIds => IsTask(t) /\ task'[t].project = task[t].project
  BY <1>3, <1>4, <1>5, <1>6, <1>7, TaskRowShapes DEF IsTask
<1>15. CreationsAreNew' /\ FoundStands' /\ AssigneesLookedUp'
  BY <1>1, <1>12, <1>13, <1>14, WriteSparesOthers
<1> QED BY <1>9, <1>10, <1>11, <1>15 DEF ProjectsInv

LEMMA ProjectsInvHolds == ProjectsSpec => [](MembersInv /\ ProjectsInv)
<1>1. MembersInit /\ ProjectsInit => MembersInv /\ ProjectsInv
  <2>1. MembersInit => MembersInv
    BY DEF MembersInit, MembersInv, MembersTypeOK, CallsOfOffices, RemovalsSpareOwner,
        OwnerStays, IsOffice, MemberAt, MemberIdle
  <2>2. ProjectsInit => ProjectsInv
    BY ProjectNames DEF ProjectsInit, ProjectsInv, ProjectsTypeOK, TasksOfProjects, CreationsAreNew,
        FoundStands, AssigneesLookedUp, AssigneesBelong, IsTask, TaskAt, TaskIdle, NoTask
  <2> QED BY <2>1, <2>2
<1>2. MembersInv /\ ProjectsInv /\ [ProjectsNext]_<<membersVars, projectsVars>>
        => MembersInv' /\ ProjectsInv'
  <2> SUFFICES ASSUME MembersInv, ProjectsInv, [ProjectsNext]_<<membersVars, projectsVars>>
               PROVE  MembersInv' /\ ProjectsInv'
    OBVIOUS
  <2>0. MembersTypeOK
    BY DEF MembersInv
  <2>1. [MembersNext]_membersVars
    BY DEF ProjectsNext
  <2>2. MembersInv'
    BY <2>1, MembersInvStep
  <2>3. CASE UNCHANGED projectsVars
    BY <2>0, <2>1, <2>2, <2>3, MembersStepKeeps
  <2>4. ASSUME NEW c \in TaskCalls, UNCHANGED membersVars,
               \/ \E k \in ProjectAsks \cup TaskAsks : TaskCalled(c, k)
               \/ TaskRefused(c) \/ TaskPermitted(c) \/ TaskFound(c) \/ AssigneeFound(c)
               \/ ProjectWritten(c) \/ ProjectDeleted(c) \/ TaskWritten(c)
        PROVE  ProjectsInv'
    BY <2>0, <2>4, TaskCalledKeeps, TaskRefusedKeeps, TaskWalkKeeps, ProjectWrittenKeeps,
       ProjectDeletedKeeps, TaskWrittenKeeps DEF AnyTaskAsk
  <2> QED BY <2>2, <2>3, <2>4 DEF ProjectsNext, TaskStep
<1> QED
  BY <1>1, <1>2, PTL DEF ProjectsSpec

\* However invitations, removals, assignments and deletions interleave: nobody is ever
\* given work in a workspace they have not been a member of.
THEOREM AssigneesAlwaysBelong == ProjectsSpec => []AssigneesBelong
<1>1. ProjectsInv => AssigneesBelong
  BY DEF ProjectsInv
<1> QED
  BY <1>1, ProjectsInvHolds, PTL

-----------------------------------------------------------------------------
(***************************************************************************)
(* The rate limiter.                                                       *)
(***************************************************************************)

\* Requests of the history S in a stretch of time.
Within(S, from, to) == Cardinality({p \in S : p[1] \in from..to})

PassRecords(now) == (0..now) \X (1..MaxBurst)

LEMMA WithinNumber ==
  ASSUME NEW now \in Nat, NEW S \in SUBSET PassRecords(now), NEW a \in Int, NEW b \in Int
  PROVE  IsFiniteSet({p \in S : p[1] \in a..b}) /\ Within(S, a, b) \in Nat
<1>1. IsFiniteSet(0..now) /\ IsFiniteSet(1..MaxBurst)
  BY LimiterConstants, FS_Interval
<1>2. IsFiniteSet(PassRecords(now))
  BY <1>1, FS_Product DEF PassRecords
<1>3. {p \in S : p[1] \in a..b} \in SUBSET PassRecords(now)
  OBVIOUS
<1>4. IsFiniteSet({p \in S : p[1] \in a..b})
  BY <1>2, <1>3, FS_Subset
<1> QED BY <1>4, FS_CardinalityType DEF Within

\* A stretch whose requests are all in another one has no more of them.
LEMMA WithinLess ==
  ASSUME NEW now \in Nat, NEW S \in SUBSET PassRecords(now),
         NEW a \in Int, NEW b \in Int, NEW x \in Int, NEW y \in Int,
         \A p \in S : p[1] \in a..b => p[1] \in x..y
  PROVE  Within(S, a, b) <= Within(S, x, y)
<1>1. IsFiniteSet({p \in S : p[1] \in x..y})
  BY WithinNumber
<1>2. {p \in S : p[1] \in a..b} \in SUBSET {p \in S : p[1] \in x..y}
  OBVIOUS
<1> QED BY <1>1, <1>2, FS_Subset DEF Within

\* A stretch cut in two at m.
LEMMA WithinCut ==
  ASSUME NEW now \in Nat, NEW S \in SUBSET PassRecords(now), NEW a \in Int, NEW b \in Int, NEW m \in Int
  PROVE  Within(S, a, b) <= Within(S, a, m - 1) + Within(S, m, b)
<1> DEFINE A == {p \in S : p[1] \in a..(m - 1)}
           B == {p \in S : p[1] \in m..b}
           C == {p \in S : p[1] \in a..b}
<1>0. m - 1 \in Int
  OBVIOUS
<1>1. IsFiniteSet(A) /\ IsFiniteSet(B)
  BY <1>0, WithinNumber
<1>2. \A p \in S : p[1] \in Int
  BY DEF PassRecords
<1>3. C \in SUBSET (A \cup B)
  BY <1>2
<1> HIDE DEF A, B, C
<1>4. /\ IsFiniteSet(A \cup B) /\ IsFiniteSet(A \cap B)
      /\ Cardinality(A \cup B) = Cardinality(A) + Cardinality(B) - Cardinality(A \cap B)
  BY <1>1, FS_Union, FS_Intersection
<1>5. Cardinality(C) <= Cardinality(A \cup B)
  BY <1>3, <1>4, FS_Subset
<1>6. Cardinality(A) \in Nat /\ Cardinality(B) \in Nat /\ Cardinality(A \cap B) \in Nat
      /\ Cardinality(A \cup B) \in Nat
  BY <1>1, <1>4, FS_CardinalityType
<1>7. Cardinality(C) \in Nat
  BY <1>3, <1>4, FS_Subset, FS_CardinalityType
<1>8. Cardinality(C) <= Cardinality(A) + Cardinality(B)
  BY <1>4, <1>5, <1>6, <1>7
<1> QED BY <1>8 DEF Within, A, B, C

\* A request more of this instant.
LEMMA WithinMore ==
  ASSUME NEW now \in Nat, NEW S \in SUBSET PassRecords(now), NEW a \in Int, NEW b \in Int,
         NEW n \in 1..MaxBurst
  PROVE  /\ S \cup {<<now, n>>} \in SUBSET PassRecords(now)
         /\ Within(S \cup {<<now, n>>}, a, b) <= Within(S, a, b) + 1
<1> DEFINE T == {p \in S : p[1] \in a..b}
           U == {p \in S \cup {<<now, n>>} : p[1] \in a..b}
<1>1. IsFiniteSet(T) /\ Cardinality(T) \in Nat
  BY WithinNumber, FS_CardinalityType
<1>2. CASE now \in a..b
  <2>1. U = T \cup {<<now, n>>}
    BY <1>2
  <2> HIDE DEF T, U
  <2>2. Cardinality(U) = IF <<now, n>> \in T THEN Cardinality(T) ELSE Cardinality(T) + 1
    BY <1>1, <2>1, FS_AddElement
  <2>3. Cardinality(U) <= Cardinality(T) + 1
    BY <1>1, <2>2
  <2>4. Within(S \cup {<<now, n>>}, a, b) <= Within(S, a, b) + 1
    BY <2>3 DEF Within, T, U
  <2> QED BY <1>2, <2>4 DEF PassRecords
<1>3. CASE now \notin a..b
  <2>1. U = T
    BY <1>3
  <2>2. Within(S \cup {<<now, n>>}, a, b) = Within(S, a, b)
    BY <2>1 DEF Within
  <2>3. Within(S, a, b) \in Nat
    BY WithinNumber
  <2> QED BY <2>2, <2>3 DEF PassRecords
<1> QED BY <1>2, <1>3

-----------------------------------------------------------------------------
\* What is known at the instant now of a client with the history S and the entry e.
\* The window before matters: a stretch may begin in it.
Windowed(S, e, now) ==
  LET opened == e.resetAt - windowMs
  IN  /\ opened \in 0..now
      /\ \A p \in S : p[1] < e.resetAt
      /\ Within(S, opened, now) <= limit /\ Within(S, opened, now) <= e.count
      /\ \A t \in Nat : t + windowMs > opened => Within(S, t, opened - 1) <= limit

Unwindowed(S, now) ==
  /\ \A p \in S : p[1] < now
  /\ \A t \in Nat : t + windowMs > now => Within(S, t, now) <= limit

Stretches(S) == \A t \in Nat : Within(S, t, t + windowMs - 1) <= 2 * limit

ClientInv(S, e, now) ==
  /\ S \in SUBSET PassRecords(now)
  /\ Stretches(S)
  /\ e = NoEntry => Unwindowed(S, now)
  /\ e # NoEntry => Windowed(S, e, now)

Entries == [count : Nat, resetAt : Nat]

LimiterInv ==
  /\ tick \in 0..LastTick /\ burst \in [Clients -> 0..MaxBurst]
  /\ store \in [Clients -> Entries]
  /\ passed \in [Clients -> SUBSET PassRecords(tick)]
  /\ \A c \in Clients : ClientInv(passed[c], store[c], tick)

\* The entry of a client can be forgotten once its window is over.
LEMMA Forgotten ==
  ASSUME NEW now \in Nat, NEW S, NEW e \in Entries, ClientInv(S, e, now), e.resetAt <= now
  PROVE  ClientInv(S, NoEntry, now) /\ Unwindowed(S, now)
<1>1. CASE e = NoEntry
  BY <1>1 DEF ClientInv
<1>2. CASE e # NoEntry
  <2> DEFINE opened == e.resetAt - windowMs
  <2>1. /\ S \in SUBSET PassRecords(now) /\ windowMs \in Nat \ {0} /\ limit \in Nat
        /\ e.resetAt \in Nat /\ opened \in 0..now
        /\ \A p \in S : p[1] < e.resetAt
        /\ Within(S, opened, now) <= limit
    BY <1>2, LimiterConstants DEF ClientInv, Windowed, Entries
  <2>2. \A p \in S : p[1] \in 0..now
    BY <2>1 DEF PassRecords
  <2>3. \A p \in S : p[1] < now
    BY <2>1, <2>2
  <2>4. ASSUME NEW t \in Nat, t + windowMs > now
        PROVE  Within(S, t, now) <= limit
    <3>1. t >= opened
      BY <2>1, <2>4
    <3>2. \A p \in S : p[1] \in t..now => p[1] \in opened..now
      BY <2>1, <2>2, <3>1
    <3>3. t \in Int /\ now \in Int /\ opened \in Int
      BY <2>1
    <3>4. Within(S, t, now) <= Within(S, opened, now)
      BY <2>1, <3>2, <3>3, WithinLess
    <3>5. Within(S, t, now) \in Nat /\ Within(S, opened, now) \in Nat
      BY <2>1, <3>3, WithinNumber
    <3> QED BY <2>1, <3>4, <3>5
  <2>5. Unwindowed(S, now)
    BY <2>3, <2>4 DEF Unwindowed
  <2> QED BY <2>5 DEF ClientInv
<1> QED BY <1>1, <1>2

\* The clock goes on.
LEMMA LaterInstant ==
  ASSUME NEW now \in Nat, NEW S, NEW e \in Entries, ClientInv(S, e, now)
  PROVE  ClientInv(S, e, now + 1)
<1>1. S \in SUBSET PassRecords(now) /\ windowMs \in Nat \ {0} /\ limit \in Nat
  BY LimiterConstants DEF ClientInv
<1>2. \A p \in S : p[1] \in 0..now
  BY <1>1 DEF PassRecords
<1>3. S \in SUBSET PassRecords(now + 1)
  BY <1>1 DEF PassRecords
<1>4. \A t \in Int : Within(S, t, now + 1) = Within(S, t, now)
  <2>1. ASSUME NEW t \in Int
        PROVE  {p \in S : p[1] \in t..(now + 1)} = {p \in S : p[1] \in t..now}
    BY <1>2, <2>1
  <2> QED BY <2>1 DEF Within
<1>5. Unwindowed(S, now) => Unwindowed(S, now + 1)
  <2>1. \A p \in S : p[1] < now + 1
    BY <1>2
  <2>2. \A t \in Nat : t + windowMs > now + 1 => t + windowMs > now
    BY <1>1
  <2> QED BY <1>4, <2>1, <2>2 DEF Unwindowed
<1>6. Windowed(S, e, now) => Windowed(S, e, now + 1)
  <2> DEFINE opened == e.resetAt - windowMs
  <2> SUFFICES ASSUME Windowed(S, e, now) PROVE Windowed(S, e, now + 1)
    OBVIOUS
  <2>1. opened \in 0..now /\ opened \in Int /\ opened \in 0..(now + 1)
    BY DEF Windowed
  <2>2. Within(S, opened, now + 1) = Within(S, opened, now)
    BY <1>4, <2>1
  <2> QED BY <2>1, <2>2 DEF Windowed
<1> QED BY <1>3, <1>5, <1>6 DEF ClientInv

\* From what a window and the one before let through to every stretch of time.
LEMMA EveryStretch ==
  ASSUME NEW now \in Nat, NEW S \in SUBSET PassRecords(now), NEW opened \in 0..now,
         Within(S, opened, now) <= limit,
         \A t \in Nat : t + windowMs > opened => Within(S, t, opened - 1) <= limit,
         \A t \in Nat : t + windowMs <= opened => Within(S, t, t + windowMs - 1) <= 2 * limit
  PROVE  Stretches(S)
<1>0. windowMs \in Nat \ {0} /\ limit \in Nat
  BY LimiterConstants
<1>1. \A p \in S : p[1] \in 0..now
  BY DEF PassRecords
<1>2. ASSUME NEW t \in Nat, t + windowMs > opened
      PROVE  Within(S, t, t + windowMs - 1) <= 2 * limit
  <2> DEFINE last == t + windowMs - 1
             rest == IF t >= opened THEN t ELSE opened
  <2>1. /\ t \in Int /\ last \in Int /\ opened \in Int /\ now \in Int /\ opened - 1 \in Int
        /\ rest \in Int /\ rest >= opened
    BY <1>0
  <2>2. Within(S, rest, last) <= limit
    <3>1. \A p \in S : p[1] \in rest..last => p[1] \in opened..now
      BY <1>1, <2>1
    <3>2. Within(S, rest, last) <= Within(S, opened, now)
      BY <2>1, <3>1, WithinLess
    <3>3. Within(S, rest, last) \in Nat /\ Within(S, opened, now) \in Nat
      BY <2>1, WithinNumber
    <3> QED BY <1>0, <3>2, <3>3
  <2>3. CASE t >= opened
    <3>1. Within(S, t, last) <= limit
      BY <2>2, <2>3
    <3>2. Within(S, t, last) \in Nat
      BY <2>1, WithinNumber
    <3> QED BY <1>0, <3>1, <3>2
  <2>4. CASE ~(t >= opened)
    <3>1. Within(S, t, last) <= Within(S, t, opened - 1) + Within(S, opened, last)
      BY <2>1, WithinCut
    <3>2. Within(S, t, opened - 1) <= limit
      BY <1>2
    <3>3. Within(S, opened, last) <= limit
      BY <2>2, <2>4
    <3>4. /\ Within(S, t, last) \in Nat /\ Within(S, t, opened - 1) \in Nat
          /\ Within(S, opened, last) \in Nat
      BY <2>1, WithinNumber
    <3> HIDE DEF last
    <3>5. Within(S, t, last) <= 2 * limit
      BY <1>0, <3>1, <3>2, <3>3, <3>4
    <3> QED BY <3>5 DEF last
  <2> QED BY <2>3, <2>4
<1>3. \A t \in Nat : t + windowMs > opened \/ t + windowMs <= opened
  BY <1>0
<1> QED BY <1>2, <1>3 DEF Stretches

\* A request counted in the window that is open.
LEMMA CountedInside ==
  ASSUME NEW now \in Nat, NEW S, NEW e \in Entries, NEW next \in Entries, NEW T,
         NEW n \in 1..MaxBurst, ClientInv(S, e, now),
         e # NoEntry, ~(e.resetAt <= now),
         next.count = e.count + 1, next.resetAt = e.resetAt,
         T = IF next.count <= limit THEN S \cup {<<now, n>>} ELSE S
  PROVE  ClientInv(T, next, now)
<1> DEFINE opened == e.resetAt - windowMs
<1>1. /\ S \in SUBSET PassRecords(now) /\ windowMs \in Nat \ {0} /\ limit \in Nat
      /\ e.resetAt \in Nat /\ e.count \in Nat /\ opened \in 0..now
      /\ \A p \in S : p[1] < e.resetAt
      /\ Within(S, opened, now) <= limit /\ Within(S, opened, now) <= e.count
      /\ \A t \in Nat : t + windowMs > opened => Within(S, t, opened - 1) <= limit
      /\ \A t \in Nat : Within(S, t, t + windowMs - 1) <= 2 * limit
  BY LimiterConstants DEF ClientInv, Windowed, Stretches, Entries
<1>2. opened \in Int /\ opened - 1 \in Int /\ now \in Int /\ now \notin opened..(opened - 1)
  BY <1>1
<1>3. T \in SUBSET PassRecords(now)
  <2>1. 0 \in Int
    OBVIOUS
  <2>2. S \cup {<<now, n>>} \in SUBSET PassRecords(now)
    BY <2>1, <1>1, WithinMore
  <2> QED BY <1>1, <2>2
<1>4. \A p \in T : p[1] < e.resetAt
  BY <1>1
<1>5. Within(T, opened, now) <= limit /\ Within(T, opened, now) <= next.count
  <2>1. Within(S, opened, now) \in Nat /\ Within(T, opened, now) \in Nat
    BY <1>1, <1>2, <1>3, WithinNumber
  <2>2. CASE next.count <= limit
    <3>1. Within(T, opened, now) <= Within(S, opened, now) + 1
      BY <1>1, <1>2, <2>2, WithinMore
    <3> QED BY <1>1, <2>1, <2>2, <3>1
  <2>3. CASE ~(next.count <= limit)
    BY <1>1, <2>1, <2>3
  <2> QED BY <2>2, <2>3
<1>6. \A a, b \in Int : now \notin a..b => Within(T, a, b) = Within(S, a, b)
  <2>1. ASSUME NEW a \in Int, NEW b \in Int, now \notin a..b
        PROVE  Within(S \cup {<<now, n>>}, a, b) = Within(S, a, b)
    <3>1. {p \in S \cup {<<now, n>>} : p[1] \in a..b} = {p \in S : p[1] \in a..b}
      BY <2>1
    <3> QED BY <3>1 DEF Within
  <2> QED BY <2>1
<1>7. ASSUME NEW t \in Nat, t + windowMs > opened
      PROVE  Within(T, t, opened - 1) <= limit
  <2>1. t \in Int /\ now \notin t..(opened - 1)
    BY <1>1
  <2> QED BY <1>1, <1>2, <1>6, <1>7, <2>1
<1>8. ASSUME NEW t \in Nat, t + windowMs <= opened
      PROVE  Within(T, t, t + windowMs - 1) <= 2 * limit
  <2>1. t \in Int /\ t + windowMs - 1 \in Int /\ now \notin t..(t + windowMs - 1)
    BY <1>1, <1>8
  <2> QED BY <1>1, <1>6, <2>1
<1>9. Stretches(T)
  BY <1>1, <1>3, <1>5, <1>7, <1>8, EveryStretch
<1>10. next # NoEntry
  BY <1>1, <1>2 DEF NoEntry
<1>11. Windowed(T, next, now)
  BY <1>1, <1>4, <1>5, <1>7 DEF Windowed
<1> QED BY <1>3, <1>9, <1>10, <1>11 DEF ClientInv

\* A request that opens a window.
LEMMA CountedFirst ==
  ASSUME NEW now \in Nat, NEW S, NEW T, NEW n \in 1..MaxBurst,
         S \in SUBSET PassRecords(now), Stretches(S), Unwindowed(S, now),
         T = IF 1 <= limit THEN S \cup {<<now, n>>} ELSE S
  PROVE  ClientInv(T, [count |-> 1, resetAt |-> now + windowMs], now)
<1> DEFINE next == [count |-> 1, resetAt |-> now + windowMs]
<1>1. /\ windowMs \in Nat \ {0} /\ limit \in Nat
      /\ \A p \in S : p[1] < now
      /\ \A t \in Nat : t + windowMs > now => Within(S, t, now) <= limit
      /\ \A t \in Nat : Within(S, t, t + windowMs - 1) <= 2 * limit
  BY LimiterConstants DEF Unwindowed, Stretches
<1>2. \A p \in S : p[1] \in 0..now
  BY DEF PassRecords
<1>3. T \in SUBSET PassRecords(now)
  <2>1. 0 \in Int
    OBVIOUS
  <2>2. S \cup {<<now, n>>} \in SUBSET PassRecords(now)
    BY <2>1, WithinMore
  <2> QED BY <2>2
<1>4. \A p \in T : p[1] < now + windowMs
  BY <1>1, <1>2
<1>5. Within(T, now, now) <= limit /\ Within(T, now, now) <= 1
  <2>1. {p \in S : p[1] \in now..now} = {}
    BY <1>1, <1>2
  <2>2. Within(S, now, now) = 0
    BY <2>1, FS_EmptySet DEF Within
  <2>3. now \in Int
    OBVIOUS
  <2>4. CASE 1 <= limit
    <3>1. Within(T, now, now) <= Within(S, now, now) + 1
      BY <2>3, <2>4, WithinMore
    <3>2. Within(T, now, now) \in Nat
      BY <1>3, <2>3, WithinNumber
    <3> QED BY <1>1, <2>2, <2>4, <3>1, <3>2
  <2>5. CASE ~(1 <= limit)
    BY <1>1, <2>2, <2>5
  <2> QED BY <2>4, <2>5
<1>6. \A a, b \in Int : now \notin a..b => Within(T, a, b) = Within(S, a, b)
  <2>1. ASSUME NEW a \in Int, NEW b \in Int, now \notin a..b
        PROVE  Within(S \cup {<<now, n>>}, a, b) = Within(S, a, b)
    <3>1. {p \in S \cup {<<now, n>>} : p[1] \in a..b} = {p \in S : p[1] \in a..b}
      BY <2>1
    <3> QED BY <3>1 DEF Within
  <2> QED BY <2>1
<1>7. ASSUME NEW t \in Nat, t + windowMs > now
      PROVE  Within(T, t, now - 1) <= limit
  <2>1. t \in Int /\ now \in Int /\ now - 1 \in Int /\ now \notin t..(now - 1)
    OBVIOUS
  <2>2. Within(T, t, now - 1) = Within(S, t, now - 1)
    BY <1>6, <2>1
  <2>3. \A p \in S : p[1] \in t..(now - 1) => p[1] \in t..now
    OBVIOUS
  <2>4. Within(S, t, now - 1) <= Within(S, t, now)
    BY <2>1, <2>3, WithinLess
  <2>5. Within(S, t, now - 1) \in Nat /\ Within(S, t, now) \in Nat
    BY <2>1, WithinNumber
  <2> QED BY <1>1, <1>7, <2>2, <2>4, <2>5
<1>8. ASSUME NEW t \in Nat, t + windowMs <= now
      PROVE  Within(T, t, t + windowMs - 1) <= 2 * limit
  <2>1. t \in Int /\ t + windowMs - 1 \in Int /\ now \notin t..(t + windowMs - 1)
    BY <1>1, <1>8
  <2> QED BY <1>1, <1>6, <2>1
<1>9. Stretches(T)
  <2>1. now \in 0..now
    OBVIOUS
  <2> QED BY <1>3, <1>5, <1>7, <1>8, <2>1, EveryStretch
<1>10. next # NoEntry
  BY DEF NoEntry
<1>11. Windowed(T, next, now)
  <2>1. next.resetAt - windowMs = now /\ now \in 0..now
    BY <1>1
  <2> QED BY <1>4, <1>5, <1>7, <2>1 DEF Windowed
<1> QED BY <1>3, <1>9, <1>10, <1>11 DEF ClientInv

LEMMA TickKeeps ==
  ASSUME LimiterInv, TickPasses
  PROVE  LimiterInv'
<1>1. /\ tick \in Nat /\ tick' = tick + 1 /\ tick' \in 0..LastTick
      /\ UNCHANGED <<store, passed>>
      /\ burst' \in [Clients -> 0..MaxBurst]
  BY LimiterConstants DEF LimiterInv, TickPasses
<1>2. \A c \in Clients : store[c] \in Entries /\ ClientInv(passed[c], store[c], tick)
  BY DEF LimiterInv
<1>3. \A c \in Clients : ClientInv(passed[c], store[c], tick + 1)
  BY <1>1, <1>2, LaterInstant
<1>4. passed \in [Clients -> SUBSET PassRecords(tick + 1)]
  <2>1. \A c \in Clients : passed[c] \in SUBSET PassRecords(tick + 1)
    BY <1>3 DEF ClientInv
  <2> QED BY <2>1 DEF LimiterInv
<1> QED BY <1>1, <1>3, <1>4 DEF LimiterInv

\* A request, and the cleanup in passing.
LEMMA RequestKeeps ==
  ASSUME LimiterInv, NEW c \in Clients, consumeRateLimit(c)
  PROVE  LimiterInv'
<1>1. /\ tick \in Nat /\ tick' = tick /\ tick \in 0..LastTick
      /\ burst \in [Clients -> 0..MaxBurst] /\ burst[c] < MaxBurst
      /\ store \in [Clients -> Entries] /\ passed \in [Clients -> SUBSET PassRecords(tick)]
      /\ windowMs \in Nat \ {0} /\ limit \in Nat /\ MaxBurst \in Nat
  BY LimiterConstants DEF LimiterInv, consumeRateLimit
<1>2. burst[c] + 1 \in 1..MaxBurst
  BY <1>1
<1>3. burst' \in [Clients -> 0..MaxBurst]
  BY <1>1, <1>2 DEF consumeRateLimit
<1> DEFINE counted == Counted(c)
           T == IF counted[c].count <= limit THEN passed[c] \cup {<<tick, burst[c] + 1>>}
                ELSE passed[c]
<1>4. counted \in [Clients -> Entries] /\ \A d \in Clients \ {c} : counted[d] = store[d]
  BY <1>1 DEF Counted, Entries
<1>5. ClientInv(T, counted[c], tick)
  <2>0. ClientInv(passed[c], store[c], tick)
    BY DEF LimiterInv
  <2>1. CASE store[c] = NoEntry \/ store[c].resetAt <= tick
    <3>1. counted[c] = [count |-> 1, resetAt |-> tick + windowMs]
      BY <1>1, <2>1 DEF Counted
    <3>2. /\ passed[c] \in SUBSET PassRecords(tick) /\ Stretches(passed[c])
          /\ Unwindowed(passed[c], tick)
      BY <1>1, <2>0, <2>1, Forgotten DEF ClientInv
    <3>3. T = IF 1 <= limit THEN passed[c] \cup {<<tick, burst[c] + 1>>} ELSE passed[c]
      BY <3>1
    <3> HIDE DEF counted, T
    <3> QED BY <1>1, <1>2, <3>1, <3>2, <3>3, CountedFirst
  <2>2. CASE ~(store[c] = NoEntry \/ store[c].resetAt <= tick)
    <3>1. /\ counted[c].count = store[c].count + 1 /\ counted[c].resetAt = store[c].resetAt
          /\ counted[c] \in Entries /\ store[c] \in Entries
      BY <1>1, <1>4, <2>2 DEF Counted, Entries
    <3>2. T = IF counted[c].count <= limit THEN passed[c] \cup {<<tick, burst[c] + 1>>}
              ELSE passed[c]
      OBVIOUS
    <3> HIDE DEF counted, T
    <3> QED BY <1>1, <1>2, <2>0, <2>2, <3>1, <3>2, CountedInside
  <2> QED BY <2>1, <2>2
<1>6. passed'[c] = T /\ \A d \in Clients \ {c} : passed'[d] = passed[d]
  BY <1>1 DEF consumeRateLimit
<1>7. store' = CleanedUp(counted)
  BY DEF consumeRateLimit
<1> HIDE DEF counted, T
<1>8. \A d \in Clients : ClientInv(passed'[d], counted[d], tick)
  BY <1>4, <1>5, <1>6 DEF LimiterInv
<1>9. store' \in [Clients -> Entries]
  <2>1. NoEntry \in Entries
    BY DEF NoEntry, Entries
  <2> QED BY <1>4, <1>7, <2>1 DEF CleanedUp
<1>10. ASSUME NEW d \in Clients
       PROVE  ClientInv(passed'[d], store'[d], tick)
  <2>1. \/ store'[d] = counted[d]
        \/ store'[d] = NoEntry /\ counted[d].resetAt <= tick
    BY <1>4, <1>7 DEF CleanedUp
  <2> QED BY <1>1, <1>4, <1>8, <2>1, Forgotten
<1>11. passed' \in [Clients -> SUBSET PassRecords(tick)]
  <2>1. \A d \in Clients : passed'[d] \in SUBSET PassRecords(tick)
    BY <1>10 DEF ClientInv
  <2>2. DOMAIN passed' = Clients /\ passed' = [d \in DOMAIN passed' |-> passed'[d]]
    BY <1>1 DEF consumeRateLimit
  <2> QED BY <2>1, <2>2
<1> QED BY <1>1, <1>3, <1>9, <1>10, <1>11 DEF LimiterInv

LEMMA LimiterInvHolds == LimiterSpec => []LimiterInv
<1>1. LimiterInit => LimiterInv
  <2> SUFFICES ASSUME LimiterInit PROVE LimiterInv
    OBVIOUS
  <2>1. \A c \in Clients : passed[c] = {} /\ store[c] = NoEntry
    BY DEF LimiterInit
  <2>2. \A a, b : Within({}, a, b) = 0
    BY FS_EmptySet DEF Within
  <2>3. ClientInv({}, NoEntry, 0)
    BY <2>2, LimiterConstants DEF ClientInv, Stretches, Unwindowed
  <2>4. NoEntry \in Entries
    BY DEF NoEntry, Entries
  <2> QED BY <2>1, <2>3, <2>4, LimiterConstants DEF LimiterInit, LimiterInv
<1>2. LimiterInv /\ [LimiterNext]_limiterVars => LimiterInv'
  <2>1. ASSUME LimiterInv, UNCHANGED limiterVars
        PROVE  LimiterInv'
    BY <2>1 DEF LimiterInv, limiterVars
  <2> QED BY <2>1, TickKeeps, RequestKeeps DEF LimiterNext
<1> QED
  BY <1>1, <1>2, PTL DEF LimiterSpec

\* For every limit, every length of a window and every size of the store: the window
\* a client is in lets through no more than the limit, and no stretch of time as long
\* as a window lets through more than twice the limit.
THEOREM LimitAlwaysHolds == LimiterSpec => []LimitHolds
<1>1. LimiterInv => LimitHolds
  <2> SUFFICES ASSUME LimiterInv, NEW c \in Clients
               PROVE  /\ store[c] # NoEntry =>
                           Through(c, store[c].resetAt - windowMs, store[c].resetAt - 1) <= limit
                      /\ \A t \in 0..LastTick : Through(c, t, t + windowMs - 1) <= 2 * limit
    BY DEF LimitHolds
  <2>1. /\ ClientInv(passed[c], store[c], tick) /\ tick \in Nat /\ LastTick \in Nat
        /\ store[c] \in Entries /\ windowMs \in Nat /\ limit \in Nat
    BY LimiterConstants DEF LimiterInv
  <2>2. \A a, b : Through(c, a, b) = Within(passed[c], a, b)
    BY DEF Through, Within
  <2>3. \A t \in 0..LastTick : Through(c, t, t + windowMs - 1) <= 2 * limit
    BY <2>1, <2>2 DEF ClientInv, Stretches
  <2>4. ASSUME store[c] # NoEntry
        PROVE  Through(c, store[c].resetAt - windowMs, store[c].resetAt - 1) <= limit
    <3> DEFINE opened == store[c].resetAt - windowMs
               last == store[c].resetAt - 1
    <3>1. /\ passed[c] \in SUBSET PassRecords(tick) /\ opened \in 0..tick
          /\ Within(passed[c], opened, tick) <= limit
      BY <2>1, <2>4 DEF ClientInv, Windowed
    <3>2. opened \in Int /\ last \in Int /\ tick \in Int
      BY <2>1 DEF Entries
    <3>3. \A p \in passed[c] : p[1] \in opened..last => p[1] \in opened..tick
      <4>1. \A p \in passed[c] : p[1] \in 0..tick
        BY <3>1 DEF PassRecords
      <4> QED BY <3>2, <4>1
    <3>4. Within(passed[c], opened, last) <= Within(passed[c], opened, tick)
      BY <2>1, <3>1, <3>2, <3>3, WithinLess
    <3>5. /\ Within(passed[c], opened, last) \in Nat /\ Within(passed[c], opened, tick) \in Nat
      BY <2>1, <3>1, <3>2, WithinNumber
    <3> QED BY <2>1, <2>2, <3>1, <3>4, <3>5
  <2> QED BY <2>3, <2>4
<1> QED
  BY <1>1, LimiterInvHolds, PTL
=============================================================================
