------------------------------ MODULE Downloads ------------------------------
(***************************************************************************)
(* foxdriver/src/dialog.rs, the log of downloads, and lurien/src/download.rs *)
(* which waits for one.  The log of prompts has the same shape, keyed by   *)
(* the context alone, with "accepted" for the status.                      *)
(*                                                                         *)
(* A download is told in two events, whose handlers are tasks of their own: *)
(* they reach the log in any order, those of one download included.  An    *)
(* event names no download, only a key: the context and the URL.           *)
(***************************************************************************)
EXTENDS Option, Naturals, Sequences

CONSTANTS Transfers, \* the downloads the browser may begin
          Keys,      \* a context and a URL
          Names,     \* file names, which a path ends in
          MaxEntries \* MAX_ENTRIES

ASSUME TransferAssumption == None \notin Transfers \union Keys \union Names
ASSUME EntriesAssumption == MaxEntries \in Nat \ {0}

\* A captured download: the transfer whose begin event gave it its key and its
\* suggested name, the one whose end event finished it, and whether that gave a
\* path.
Entry == [begin : Transfers \union {None}, end : Transfers \union {None},
          status : {"will-begin", "complete", "canceled"}, path : BOOLEAN]

VARIABLES key,    \* each transfer's key
          name,    \* the name of its file
          begun,   \* transfers whose begin event is in the log
          ended,   \* transfers whose end event is
          disk,    \* transfers whose file is on disk
          log,
          wanted,  \* the name the wait was given, or None
          seen,    \* the log as the wait read it
          turn,    \* where the wait is
          outcome \* what it was told

events == <<key, name, begun, ended, disk, log>>
wait == <<wanted, seen, turn, outcome>>
downloadsVars == <<events, wait>>

KeyOf(e) == IF e.begin # None THEN key[e.begin] ELSE key[e.end]

\* A record that had no begin takes its name from its path.
Suggested(e) == IF e.begin # None THEN name[e.begin]
                ELSE IF e.path THEN name[e.end]
                ELSE None

-----------------------------------------------------------------------------
DownloadsInit ==
    /\ key \in [Transfers -> Keys]
    /\ name \in [Transfers -> Names]
    /\ begun = {}
    /\ ended = {}
    /\ disk = {}
    /\ log = <<>>
    /\ wanted = None
    /\ seen = <<>>
    /\ turn = "idle"
    /\ outcome = [is |-> "none"]

(* The browser *)

Lands(d) ==
    /\ d \notin disk
    /\ disk' = disk \union {d}
    /\ UNCHANGED <<key, name, begun, ended, log, wait>>

(* The log *)

PushDownload(e) == log' = IF Len(log) < MaxEntries THEN Append(log, e)
                          ELSE Append(Tail(log), e)

IngestBegin(d) ==
    /\ d \notin begun
    /\ begun' = begun \union {d}
    /\ PushDownload([begin |-> d, end |-> None, status |-> "will-begin", path |-> FALSE])
    /\ UNCHANGED <<key, name, ended, disk, wait>>

\* Mutant: the newest download under way, whatever its key.
InFlightAny(d) == {i \in DOMAIN log : log[i].status = "will-begin"}

InFlight(d) == {i \in DOMAIN log : KeyOf(log[i]) = key[d] /\ log[i].status = "will-begin"}

IngestEnd(d) ==
    /\ d \notin ended
    /\ ended' = ended \union {d}
    /\ \E how \in [status : {"complete", "canceled"}, path : BOOLEAN] :
          /\ how.status = "canceled" => ~how.path
          /\ \/ \E i \in InFlight(d) :
                   /\ \A j \in InFlight(d) : j <= i
                   /\ log' = [log EXCEPT ![i] =
                                [begin |-> @.begin, end |-> d,
                                 status |-> how.status, path |-> how.path]]
             \/ /\ InFlight(d) = {}
                /\ PushDownload([begin |-> None, end |-> d, status |-> how.status,
                                 path |-> how.path])
    /\ UNCHANGED <<key, name, begun, disk, wait>>

Clear ==
    /\ log # <<>>
    /\ log' = <<>>
    /\ UNCHANGED <<key, name, begun, ended, disk, wait>>

-----------------------------------------------------------------------------
(* wait, which save begins with *)

WaitBegins ==
    /\ turn = "idle"
    /\ wanted' \in Names \union {None}
    /\ outcome' = [is |-> "none"]
    /\ turn' = "poll"
    /\ UNCHANGED <<events, seen>>

Poll ==
    /\ turn = "poll"
    /\ seen' = log
    /\ turn' = "decide"
    /\ UNCHANGED <<events, wanted, outcome>>

\* Mutant: only the suggested name is compared.
MatchesSuggested(e) == wanted = None \/ Suggested(e) = wanted

Matches(e) == \/ wanted = None
              \/ Suggested(e) = wanted
              \/ e.path /\ name[e.end] = wanted

OnDisk(e) == e.path /\ e.end \in disk
Finished == {i \in DOMAIN seen : /\ Matches(seen[i])
                                 /\ seen[i].status = "complete"
                                 /\ OnDisk(seen[i])}
Canceled == {i \in DOMAIN seen : Matches(seen[i]) /\ seen[i].status = "canceled"}

Told(a) ==
    /\ outcome' = a
    /\ turn' = "idle"
    /\ seen' = <<>>
    /\ wanted' = None
    /\ UNCHANGED events

Found ==
    /\ turn = "decide"
    /\ \E i \in Finished : /\ \A j \in Finished : j <= i
                           /\ Told([is |-> "file", of |-> seen[i].end])

\* Mutant: a canceled download is looked for first.
GivesUpFirst ==
    /\ turn = "decide"
    /\ Canceled # {}
    /\ Told([is |-> "failed"])

\* A download of that name was canceled, or the deadline has passed.
GivesUp ==
    /\ turn = "decide"
    /\ Finished = {}
    /\ Told([is |-> "failed"])

Sleep ==
    /\ turn = "decide"
    /\ Finished = {}
    /\ Canceled = {}
    /\ turn' = "poll"
    /\ seen' = <<>>
    /\ UNCHANGED <<events, wanted, outcome>>

-----------------------------------------------------------------------------
DownloadsNext ==
    \/ \E d \in Transfers : \/ Lands(d) \/ IngestBegin(d) \/ IngestEnd(d)
    \/ Clear
    \/ WaitBegins \/ Poll \/ Found \/ GivesUp \/ Sleep

DownloadsSpec == DownloadsInit /\ [][DownloadsNext]_downloadsVars

-----------------------------------------------------------------------------
(* Properties *)

\* A log of captured downloads, as read at some time before now.
LogOK(l) ==
    /\ l \in Seq(Entry)
    /\ Len(l) <= MaxEntries
    /\ \A i \in DOMAIN l :
          /\ l[i].begin \in begun \union {None}
          /\ l[i].end \in ended \union {None}
          /\ l[i].begin # None \/ l[i].end # None
          /\ l[i].status = "will-begin" <=> l[i].end = None
          /\ l[i].path => l[i].status = "complete"

\* Types; the log is bounded, and names only downloads the browser told of.
DownloadsTypeOK ==
    /\ key \in [Transfers -> Keys]
    /\ name \in [Transfers -> Names]
    /\ begun \subseteq Transfers
    /\ ended \subseteq Transfers
    /\ disk \subseteq Transfers
    /\ LogOK(log)
    /\ LogOK(seen)
    /\ wanted \in Names \union {None}
    /\ turn \in {"idle", "poll", "decide"}
    /\ outcome \in [is : {"none", "failed"}] \union [is : {"file"}, of : Transfers]

\* No download has the end of one of another kind, or what another has.
Paired(l) ==
    \A i \in DOMAIN l :
        /\ l[i].begin # None /\ l[i].end # None => key[l[i].begin] = key[l[i].end]
        /\ \A j \in DOMAIN l \ {i} : /\ l[i].end # None => l[i].end # l[j].end
                                     /\ l[i].begin # None => l[i].begin # l[j].begin

\* Events that come in any order, more of them than the log keeps, and a clear
\* in between never give a download the end of one of another context or URL,
\* nor count one end or one begin twice.
EndsWithItsKind == Paired(log)

\* A wait that answers names a file that is there, that of a download of the
\* wanted name or of one with the same context and URL; and one that gives up
\* had not read the end of any download of that name whose file was there, even
\* where its end was recorded with another download of the same URL.
WaitFindsTheFile ==
    [][turn = "decide" /\ turn' = "idle" =>
         /\ outcome'.is = "file" =>
               /\ outcome'.of \in disk
               /\ wanted # None => \E d \in begun \union ended :
                                      /\ name[d] = wanted
                                      /\ key[d] = key[outcome'.of]
         /\ outcome'.is = "failed" =>
               \A i \in DOMAIN seen :
                   ~ /\ seen[i].path
                     /\ seen[i].end \in disk
                     /\ wanted \in {None, name[seen[i].end]}]_downloadsVars
=============================================================================
