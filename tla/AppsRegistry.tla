---------------------------- MODULE AppsRegistry ----------------------------
(***************************************************************************)
(* The Apps tab: bats found under the scan root, offered in a dialog, kept *)
(* as rows of apps.json under an id made from their path, renamed, flagged *)
(* and deleted there, and the sister trays the tray boots from that file.  *)
(***************************************************************************)
EXTENDS Integers, Sequences, FiniteSets, SequencesExt

CONSTANTS
  Bats,             \* numbers, in the order of their paths
  Stem, Says,       \* of each: the stem of its name, and what its text mentions
  Folder,           \* of each: the name it is given, a number since names are only compared
  Roots, Slug,      \* scan roots, and the ids of the bats under each
  NewNames,         \* names typed into the rename dialog
  MaxRequests, MaxMoves  \* bounds: requests that change a row; bats moved, roots edited

VARIABLES
  disk,     \* the bats there are
  root,     \* apps_scan_root
  rows,     \* apps.json
  dialog,   \* the scan dialog of a page: at; the bats known and the root when it loaded; its ids
  boot,     \* launch_all: the bats to come, the one it waits for, those it started
  saves,    \* saves so far
  spent

vars == <<disk, root, rows, dialog, boot, saves, spent>>

Nobody == 0

\* classify_bat: the first match wins.
Classify(b) ==
  LET mentions(token) == token \in Says[b] IN
  CASE Stem[b] = "tray" /\ mentions("tray_lifecycle.ps1") -> "tray"
    [] ~(Stem[b] = "tray" /\ mentions("tray_lifecycle.ps1")) ->
         IF mentions("streamlit run") THEN "streamlit"
         ELSE IF Stem[b] = "tunnel" /\ Says[b] \cap {"uvicorn", "run_tunnel", "cloudflared"} # {} THEN "tunnel"
         ELSE IF mentions("uvicorn") \/ mentions("app.webapp.server") THEN "webapp"
         ELSE "none"

\* The bats under a root are those it gives an id.
ScanAppBats(scanRoot) == {b \in disk \cap DOMAIN Slug[scanRoot] : Classify(b) # "none"}

Init ==
  /\ disk = Bats /\ root \in Roots
  /\ rows = <<>>
  /\ dialog = [at |-> "closed", have |-> {}, root |-> root, ids |-> {}]
  /\ boot = [at |-> "off", queue |-> <<>>, waits |-> Nobody, started |-> <<>>]
  /\ saves = 0 /\ spent = [requests |-> 0, moves |-> 0]

Moves ==
  /\ spent.moves < MaxMoves /\ spent' = [spent EXCEPT !.moves = @ + 1]
  /\ \/ \E b \in Bats : disk' = (disk \ {b}) \cup ({b} \ disk) /\ UNCHANGED root
     \/ root' \in Roots \ {root} /\ UNCHANGED disk
  /\ UNCHANGED <<rows, dialog, boot, saves>>

-----------------------------------------------------------------------------
\* The requests.  Each loads the file, edits it and saves it without letting go of the
\* event loop, but for the scan, whose walk runs in a thread.

Asks == spent.requests < MaxRequests /\ spent' = [spent EXCEPT !.requests = @ + 1]
Known == {rows[i].bat : i \in DOMAIN rows}
HaveIds == {rows[i].id : i \in DOMAIN rows}

\* Mutant of DiscoverNew: a bat is known by its id.
DiscoverNewById(scanRoot, have) == {b \in ScanAppBats(scanRoot) : Slug[scanRoot][b] \notin HaveIds}

DiscoverNew(scanRoot, have) == {b \in ScanAppBats(scanRoot) : b \notin have}

ScanBegins ==
  /\ dialog' = [at |-> "scanning", have |-> Known, root |-> root, ids |-> {}]
  /\ UNCHANGED <<disk, root, rows, boot, saves, spent>>

ScanEnds ==
  /\ dialog.at = "scanning"
  /\ dialog' = [dialog EXCEPT !.at = "open", !.ids = {Slug[dialog.root][b] : b \in DiscoverNew(dialog.root, dialog.have)}]
  /\ UNCHANGED <<disk, root, rows, boot, saves, spent>>

\* A stable sort by name.
ByName(table) ==
  LET before(i, j) == table[i].name < table[j].name \/ (table[i].name = table[j].name /\ i < j)
      order == SetToSortSeq(DOMAIN table, before)
  IN  [i \in DOMAIN table |-> table[order[i]]]

NewRow(b) ==
  [id |-> Slug[root][b], bat |-> b, name |-> Folder[b], kind |-> Classify(b), auto |-> FALSE, save |-> saves]
\* The ids it has are those before the save: two additions of one id both get in.
PersistAdditions(additions) ==
  LET added == SelectSeq(SetToSortSeq(additions, <), LAMBDA b : Slug[root][b] \notin HaveIds)
  IN  rows' = ByName(rows \o [i \in DOMAIN added |-> NewRow(added[i])])

\* The save scans again.
SaveApps ==
  /\ dialog.at = "open" /\ Asks
  /\ \E ids \in (SUBSET dialog.ids) \ {{}} :
       PersistAdditions({b \in DiscoverNew(root, Known) : Slug[root][b] \in ids})
  /\ saves' = saves + 1
  /\ UNCHANGED <<disk, root, dialog, boot>>

\* The first row of an id is the one a request finds.
FirstOf(id) == CHOOSE i \in DOMAIN rows : rows[i].id = id /\ \A j \in 1 .. i - 1 : rows[j].id # id

Rename(id) ==
  /\ Asks
  /\ \E name \in NewNames : rows' = ByName([rows EXCEPT ![FirstOf(id)].name = name])
  /\ UNCHANGED <<disk, root, dialog, boot, saves>>

SetAutostart(id) ==
  /\ Asks
  /\ rows' = [rows EXCEPT ![FirstOf(id)].auto = ~@]
  /\ UNCHANGED <<disk, root, dialog, boot, saves>>

RemoveById(id) ==
  /\ Asks
  /\ rows' = RemoveAt(rows, FirstOf(id))
  /\ UNCHANGED <<disk, root, dialog, boot, saves>>

-----------------------------------------------------------------------------
\* launch_all, in a thread of the tray: the flagged trays one after the other, each given
\* until it answers or its time runs out.

BootLoads ==
  /\ boot.at = "off"
  /\ LET flagged == SelectSeq(rows, LAMBDA r : r.kind = "tray" /\ r.auto) IN
       boot' = [boot EXCEPT !.at = "on", !.queue = [i \in DOMAIN flagged |-> flagged[i].bat]]
  /\ UNCHANGED <<disk, root, rows, dialog, saves, spent>>

BootNext ==
  /\ boot.at = "on" /\ boot.waits = Nobody /\ boot.queue # <<>>
  /\ LET b == Head(boot.queue) IN
       boot' = IF b \in disk
               THEN [boot EXCEPT !.queue = Tail(@), !.waits = b, !.started = Append(@, b)]
               ELSE [boot EXCEPT !.queue = Tail(@)]
  /\ UNCHANGED <<disk, root, rows, dialog, saves, spent>>

BootGoesOn ==
  /\ boot.waits # Nobody /\ boot' = [boot EXCEPT !.waits = Nobody]
  /\ UNCHANGED <<disk, root, rows, dialog, saves, spent>>

Next ==
  \/ Moves \/ ScanBegins \/ ScanEnds \/ SaveApps
  \/ \E id \in HaveIds : Rename(id) \/ SetAutostart(id) \/ RemoveById(id)
  \/ BootLoads \/ BootNext \/ BootGoesOn

Spec == Init /\ [][Next]_vars

-----------------------------------------------------------------------------
TypeOK ==
  /\ disk \subseteq Bats /\ root \in Roots
  /\ \A i \in DOMAIN rows : rows[i].bat \in Bats /\ rows[i].auto \in BOOLEAN /\ rows[i].kind # "none"
  /\ dialog.at \in {"closed", "scanning", "open"} /\ dialog.have \subseteq Bats
  /\ boot.waits \in Bats \cup {Nobody} /\ spent.requests <= MaxRequests /\ spent.moves <= MaxMoves

\* However stale the dialog a row was saved from, and wherever the scan root pointed at the
\* time, a bat has one row; and rows that share an id came from one save.
OneRowPerBat ==
  \A i, j \in DOMAIN rows : i # j =>
    rows[i].bat # rows[j].bat /\ (rows[i].id = rows[j].id => rows[i].save = rows[j].save)

\* The rows are in the order the tray boots them: by name, through renames and removals.
InOrder == \A i \in 1 .. Len(rows) - 1 : rows[i].name <= rows[i + 1].name

\* One boot starts a sister tray at most once, and only bats that are sister trays.
BootsOnce ==
  \A i \in DOMAIN boot.started : Classify(boot.started[i]) = "tray"
    /\ \A j \in DOMAIN boot.started : boot.started[i] = boot.started[j] => i = j

\* What the rows of the Apps tab promise.
RowsSound == OneRowPerBat /\ InOrder /\ BootsOnce
=============================================================================
