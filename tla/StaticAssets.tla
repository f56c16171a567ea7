---------------------------- MODULE StaticAssets ----------------------------
(***************************************************************************)
(* The files under /static: the fleet hash the webapp computes once at its *)
(* start, the ?v= it puts on every URL of index.html and of the imports of *)
(* a module, the files it serves as they are on disk by then, and the      *)
(* phone's cache, told to keep what it gets for a year.                    *)
(***************************************************************************)
EXTENDS Naturals, Sequences, SequencesExt

CONSTANTS
  Hashed,     \* the .js, .css and .svg files but for vendor/, in sorted order
  Index,      \* files index.html refers to
  Imports,    \* module -> the specifiers it imports
  Icons,      \* module -> the icons it shows
  MaxEdits,   \* bound: files changed on disk
  MaxPages    \* bound: page loads

VARIABLES
  disk,       \* file -> its content
  read,       \* contents the starting webapp has read for its hash
  cache,      \* the phone's cache: URL -> the response
  page,       \* the page load under way, and whether it began on a clean deploy
  edits, pages,
  dirty,      \* history: a file changed since the webapp started
  reverted,   \* history: a file got a content back that it had before
  drifted     \* history: URLs answered while dirty, or by another webapp than their stamp's

vars == <<disk, read, cache, page, edits, pages, dirty, reverted, drifted>>

Files == Range(Hashed)
Unstamped == <<>>

\* compute_asset_hashes: one hash over all the files, so any edit moves it.  A
\* hash is modelled by what it was computed from.
Up == Len(read) = Len(Hashed)

\* A file is its path under static/: directories, then its name.
Dir(file) == Front(file)

\* The browser's own resolution of a specifier.
Path(dir, specifier) ==
  IF Head(specifier) = ".." THEN Front(dir) \o Tail(specifier) ELSE dir \o specifier

\* Mutant of Resolve: a specifier looked up as it is written.
ResolveAsWritten(dir, specifier) == specifier

\* _resolve_specifier, with ".." for the directory above.
Resolve(dir, specifier) ==
  IF Head(specifier) = ".." THEN Front(dir) \o Tail(specifier) ELSE dir \o specifier

\* rewrite_index_html and rewrite_js_imports: what the hash map has no entry for
\* passes unstamped.
Stamp(key) == IF key \in Range(Hashed) THEN read ELSE Unstamped

NoPage == [clean |-> FALSE, under |-> Unstamped, wants |-> {}, got |-> {}]

Init ==
  /\ disk = [f \in Files |-> 0] /\ read = [i \in DOMAIN Hashed |-> 0]
  /\ cache = <<>> /\ page = NoPage /\ edits = 0 /\ pages = 0
  /\ dirty = FALSE /\ reverted = FALSE /\ drifted = {}

\* A pull or an editor: one file at a time, the webapp not told.
Edit(file) ==
  /\ edits < MaxEdits /\ edits' = edits + 1
  /\ disk' = [disk EXCEPT ![file] = 1 - @]
  /\ dirty' = TRUE /\ reverted' = (reverted \/ disk[file] = 1)
  /\ page' = [page EXCEPT !.clean = FALSE]
  /\ UNCHANGED <<read, cache, pages, drifted>>

\* The tray's restart, and create_app reading file after file.
Restart ==
  /\ Up /\ dirty /\ read' = <<>> /\ dirty' = FALSE
  /\ page' = [page EXCEPT !.clean = FALSE]
  /\ UNCHANGED <<disk, cache, edits, pages, reverted, drifted>>

HashNext ==
  /\ ~Up /\ read' = Append(read, disk[Hashed[Len(read) + 1]])
  /\ UNCHANGED <<disk, cache, page, edits, pages, dirty, reverted, drifted>>

\* index.html is never cached.  The page before is left, loaded or not.
Open ==
  /\ Up /\ pages < MaxPages /\ pages' = pages + 1
  /\ page' = [clean |-> ~dirty, under |-> read, got |-> {},
              wants |-> {<<f, Stamp(f)>> : f \in Index}]
  /\ UNCHANGED <<disk, read, cache, edits, dirty, reverted, drifted>>

\* _VersionedStatic.file_response: the file as it is now, whatever the URL says of
\* it, its imports stamped with the hash of the webapp that answers.
Response(file) ==
  [content |-> disk[file],
   imports |-> {<<Path(Dir(file), g), Stamp(Resolve(Dir(file), g))>> : g \in Imports[file]}]

\* What a module asks for: its imports, and icons by iconUrl with its own stamp.
Asks(url, response) == response.imports \cup {<<icon, url[2]>> : icon \in Icons[url[1]]}

Takes(url, response) ==
  LET got == page.got \cup {[url |-> url, content |-> response.content]} IN
  page' = [page EXCEPT !.got = got,
                       !.wants = (@ \cup Asks(url, response)) \ {g.url : g \in got}]

LoadCached(url) ==
  /\ url \in page.wants \cap DOMAIN cache /\ Takes(url, cache[url])
  /\ UNCHANGED <<disk, read, cache, edits, pages, dirty, reverted, drifted>>

Fetch(url) ==
  /\ Up /\ url \in page.wants \ DOMAIN cache
  /\ LET response == Response(url[1]) IN
       /\ Takes(url, response)
       /\ cache' = [u \in DOMAIN cache \cup {url} |-> IF u = url THEN response ELSE cache[u]]
  /\ drifted' = IF dirty \/ read # url[2] THEN drifted \cup {url} ELSE drifted
  /\ UNCHANGED <<disk, read, edits, pages, dirty, reverted>>

Next ==
  \/ Restart \/ HashNext \/ Open
  \/ \E file \in Files : Edit(file)
  \/ \E url \in page.wants : LoadCached(url) \/ Fetch(url)

Spec == Init /\ [][Next]_vars

-----------------------------------------------------------------------------

TypeOK ==
  /\ DOMAIN disk = Files /\ Len(read) <= Len(Hashed)
  /\ page.wants \cap {g.url : g \in page.got} = {} /\ drifted \subseteq DOMAIN cache

\* A page that was opened with the webapp up on the files it hashed runs just those
\* files: every stamped one is as it is on disk, whatever the phone cached before.
\* The exception is a URL that was once answered with another content than its stamp
\* stands for, between an edit and the restart for it, or one with another page's
\* stamp, which such an answer led to; and it takes the old content coming back for
\* that answer to be asked for again.
DeployReachesPage ==
  page.clean =>
    \A g \in page.got :
      \/ g.content = disk[g.url[1]]
      \/ reverted /\ (g.url \in drifted \/ g.url[2] # page.under)

\* Such a page has one copy of each module, under one stamp: two stamps would be two
\* instances of it, each with a state of its own.
OneInstance ==
  page.clean /\ page.got # {} =>
    \A g \in page.got : g.url[2] = page.under \/ (reverted /\ drifted # {})

AssetsFresh == DeployReachesPage /\ OneInstance
=============================================================================
