----------------------------- MODULE DirListing -----------------------------
(***************************************************************************)
(* opendir, readdir and closedir for Windows, of zbaselib.c.  A DIR keeps  *)
(* the search handle of Windows and the entry that was found last, which   *)
(* the next readdir will return.                                           *)
(***************************************************************************)
EXTENDS Integers, Sequences

CONSTANT Listings     \* what is found in a directory, sequences of names

Entries == UNION {{found[i] : i \in DOMAIN found} : found \in Listings}

ASSUME DirListingAssumption == Listings \subseteq Seq(Entries)

VARIABLES
    dir,          \* a DIR and its search, or NoDir
    listed        \* history: what readdir returned, whether it has returned
                  \* NULL, whether the system stopped before the last entry,
                  \* and how many handles were opened and closed

listingVars == <<dir, listed>>

-----------------------------------------------------------------------------
NoDir == [handle |-> "none", info |-> 0, search |-> << >>]
NothingListed == [names |-> << >>, ended |-> FALSE, failed |-> FALSE,
                  opened |-> 0, closed |-> 0]

(* The path is a directory, and there is memory.  FindFirstFileW finds     *)
(* nothing in the empty root of a disk, and may fail in every directory.   *)
(* info counts the entries that were found.                                *)
Opendir(found) ==
    /\ dir = NoDir
    /\ \/ /\ found # << >>
          /\ dir' = [handle |-> "open", info |-> 1, search |-> found]
          /\ listed' = [NothingListed EXCEPT !.opened = 1]
       \/ /\ dir' = [handle |-> "invalid", info |-> 0, search |-> found]
          /\ listed' = [NothingListed EXCEPT !.failed = found # << >>]

(* The entry that was found last is returned, and the next one is looked   *)
(* for.  FindNextFileW may fail although there are more; readdir does with *)
(* every failure what it does at the end, and the caller cannot tell.      *)
Readdir ==
    /\ dir # NoDir
    /\ IF dir.handle = "open"
       THEN LET more == dir.info < Len(dir.search)
                names == Append(listed.names, dir.search[dir.info])
            IN  \/ /\ more
                   /\ dir' = [dir EXCEPT !.info = @ + 1]
                   /\ listed' = [listed EXCEPT !.names = names]
                \/ /\ dir' = [dir EXCEPT !.handle = "invalid"]
                   /\ listed' = [listed EXCEPT !.names = names, !.failed = more,
                                               !.closed = @ + 1]
       ELSE /\ listed' = [listed EXCEPT !.ended = TRUE]
            /\ UNCHANGED dir

Always_MustClose(d) == d # NoDir
MustClose(d) == d.handle = "open"

Closedir ==
    /\ dir # NoDir
    /\ dir' = NoDir
    /\ listed' = [listed EXCEPT !.closed = IF MustClose(dir) THEN @ + 1 ELSE @]

-----------------------------------------------------------------------------
ListingInit == dir = NoDir /\ listed = NothingListed

ListingNext ==
    \/ \E found \in Listings : Opendir(found)
    \/ Readdir
    \/ Closedir

ListingSpec == ListingInit /\ [][ListingNext]_listingVars

-----------------------------------------------------------------------------
(* Properties *)

(* readdir returns what the system finds in the directory, each entry once *)
(* and in order.  When it returns NULL, it has returned all that was found *)
(* before, the entry of the last search that succeeded included, and will  *)
(* return no more; these are all entries of the directory unless the       *)
(* system failed in between.  The search handle is closed once, by the     *)
(* readdir whose search failed or by closedir.                             *)
ListedOnce ==
    /\ dir # NoDir =>
          /\ SubSeq(dir.search, 1, Len(listed.names)) = listed.names
          /\ listed.ended =>
                /\ dir.handle # "open"
                /\ Len(listed.names) = dir.info
                /\ listed.names = dir.search <=> ~listed.failed
    /\ listed.opened - listed.closed = IF dir.handle = "open" THEN 1 ELSE 0
=============================================================================
