----------------------------- MODULE CatalogRegistry ----------------------------
(***************************************************************************)
(* What the registry of store sources promises, whoever writes it and      *)
(* however slowly: a change touches one source and one thing about it,     *)
(* sources come only from an addition, with a URL no other source has, and *)
(* go only by a removal.                                                   *)
(***************************************************************************)
CONSTANTS Source, Url, Absent

VARIABLE entries    \* [Source -> entry or Absent]

Status == {"syncing", "ready", "error"}
Path   == {"top", "nested"}     \* where below the directory of a source its catalog lies
Entry  == [url : Url, status : Status, enabled : BOOLEAN, path : Path]

Present == {s \in Source : entries[s] # Absent}

RegistryInit ==
    /\ entries \in [Source -> Entry \cup {Absent}]
    /\ \A s, t \in Present : entries[s].url = entries[t].url => s = t

Add(s) ==
    /\ s \notin Present
    /\ \E u \in Url :
          /\ \A t \in Present : entries[t].url # u
          /\ entries' = [entries EXCEPT ![s] = 
                 [url |-> u, status |-> "syncing", enabled |-> TRUE, path |-> "top"]]

\* Only a source that becomes ready may have its catalog in a new place.
SetStatus(s) ==
    /\ s \in Present
    /\ \E st \in Status, p \in Path :
          /\ st = "ready" \/ p = entries[s].path
          /\ entries' = [entries EXCEPT ![s] =
                 [url |-> entries[s].url, status |-> st, enabled |-> entries[s].enabled, path |-> p]]

SetEnabled(s) ==
    /\ s \in Present
    /\ \E b \in BOOLEAN : entries' = [entries EXCEPT ![s] =
           [url |-> entries[s].url, status |-> entries[s].status, enabled |-> b,
            path |-> entries[s].path]]

Remove(s) ==
    /\ s \in Present
    /\ entries' = [entries EXCEPT ![s] = Absent]

RegistryNext == \E s \in Source : Add(s) \/ SetStatus(s) \/ SetEnabled(s) \/ Remove(s)

RegistrySpec == RegistryInit /\ [][RegistryNext]_entries
===============================================================================
