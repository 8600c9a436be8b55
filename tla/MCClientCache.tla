--------------------------- MODULE MCClientCache ---------------------------
(* The cache over the views of the workspace's pages. Views touched by the same kinds of acts are one. *)
EXTENDS ClientScreens, ClientCache

ViewKeys == UNION {ScreenShows(s) : s \in ScreenNames}
AllHooks == UNION {ScreenActs(s) : s \in ScreenNames}
Offered(hook, shows, key) == \E s \in ScreenNames : hook \in ScreenActs(s) /\ (key \in ScreenShows(s)) = shows

\* An act is owed to the views of its own page, and a record's act to everything that reads the records.
ReadsRecords(key) == <<key, "records">> \in Reads
KindOf(hook, key) ==
  [affects |-> Changes(hook, key),
   refreshes |-> Refreshed(hook, key),
   stores |-> <<hook, key>> \in Stores,
   excused |-> \/ <<hook, key>> \in LeftStale
               \/ ~Offered(hook, TRUE, key) /\ ~(hook \in RecordHooks /\ ReadsRecords(key)),
   here |-> Offered(hook, TRUE, key),
   away |-> Offered(hook, FALSE, key)]

MCViews == {{KindOf(hook, key) : hook \in {h \in AllHooks : Changes(h, key) \/ Refreshed(h, key)}} : key \in ViewKeys}

=============================================================================
