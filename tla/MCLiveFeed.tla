----------------------------- MODULE MCLiveFeed -----------------------------
(* Small instances of EventReads and LiveFeed for TLC. *)
EXTENDS LiveFeed

\* Listings and feeds share nothing but the table: an execution has either.
Apart ==
    \/ \A c \in Readers : reader[c] = NoListing
    \/ \A f \in Feeds : feed[f] = Offline
=============================================================================
