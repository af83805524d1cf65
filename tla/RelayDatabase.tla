--------------------------- MODULE RelayDatabase ---------------------------
(***************************************************************************)
(* The SQLite table `posts' of storage/database.py, as the two components  *)
(* that write it see it: the pipeline's DuplicateDetectionStage and        *)
(* PublisherStage, and the MessageRouter.                                  *)
(*                                                                         *)
(* The table has UNIQUE(source, source_message_id): a key, one row at most *)
(* for each.  Of a row only the content hash and the status matter; the    *)
(* hash is the content itself (SHA-256 is taken to be injective).  Every   *)
(* operator is one committed transaction on a connection of its own, so    *)
(* two of them are never one atomic step.                                  *)
(***************************************************************************)
CONSTANTS
    Keys,       \* (source, source_message_id) pairs
    Texts,      \* message texts, raw and stripped
    NoRow       \* what a key without a row maps to

\* calculate_content_hash(text, media_url).
Contents == [text : Texts, media : BOOLEAN]

Rows == [content : Contents, status : {"pending", "published"}]

ASSUME NoRowAssumption == NoRow \notin Rows

Tables == [Keys -> Rows \cup {NoRow}]

EmptyTable == [k \in Keys |-> NoRow]

\* Database.exists(source, source_message_id).
HasKey(posts, k) == posts[k] # NoRow

HasContent(posts, c) ==
    \E k \in Keys : HasKey(posts, k) /\ posts[k].content = c

\* Mutants of Exists: the content hash, the key or a pending row is ignored.
ExistsByContent(posts, k, c) == HasContent(posts, c)
ExistsByKey(posts, k, c) == HasKey(posts, k)
ExistsPublished(posts, k, c) ==
    \E j \in Keys : /\ HasKey(posts, j) /\ posts[j].status = "published"
                   /\ (j = k \/ posts[j].content = c)

\* Database.exists(source, source_message_id, content_hash).
Exists(posts, k, c) == HasKey(posts, k) \/ HasContent(posts, c)

\* Database.save_post of a pending DBPost: INSERT OR REPLACE, so an earlier
\* row of the key is overwritten whatever its status.
SavePending(posts, k, c) ==
    [posts EXCEPT ![k] = [content |-> c, status |-> "pending"]]

\* Database.mark_published: an UPDATE, which does nothing without a row.
MarkPublished(posts, k) ==
    IF HasKey(posts, k)
    THEN [posts EXCEPT ![k] = [content |-> posts[k].content,
                               status  |-> "published"]]
    ELSE posts

IsPublished(posts, k) == HasKey(posts, k) /\ posts[k].status = "published"
=============================================================================
