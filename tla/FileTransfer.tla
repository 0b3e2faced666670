---------------------------- MODULE FileTransfer ----------------------------
(***************************************************************************)
(* Sending a file to the members of a space (commands/file.rs,             *)
(* file/transfer.rs) and the file server that takes it (file/server.rs).   *)
(*                                                                         *)
(* The body is compressed and encrypted before it is sent, and can only be *)
(* opened as a whole: a stored body is the number of 64 KiB chunks it has, *)
(* and whether the framing of HTTP's chunked encoding is among its bytes.  *)
(***************************************************************************)
EXTENDS Naturals, Sequences, FiniteSets, SequencesExt

CONSTANTS Peers,  \* online members, as get_peers_for_file_transfer lists them
          Chunks  \* the number of 64 KiB chunks of the body, at least one

VARIABLES targets,  \* the members still to be served, the first one now
          pc,       \* where the command is: "idle", "put", "answered", "ok", "err"
          reply,    \* what the PUT ended with: "none", "success", "failure"
          sent,     \* chunks the HTTP client took from the stream, per call of send_file
          stopped,  \* the calls whose progress task was told to stop
          gone,     \* the calls whose progress task has ended
          status,   \* the entry of transfers: one for the whole broadcast
          stored,   \* the body in each member's storage directory
          row,      \* the file is in the sender's database
          opened    \* the members whose receive_file saved the file

vars == <<targets, pc, reply, sent, stopped, gone, status, stored, row, opened>>

Calls == 1..Cardinality(Peers)
\* The call of send_file that is under way: they share the file id.
Now == Cardinality(Peers) - Len(targets) + 1

\* What a member has before the transfer, and the body it can open.
Absent == [chunks |-> 0, framed |-> FALSE]
Whole == [chunks |-> Chunks, framed |-> FALSE]

Init == /\ targets \in SetToSeqs(Peers)
        /\ pc = "idle" /\ reply = "none" /\ sent = [c \in Calls |-> 0]
        /\ stopped = {} /\ gone = Calls /\ status = "none"
        /\ stored = [p \in Peers |-> Absent] /\ row = FALSE /\ opened = {}

\* The file cannot be read, compressed or encrypted.
ReadFails ==
    /\ pc = "idle" /\ pc' = "err"
    /\ UNCHANGED <<targets, reply, sent, stopped, gone, status, stored, row, opened>>

\* Read, compress, encrypt; register the transfer and spawn the progress task.
send_file ==
    /\ pc = "idle" /\ targets # <<>>
    /\ status' = "Transferring" /\ gone' = gone \ {Now}
    /\ pc' = "put" /\ reply' = "none"
    /\ UNCHANGED <<targets, sent, stopped, stored, row, opened>>

\* The client takes the next chunk of the stream.
Push ==
    /\ pc = "put" /\ reply = "none" /\ sent[Now] < Chunks
    /\ sent' = [sent EXCEPT ![Now] = @ + 1]
    /\ UNCHANGED <<targets, pc, reply, stopped, gone, status, stored, row, opened>>

\* reqwest sends a streamed body without a Content-Length, in HTTP chunks.
ContentLength == 0

\* The header is read with the part of the body that came in the same reads
\* (k chunks); then the body is read until it has content_length bytes, which
\* is 0 without the header line, and written to disk as it came.  If the stream
\* ends before, what came is written all the same, and the 200 goes nowhere; it
\* may also be lost.  A write that fails, answered by 500, leaves a part or the
\* old file.
handle_connection ==
    /\ pc = "put" /\ reply = "none"
    /\ \/ \E k \in 0..sent[Now] :
             /\ stored' = [stored EXCEPT ![Head(targets)] = [chunks |-> k, framed |-> ContentLength = 0]]
             /\ reply' \in {"failure"} \cup IF k >= ContentLength THEN {"success"} ELSE {}
       \/ reply' = "failure" /\ UNCHANGED stored
    /\ UNCHANGED <<targets, pc, sent, stopped, gone, status, row, opened>>

\* No connection, or no answer within 300 s.
RequestFails ==
    /\ pc = "put" /\ reply = "none"
    /\ reply' = "failure"
    /\ UNCHANGED <<targets, pc, sent, stopped, gone, status, stored, row, opened>>

\* send() returned: the progress task is told to stop.
StopProgress ==
    /\ pc = "put" /\ reply # "none"
    /\ pc' = "answered" /\ stopped' = stopped \cup {Now}
    /\ UNCHANGED <<targets, reply, sent, gone, status, stored, row, opened>>

\* Every 200 ms and once more when told to stop; nobody waits for it.
Progress(c) ==
    /\ c \notin gone
    /\ status' = IF sent[c] = Chunks THEN "Completed" ELSE status
    /\ gone' = IF c \in stopped THEN gone \cup {c} ELSE gone
    /\ UNCHANGED <<targets, pc, reply, sent, stopped, stored, row, opened>>

\* The final status.  A failure ends the command: later members get nothing.
Finish ==
    /\ pc = "answered"
    /\ IF reply = "success"
       THEN status' = "Completed" /\ targets' = Tail(targets) /\ pc' = "idle"
       ELSE status' = "Failed" /\ pc' = "err" /\ UNCHANGED targets
    /\ UNCHANGED <<reply, sent, stopped, gone, stored, row, opened>>

\* Every member was served, or none was online: the row is inserted, if the
\* database takes it.
Record ==
    /\ pc = "idle" /\ targets = <<>>
    /\ \/ row' = TRUE /\ pc' = "ok"
       \/ UNCHANGED row /\ pc' = "err"
    /\ UNCHANGED <<targets, reply, sent, stopped, gone, status, stored, opened>>

\* Read, decrypt, decompress, compare the hash, save; any error saves nothing.
receive_file(p) ==
    /\ stored[p] = Whole
    /\ opened' = opened \cup {p}
    /\ UNCHANGED <<targets, pc, reply, sent, stopped, gone, status, stored, row>>

Next == \/ ReadFails \/ send_file \/ Push \/ handle_connection \/ RequestFails \/ StopProgress
        \/ Finish \/ Record
        \/ \E c \in Calls : Progress(c)
        \/ \E p \in Peers : receive_file(p)

Spec == Init /\ [][Next]_vars

-----------------------------------------------------------------------------
\* receive_file's comment says that the sender has put the file on disk by its
\* HTTP PUT, and the server's that an upload of any size is streamed to disk:
\* when the command has succeeded, every member can open what it stored.
CompletedIsStored == pc = "ok" => \A p \in Peers : stored[p] = Whole
=============================================================================
