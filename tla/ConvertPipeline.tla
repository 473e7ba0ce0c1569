-------------------------- MODULE ConvertPipeline --------------------------
(***************************************************************************)
(* A conversion without checkpoint: one reader task per input file, a      *)
(* bounded channel and a writer.  Readers and local writers are blocking   *)
(* tasks of the tokio runtime and wait for one of its threads in spawning  *)
(* order.  A remote output goes through write_stream_async: the writer     *)
(* fetches each batch with a blocking task, an encoder task turns batches  *)
(* into bytes and an upload task sends them as a multipart upload.         *)
(* Channels know no errors: a receiver only sees that its senders are      *)
(* gone.                                                                   *)
(***************************************************************************)
EXTENDS ColumnarJobs

CONSTANTS Capacity,   \* messages a channel holds
          Pools,      \* numbers of blocking threads to consider
          PartSize    \* chunks that make a part of a multipart upload

ASSUME PipelineAssumption ==
    /\ Capacity \in Nat \ {0}
    /\ Pools \subseteq Nat \ {0} /\ Pools # {}
    /\ PartSize \in Nat \ {0}

VARIABLES pool,      \* blocking threads of the runtime
          queue,     \* blocking tasks waiting for a thread
          running,   \* blocking tasks that have one
          reader,    \* how far each reader is
          sent,      \* batches each reader has sent
          chan,      \* channel from readers to writer
          rx,        \* its receiver still exists
          writer, hand,
          bchan,     \* channel from writer to encoder
          encoder,
          cchan,     \* channel from encoder to upload
          upload, buffer,
          parts,     \* what the uploaded parts hold, in the order of their numbers
          multipart, \* the multipart upload on the server
          main       \* the command itself

readVars == <<reader, sent>>
writeVars == <<rx, writer, hand>>
encodeVars == <<bchan, encoder>>
uploadVars == <<upload, buffer, parts, multipart>>
poolVars == <<queue, running>>
pipelineVars == <<pool, poolVars, readVars, chan, writeVars, encodeVars, cchan, uploadVars, main>>

Footer == <<0, 0>>
Exited == {"done", "failed"}
Live == main \notin Exited

Pipelined == route \in {"local", "routed", "remote"}

ReadTask(f) == <<"read", f>>
WriteTask == <<"write", 0>>
RecvTask == <<"recv", 0>>
EncodeTask == <<"encode", 0>>

PipelineInit ==
    /\ pool \in Choice(Pipelined, Pools)
    /\ queue = Append([f \in Files |-> ReadTask(f)], IF Remote THEN EncodeTask ELSE WriteTask)
    /\ running = {}
    /\ reader = [f \in Files |-> "active"]
    /\ sent = [f \in Files |-> 0]
    /\ chan = <<>>
    /\ rx = TRUE
    /\ writer = IF Remote THEN "loop" ELSE "start"
    /\ hand = None
    /\ bchan = <<>>
    /\ encoder = "active"
    /\ cchan = <<>>
    /\ upload = "active"
    /\ buffer = <<>>
    /\ parts = <<>>
    /\ multipart = "none"
    /\ main = "readers"
-----------------------------------------------------------------------------
(* The blocking pool hands its threads out in the order of spawning. *)
StartTask ==
    /\ queue # <<>>
    /\ Cardinality(running) < pool
    /\ running' = running \cup {Head(queue)}
    /\ queue' = Tail(queue)
    /\ UNCHANGED <<pool, readVars, chan, writeVars, encodeVars, cchan, uploadVars, main, output, faults>>

EndTask(t) ==
    /\ running' = running \ {t}
    /\ UNCHANGED queue

EndReader(f, how) ==
    /\ reader' = [reader EXCEPT ![f] = how]
    /\ EndTask(ReadTask(f))
    /\ UNCHANGED <<pool, sent, chan, writeVars, encodeVars, cchan, uploadVars, main, output>>

\* mutant: send without waiting for room
ReadBatchUnbounded(f) ==
    /\ ReadTask(f) \in running
    /\ sent[f] < total[f]
    /\ rx
    /\ chan' = Append(chan, BatchesOf(f)[sent[f] + 1])
    /\ sent' = [sent EXCEPT ![f] = @ + 1]
    /\ UNCHANGED <<pool, poolVars, reader, writeVars, encodeVars, cchan, uploadVars, main, output, faults>>

(* One turn of the loop: read a batch, align it to the unified schema and   *)
(* send it, waiting for room.                                               *)
ReadBatch(f) ==
    /\ ReadTask(f) \in running
    /\ sent[f] < total[f]
    /\ rx
    /\ Len(chan) < Capacity
    /\ chan' = Append(chan, BatchesOf(f)[sent[f] + 1])
    /\ sent' = [sent EXCEPT ![f] = @ + 1]
    /\ UNCHANGED <<pool, poolVars, reader, writeVars, encodeVars, cchan, uploadVars, main, output, faults>>

\* mutant: a reader that does not notice the end of the receiver
ReaderEndsAtEof(f) ==
    /\ ReadTask(f) \in running
    /\ sent[f] = total[f]
    /\ EndReader(f, "ok")
    /\ UNCHANGED faults

(* The file is read, or the send fails because the receiver is gone: the    *)
(* reader stops and returns Ok either way.                                  *)
ReaderEnds(f) ==
    /\ ReadTask(f) \in running
    /\ sent[f] = total[f] \/ ~rx
    /\ EndReader(f, "ok")
    /\ UNCHANGED faults

ReaderFails(f) ==
    /\ ReadTask(f) \in running
    /\ Fault
    /\ EndReader(f, "err")

\* mutant: the channel counts as closed when the first sender is gone
AnySenderGone == \E f \in Files : reader[f] # "active"

(* Every reader owns a sender until it ends, started or not. *)
SendersGone == \A f \in Files : reader[f] # "active"
-----------------------------------------------------------------------------
(* spawn_writer and write_output: the file at the output path is truncated  *)
(* first and written in place.                                              *)
WriterCreates ==
    /\ WriteTask \in running
    /\ writer = "start"
    /\ writer' = "loop"
    /\ output' = <<>>
    /\ UNCHANGED <<pool, poolVars, readVars, chan, rx, hand, encodeVars, cchan, uploadVars, main, faults>>

WriteBatch ==
    /\ WriteTask \in running
    /\ writer = "loop"
    /\ chan # <<>>
    /\ output' = Append(output, Head(chan))
    /\ chan' = Tail(chan)
    /\ UNCHANGED <<pool, poolVars, readVars, writeVars, encodeVars, cchan, uploadVars, main, faults>>

EndWriter(how) ==
    /\ writer' = how
    /\ rx' = FALSE
    /\ UNCHANGED <<pool, readVars, chan, hand, encodeVars, cchan, uploadVars, main>>

WriterFinishes ==
    /\ WriteTask \in running
    /\ writer = "loop"
    /\ chan = <<>>
    /\ SendersGone
    /\ output' = Append(output, Footer)
    /\ EndWriter("ok")
    /\ EndTask(WriteTask)
    /\ UNCHANGED faults

WriterFails ==
    /\ WriteTask \in running
    /\ Fault
    /\ EndWriter("err")
    /\ EndTask(WriteTask)
    /\ UNCHANGED output
-----------------------------------------------------------------------------
(* sync_receiver_batch_stream: each item of the stream is a blocking task   *)
(* that waits for a message.                                                *)
RequestBatch ==
    /\ Remote
    /\ writer = "loop"
    /\ writer' = "receiving"
    /\ queue' = Append(queue, RecvTask)
    /\ UNCHANGED <<pool, running, readVars, chan, rx, hand, encodeVars, cchan, uploadVars, main, output, faults>>

ReceiveBatch ==
    /\ RecvTask \in running
    /\ \/ /\ chan # <<>>
          /\ hand' = Head(chan)
          /\ chan' = Tail(chan)
          /\ writer' = "sending"
       \/ /\ chan = <<>>
          /\ SendersGone
          /\ writer' = "encoding"
          /\ UNCHANGED <<chan, hand>>
    /\ EndTask(RecvTask)
    /\ UNCHANGED <<pool, readVars, rx, encodeVars, cchan, uploadVars, main, output, faults>>

(* write_stream_async passes the batch on; a missing encoder is an error.   *)
PassBatch ==
    /\ writer = "sending"
    /\ encoder = "active"
    /\ Len(bchan) < Capacity
    /\ bchan' = Append(bchan, hand)
    /\ hand' = None
    /\ writer' = "loop"
    /\ UNCHANGED <<pool, poolVars, readVars, chan, rx, encoder, cchan, uploadVars, main, output, faults>>

EncoderGone ==
    /\ writer = "sending"
    /\ encoder # "active"
    /\ EndWriter("err")
    /\ UNCHANGED <<poolVars, output, faults>>

(* After the stream: the encoder's result, the upload's result, and an      *)
(* error of write_remote_parquet when there was no row.                     *)
AwaitEncoder ==
    /\ writer = "encoding"
    /\ encoder # "active"
    /\ \/ encoder = "ok" /\ writer' = "uploading" /\ UNCHANGED rx
       \/ encoder = "err" /\ writer' = "err" /\ rx' = FALSE
    /\ UNCHANGED <<pool, poolVars, readVars, chan, hand, encodeVars, cchan, uploadVars, main, output, faults>>

AwaitUpload ==
    /\ writer = "uploading"
    /\ upload \in {"ok", "err"}
    /\ EndWriter(IF upload = "ok" /\ HasRows THEN "ok" ELSE "err")
    /\ UNCHANGED <<poolVars, output, faults>>
-----------------------------------------------------------------------------
BatchSenderGone == writer \notin {"loop", "receiving", "sending"}
UploadGone == upload \in {"ok", "err"}

EndEncoder(how) ==
    /\ encoder' = how
    /\ EndTask(EncodeTask)
    /\ UNCHANGED <<pool, readVars, chan, writeVars, bchan, uploadVars, main, output>>

(* Bytes reach the upload task through ChunkWriter, which waits for room. *)
EncodeBatch ==
    /\ EncodeTask \in running
    /\ bchan # <<>>
    /\ ~UploadGone
    /\ Len(cchan) < Capacity
    /\ cchan' = Append(cchan, Head(bchan))
    /\ bchan' = Tail(bchan)
    /\ UNCHANGED <<pool, poolVars, readVars, chan, writeVars, encoder, uploadVars, main, output, faults>>

EncodeFooter ==
    /\ EncodeTask \in running
    /\ bchan = <<>>
    /\ BatchSenderGone
    /\ ~UploadGone
    /\ Len(cchan) < Capacity
    /\ cchan' = Append(cchan, Footer)
    /\ EndEncoder("ok")
    /\ UNCHANGED faults

(* Writing fails with BrokenPipe once the upload task is gone. *)
BrokenPipe ==
    /\ EncodeTask \in running
    /\ UploadGone
    /\ bchan # <<>> \/ BatchSenderGone
    /\ EndEncoder("err")
    /\ UNCHANGED <<cchan, faults>>

EncoderFails ==
    /\ EncodeTask \in running
    /\ Fault
    /\ EndEncoder("err")
    /\ UNCHANGED cchan
-----------------------------------------------------------------------------
UploadStep == UNCHANGED <<pool, poolVars, readVars, chan, writeVars, encodeVars, main>>

(* The upload task takes a chunk; the sink buffers it and starts a part     *)
(* when the buffer holds one.                                               *)
TakeChunk ==
    /\ Remote
    /\ upload = "active"
    /\ cchan # <<>>
    /\ buffer' = Append(buffer, Head(cchan))
    /\ cchan' = Tail(cchan)
    /\ upload' = IF Len(buffer') >= PartSize THEN "flush" ELSE "active"
    /\ UNCHANGED <<parts, multipart, output, faults>>
    /\ UploadStep

(* No chunk will come any more, for whatever reason: the sink is shut       *)
(* down, and completes the upload.                                          *)
EndOfChunks ==
    /\ Remote
    /\ upload = "active"
    /\ cchan = <<>>
    /\ encoder # "active"
    /\ upload' = IF parts = <<>>
                 THEN IF buffer = <<>> THEN "err" ELSE "put"
                 ELSE IF buffer = <<>> THEN "complete" ELSE "last"
    /\ UNCHANGED <<buffer, parts, multipart, cchan, output, faults>>
    /\ UploadStep

EnsureMultipart ==
    /\ upload \in {"flush", "last"}
    /\ multipart = "none"
    /\ multipart' = "open"
    /\ UNCHANGED <<upload, buffer, parts, cchan, output, faults>>
    /\ UploadStep

UploadPart ==
    /\ upload \in {"flush", "last"}
    /\ multipart = "open"
    /\ parts' = parts \o buffer
    /\ buffer' = <<>>
    /\ upload' = IF upload = "flush" THEN "active" ELSE "complete"
    /\ UNCHANGED <<multipart, cchan, output, faults>>
    /\ UploadStep

PutObject ==
    /\ upload = "put"
    /\ output' = buffer
    /\ upload' = "ok"
    /\ UNCHANGED <<buffer, parts, multipart, cchan, faults>>
    /\ UploadStep

CompleteMultipart ==
    /\ upload = "complete"
    /\ output' = parts
    /\ multipart' = "completed"
    /\ upload' = "ok"
    /\ UNCHANGED <<buffer, parts, cchan, faults>>
    /\ UploadStep

(* A request fails before or after it took effect.  Only a failed           *)
(* completion is followed by an abort, whose own failure is ignored.        *)
UploadFails ==
    /\ upload \in {"flush", "last", "put", "complete"}
    /\ Fault
    /\ upload' = "err"
    /\ \/ UNCHANGED <<output, multipart>>
       \/ multipart = "none" /\ upload # "put" /\ multipart' = "open" /\ UNCHANGED output
       \/ upload = "put" /\ output' = buffer /\ UNCHANGED multipart
       \/ upload = "complete" /\ multipart' = "completed" /\ output' = parts
       \/ upload = "complete" /\ multipart' = "aborted" /\ UNCHANGED output
    /\ UNCHANGED <<buffer, parts, cchan>>
    /\ UploadStep
-----------------------------------------------------------------------------
\* mutant: only the last handle is looked at
LastReaderOk == reader[NumFiles] = "ok"

(* The handles of the readers are awaited in order, up to the first error.  *)
ReadersOk == \A f \in Files : reader[f] = "ok"
ReadError == \E f \in Files : reader[f] = "err" /\ \A g \in 1 .. (f - 1) : reader[g] = "ok"
WriterEnded == writer \in {"ok", "err"}

(* process_files_concurrently returns the first error it meets, even while  *)
(* other tasks run; run_convert_pipeline waits for both sides.  The process *)
(* exits when the command returns.                                          *)
Return ==
    /\ \/ /\ route = "local"
          /\ \/ ReadError /\ main' = "failed"
             \/ ReadersOk /\ WriterEnded /\ main' = IF writer = "ok" THEN "done" ELSE "failed"
       \/ /\ route # "local"
          /\ WriterEnded
          /\ \/ ReadError /\ main' = "failed"
             \/ ReadersOk /\ main' = IF writer = "ok" THEN "done" ELSE "failed"
    /\ UNCHANGED <<pool, poolVars, readVars, chan, writeVars, encodeVars, cchan, uploadVars, output, faults>>

ReaderStep(f) == ReadBatch(f) \/ ReaderEnds(f)
LocalWriterStep == WriterCreates \/ WriteBatch \/ WriterFinishes
RemoteWriterStep ==
    RequestBatch \/ ReceiveBatch \/ PassBatch \/ EncoderGone \/ AwaitEncoder \/ AwaitUpload
EncoderStep == EncodeBatch \/ EncodeFooter \/ BrokenPipe
UploaderStep ==
    TakeChunk \/ EndOfChunks \/ EnsureMultipart \/ UploadPart \/ PutObject \/ CompleteMultipart

PipelineNext ==
    /\ Live
    /\ UNCHANGED inputVars
    /\ \/ StartTask
       \/ \E f \in Files : ReaderStep(f) \/ ReaderFails(f)
       \/ LocalWriterStep \/ WriterFails
       \/ RemoteWriterStep
       \/ EncoderStep \/ EncoderFails
       \/ UploaderStep \/ UploadFails
       \/ Return
=============================================================================
