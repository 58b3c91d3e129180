--------------------------- MODULE ByteStreamSpec ---------------------------
(***************************************************************************)
(* One ByteStream between a writer and a reader that call it in any order, *)
(* as the two halves of the TCP event loop do (tcp_sponge_socket.cc:90-135):*)
(* the reader peeks, passes on what its own sink accepts, pops that much.  *)
(***************************************************************************)
EXTENDS ByteStream

CONSTANTS
  Capacity,  \* constructor argument
  Total      \* bound of the model: bytes the writer ever offers

ASSUME StreamAssumption == Capacity \in Nat /\ Total \in Nat

VARIABLES
  stream,   \* the ByteStream
  read      \* history: every byte handed to the reader, in order

streamVars == <<stream, read>>

StreamInit ==
  /\ stream = NewByteStream(Capacity)
  /\ read = <<>>

\* The writer offers the next n bytes; byte number i of the stream is i itself.
\* What is not accepted it offers again.  It writes nothing after end_input, as
\* _outbound_shutdown and the end of the peer's stream see to.
WriteBytes ==
  \E n \in 1 .. Total - stream.totWrite :
    /\ ~ InputEnded(stream)
    /\ stream' = Write(stream, [i \in 1 .. n |-> stream.totWrite + i])
    /\ UNCHANGED read

CloseInput ==
  /\ ~ InputEnded(stream)
  /\ stream' = EndInput(stream)
  /\ UNCHANGED read

ReportError ==
  /\ ~ stream.error
  /\ stream' = SetError(stream)
  /\ UNCHANGED read

\* peek_output(len) with len within buffer_size(), the sink takes n of it, and
\* pop_output(n); read(n) is the case n = len.
ReadBytes ==
  \E n \in 1 .. BufferSize(stream) :
    /\ read' = read \o PeekOutput(stream, n)
    /\ stream' = PopOutput(stream, n)

StreamNext == WriteBytes \/ CloseInput \/ ReportError \/ ReadBytes

\* The reader keeps reading; nothing obliges the writer.
StreamSpec == StreamInit /\ [][StreamNext]_streamVars /\ WF_streamVars(ReadBytes)
-----------------------------------------------------------------------------
\* No counter goes below zero (write, byte_stream.cc:20-27, takes room only as
\* far as there is some).
TypeOK ==
  /\ stream \in ByteStreams(1 .. Total)
  /\ read \in Seq(1 .. Total)

\* The counters agree with the buffer at every moment, so that buffer_size,
\* remaining_capacity and eof, which are computed from the counters alone
\* (byte_stream.cc:54-64), speak of the bytes really held, never more than the
\* capacity of them.
Accounting ==
  /\ stream.cap = Capacity
  /\ Len(stream.buf) = BufferSize(stream)
  /\ stream.rem \in 0 .. Capacity
  /\ stream.totRead = Len(read)
  /\ stream.totWrite = stream.totRead + Len(stream.buf)

\* What was read followed by what is buffered is exactly what was accepted:
\* nothing lost, repeated or reordered (byte_stream.cc:20-48).
Fifo == read \o stream.buf = [i \in 1 .. stream.totWrite |-> i]

\* Every accepted byte reaches a reader that keeps reading.
AllRead ==
  \A n \in 1 .. Total : stream.totWrite >= n ~> Len(read) >= n
=============================================================================
