# A verification development for ts-zeug

ts-zeug is a TypeScript library: an MQTT 5 client and its packet codec, a
MessagePack codec, and the binary readers and writers and stream adapters both
are built on. This directory holds TLA+ modules translated from that source,
TLC configurations that check them on small instances, and theorems about them
whose proofs TLAPS checks.

## The system

| part | source | state | operations | hard behaviour |
|---|---|---|---|---|
| MQTT client | `mqtt/Client.ts` | `#active`, `#messageHandlerPromise`, `#writable`, the local `con` and reader of the handler, `#pingIntervalId`, `#lastPingRespReceived`, `#pendingReplies`, `#writer.maximumPacketSize` | constructor, `open`, `close`, `subscribe`, `unsubscribe`, `publish`, `auth`, `#handleMessages`, the ping interval | actors interleaved at every `await`; failures at every I/O call; reconnecting; packet identifiers that are reused; timeouts |
| stream of the client | `mqtt/ClientSource.ts` | `#controller`, `#closed` | `start`, `enqueue`, `close`, `error`, `cancel` | order of events; cancelled by the user while the client writes to it |
| packet reassembly | `mqtt/DeserializeStream.ts` | `#partialChunk` | `transform` | packets cut anywhere, several in a chunk, errors in between |
| packet decoding | `mqtt/deserialize.ts` | none (a `DataReader` position) | `readFixedHeader`, one function per packet | lengths that disagree, unknown or repeated properties |
| packet encoding | `mqtt/serialize.ts` | `Writer`: position, buffer, property writer, `#maximumPacketSize` | `beginMessage`, `finalizeMessage`, one function per packet | fixed header written backwards into reserved space; buffers shared between messages |
| packet types | `mqtt/packets.ts` | none | `asTopic`, `asTopicFilter`, `asClientID`, ... | validation of UTF-8 lengths and wildcards |
| binary readers and writers | `helper/mod.ts` | `DataReader.pos`; `DataWriter` position and buffer | get/add of every width, UTF-8 strings, growth of the buffer | bounds, growth, split of 64-bit integers |
| WebSocket adapter | `helper/websocket.ts` | the two controllers, the listeners, the promises of `start` and of `_closeWS` | open, message, close, error, cancel, write, close, abort | events of the socket against calls of the streams, microtasks between two events |
| MessagePack codec | `msgpack/mod.ts` | `Serializer` buffer; none for decoding | `add` and its kin, `reset`, `deserialize` | ranges of every format, timestamps, 64-bit split, an `add` that throws half-way |
| MessagePack stream | `msgpack/mod.ts` | the bytes not consumed | `transform` | values cut anywhere; an error told from missing data |
| logging | `mqtt/Client.ts:74-180` | none | `logPacket`, `printPacket` | none |
| connecting | `mqtt/Client.ts:182-217` | none | `connectLowLevel` | external I/O |
| examples, CI, configuration | `examples/`, `.github/`, `deno.jsonc` | none | | none |

How they interact. The client calls `connectLowLevel`, which pipes the
transport's bytes through a `DeserializeStream` into the reader of the message
handler; WebSocket addresses go through the adapter. The handler and the
callers of the client share one `Writer` (serialization, with the packet size
limit of the session) and one `WritableStreamDefaultWriter`; they meet in the
table of pending replies, where a call waits for a promise that the handler
settles. The handler, `close()` and the ping interval put events into one
`ClientSource`, which the user reads. `close()` and the handler meet in
`#active` and in the handler's promise. MessagePack and MQTT share only the
binary readers and writers.

### What makes each part correct

- Client: a reply reaches the call whose request it answers and no other; an
  identifier is reserved exactly while its promise is pending; no request and no
  call outlives its session; one handler; every connection is closed; the
  stream brackets sessions; the ping keeps to its session and notices a silent
  broker; `close()` and calls return.
- Reassembly: whatever the chunks, the packets come out whole, in order and
  once, nothing is read twice, and only an incomplete packet is kept.
- Encoding and decoding: decoding an encoded packet gives the packet; the
  fixed header says the length of what follows; the variable byte integer is
  the inverse of its reader over its whole range.
- Readers and writers: a write never leaves the buffer; what was written before
  the buffer grew survives; 64-bit integers are put together as they were split.
- Packets: what one client writes another reads, with the same meaning, and can
  write again; a body that is cut off is not read as another packet.
- WebSocket adapter: both streams end as the socket does, nothing is enqueued
  after the end, calls settle, no listener throws.
- MessagePack: the format chosen is the smallest that fits the value, a value
  that is cut off is told from one that is wrong, and the stream emits every
  value once and in order, whatever the chunks.

## Modules

| module | models | composed from |
|---|---|---|
| `MqttClient` | `Client.ts` with `ClientSource.ts`: handler, ping, calls, `close`/`open`, transport and broker (external) | instantiates `RequestReply` |
| `RequestReply` | abstract: what `subscribe`/`unsubscribe` promise their callers | |
| `MqttClientProofs` | theorems about `MqttClient` and the refinement of `RequestReply` | extends `MqttClient` |
| `Powers` | powers of a natural number, as a recursive function | |
| `PacketFraming` | the fixed header and the variable byte integer of `serialize.ts` and `deserialize.ts`, as operators | extends `Powers` |
| `InOrderDelivery` | abstract: what a stream over the bytes of a connection promises its reader | |
| `PacketStream` | `DeserializeStream.transform` on the bytes of a connection | extends `PacketFraming`, instantiates `InOrderDelivery` |
| `PacketStreamProofs` | theorems about `PacketStream` and the refinement | extends `PacketStream`, `DataLemmas` |
| `PacketWriter` | `Writer` with the `DataWriter` under it: one growing buffer for all packets | extends `PacketFraming` |
| `PacketWriterProofs` | theorems about `PacketFraming`, the integer of `MCPacketFraming` and `PacketWriter` | extends `PacketWriter`, `MCPacketFraming`, `DataLemmas` |
| `DataBuffers` | `DataReader` and the integers of `DataWriter`, as operators | extends `Powers` |
| `MqttPackets` | every `serialize...` and `deserialize...` function, the properties and the validators, as operators | extends `PacketFraming`, `DataBuffers` |
| `PacketRelay` | packets that are written, read and written again | extends `MqttPackets` |
| `PacketRelayProofs` | theorems about `PacketRelay` and the operators of `MqttPackets` | extends `PacketRelay`, `DataLemmas` |
| `Msgpack` | the reading half of the MessagePack codec: what `deserialize` finds, as operators | extends `DataBuffers` |
| `MsgpackSerializer` | a `Serializer` with `add` and `reset`: what each `add` appends, and what a reader of its buffer gets | extends `Msgpack` |
| `MsgpackSerializerProofs` | theorems about `deserialize` and `MsgpackSerializer` | extends `MsgpackSerializer`, `ForwardReading`, `DataLemmas` |
| `ForwardReading` | what `DeserializerStream` takes for granted of `deserialize` | |
| `MsgpackStream` | `DeserializerStream.transform` with the queue and the reader behind it | extends `ForwardReading`, instantiates `InOrderDelivery` |
| `MsgpackStreamProofs` | theorems about `MsgpackStream` and the refinement | extends `MsgpackStream`, `DataLemmas` |
| `DataLemmas` | lemmas about naturals, powers, recursive functions and sequences that the proofs share | extends `Powers` |
| `WebSocketStreams` | `streamifyWebSocket`: source, sink, socket (external) and the machinery of the streams (external) | |
| `WebSocketStreamsProofs` | theorems about `WebSocketStreams` | extends `WebSocketStreams` |
| `MCMqttClient`, `MCPacketFraming`, `MCPacketStream`, `MCPacketWriter`, `MCPacketRelay`, `MCMsgpackSerializer`, `MCMsgpackStream` | the modules TLC runs, with the values of their constants | extend the module they name |

### MqttClient

JavaScript runs one actor at a time up to its next `await`, so an action is the
code between two awaits and `hpc`, `callPc` and `closePc` name the awaits.
Awaiting a promise that is settled, or `undefined`, is an await too: it takes a
microtask in which another actor may run.

| code | model |
|---|---|
| the await `#handleMessages` is at | `hpc`: `connecting` (385), `delay` (399, 463, 493), `writeConnect` (409), `handshake` (413), `dispatch` (566), and `refuseClose` (424), `noAckClose` (458), `failClose` (478), `teardownClose` (621) for `con.writable.close()`; `done` when it has returned |
| the local `con`, `#writable`'s and `r`'s locks | `con.open`, `con.wlock`, `con.rlock`; `con.link` is the transport, `con.disc` a DISCONNECT that was written, `con.pinged` a connection the ping has closed |
| `#writable` is defined | `writable`; with `con.wlock` false it is a writer whose lock was released |
| `#writer.maximumPacketSize` | `sizeLimit`: whether CONNECT fits |
| `#pendingReplies[1..]` and its promises | `pending`, `reply`; a caller is identified with the promise of its last call |
| what the broker has still to answer | `requests` (emptied when the connection is given up) |
| `Date.now() - #lastPingRespReceived` | `missed`, the ticks since the last PINGRESP |
| ClientSource | `stream` |
| the await a `close()` is at | `closePc`: `writing` for the write of DISCONNECT (361) on a live writer, `lateWrite` when the handler has left that connection, `failing` for the rejected write of a released writer; `awaiting` for a handler that runs (368), `passing` for a promise that is settled or `undefined` |

`close()` reads `#messageHandlerPromise` behind its write (`AwaitHandler`), when
another `close()` may have made it `undefined`, and whoever gets to line 370
replaces the stream and forgets the promise that is there by then
(`CloseReturns`). `open()` looks at that promise alone (`Open`), so it can run
while a `close()` is at one of these awaits. `OpensAmid` says at which of them
the instance lets it: at the writes (`mqtt_lifecycle`), or at the last one
(`open_amid_close`), where it breaks what the client promises. None falls on a
`close()` that is `awaiting`: as long as that handler runs, its promise is there
(unless it was forgotten, see the bounds), and when it is resolved all who await
it go on before the program that awaits one of them does.

The ping fires every `1000*K-100` ms and gives up after `1500*K` ms, so for
every `K >= 1` the first tick after a PINGRESP is never late, the second may be
and the third is (`MayBeOnTime`, `MayBeLate`); with `K = 0` any millisecond is
late. Late timers are not modelled. A PINGREQ write of a connection the handler
has left can fail later, but then both locks are released and the connection is
closed, so only a PingFailed event is left of it, and it is not modelled. 
`con.writable.close()` settles after the writes before it, or is rejected at
once when the ping had closed the connection (`Drained`): this is the one way
in which a DISCONNECT can still be under way when the handler goes on
(`lateWrite`).

Left out: `publish()` and `auth()`, which write and change nothing; packets
that are forwarded; the assigned client id (`Client.ts:431-441`); what the
events carry. The broker obeys MQTT: it answers a request once and with the
right identifier, and sends no identifier 0.

### PacketFraming

Written and read headers share one module because each is checked against the
other. The widths are constants: 7 bits, 128 and 4 bytes in the code, smaller
ones where bytes are enumerated. `BitLength` is `32 - Math.clz32(n)`;
`IntegerAt` is the loop of `readVariableByteInteger` up to the byte without the
continuation bit, and `Malformed` the byte too many on which it throws. Powers
and the digits of an integer are recursive functions (`Power`,
`VariableByteInteger`), which can be proved about. `MCPacketFraming` has the
integer under test as a variable (`MCSpec`). `Whole`
is what `DeserializeStream` asks before it calls `deserializePacket`.

### PacketStream

| code | model |
|---|---|
| `#partialChunk`, the local `chunk`, `reader.pos` | `partial` (empty: undefined), `chunk`, `pos` |
| a call of `transform(chunk)` | `Transform(n)`, with the next `n` bytes of `wire`, and the steps up to the return to `"idle"` |
| one turn of its loop (51-79) | `Enqueue`, `Refuse` (the catch clause), `KeepRest` (57-64), `Throw` (`readFixedHeader`, which no `try` encloses), `Return` |
| `controller.enqueue`, `controller.error` | `emitted`, `errored` |
| the end of the connection | `Close`; there is no `flush()`, so what is kept is dropped |

`ends` is a history variable: where in the wire the consumed packets end. Which
packets `deserializePacket` throws on is a parameter (`BadHeads`).

`InOrderDelivery` knows no bytes, chunks or rests: items are given one after the
other, and none once the stream is broken. `PacketStream` implements it with the
packets the wire begins with (`PacketsFrom`) and what was enqueued, and
`MsgpackStream` with the values of the wire and what its reader has read.

`WrittenPacketsArrive` closes the circle from one client to the other: on a wire
that is made of packets as `finalizeMessage` returns them (`Sendings`, each packet
one for the reader: `IsPacket`), what comes out is what was put in. The run's
sendings are built with the `VariableByteInteger` of the writer; the theorem takes
any number of packets of any content. That each sending is made of packets is an
assumption (`SendingsAssumption`) which TLC evaluates for the run and
`PacketsReadBack` proves of the writer.

### PacketWriter

`buffer`, `pos` and `limit` are `DataWriter`'s buffer and position and
`#maximumPacketSize`; `body` is a history of what the packet has to contain, and
`packet` what `finalizeMessage` returned. The serialize functions are sequences
of these operations between `beginMessage` and `finalizeMessage`. A string is
the sequence of the widths of its UTF-16 code units, which is all that the
space it needs depends on.

### DataBuffers, MqttPackets and PacketRelay

A `DataReader` is a window of a buffer and a position (`[off, len, pos]`);
`HasBytes` is the test of `#getReadPosition`, which throws an
`IncompleteDataError`. Integers are written as the bytes they take; the two
halves of a 64-bit one are put together as the code does it. The number of
values of a byte is a parameter, so that every width scales with it.

| code | model |
|---|---|
| a packet object | a function of the fields it has; a field left out is `undefined` |
| a serialized packet behind its fixed header | `[type, flags, body]` |
| the `DataReader` of a body | the bytes it has still to read; readers are put together with `Then`, `ReadAll` |
| an exception of a `serialize...` function | `Throws(p)` |
| an exception of a `deserialize...` function | `Refused`; which one it was is left out |
| `switch` over `Property` in `addProperties`, `readProperties` | the table `Property` (identifier, kind of value) with `PropertyBytes` and `ReadValue` |
| the loop of `readProperties`, and those over entries | `PropertyLoop`, `ReadMany`: functions of the number of turns, each of which takes a byte at least |
| the types of packets.ts | `IsPacket`, `Holds`: what each field may hold, with an enumeration as wide as its place in the packet |
| which properties a packet writes, and the `if (x)` or `!== undefined` before each | `PropertiesOf`, `TestedForTruth`, `WrittenWhenFalse` |
| `asTopic`, `asTopicFilter`, `asClientID` | `AsTopic`, `AsTopicFilter`, `AsClientID` |
| `PublishDeserializeOptions` | `options`: `"format"`, `"text"` or `"binary"` |

Texts are the bytes of their UTF-8 form. `DecodedText` is `TextDecoder.decode` as
`helper/mod.ts:337` uses it: a byte order mark at the beginning is dropped, and
each longest beginning of a character (`Taken`) that does not go on as it should,
the end of the text included, is replaced. Texts and data are shorter than 65536
bytes.

`PacketRelay` sends a packet on and on, as a bridge between two brokers would:
`Send` is a serialize function and `Receive` is `deserializePacket`. It begins
with a packet of the user or with a wire from another program. `Meaning` fills
in what a packet leaves out with the defaults `packets.ts` tells beside its
types; `NeverSent` are the values of a CONNACK that the writer leaves out because
it tests them for truth. `Marked` are the packets with a byte order mark in their
body, which need not be read as they were written: `MeaningKept` and
`OwnWiresAccepted` leave them out.

### Msgpack and MsgpackSerializer

A value is its JavaScript type with its content: a scalar (`Scalars`), or a
sequence of other values (`IsContainer`). `Values` are the values considered with
all that is in them, `Depth` how deep each of them is nested, and `Args` those
given to `add`. `Output` is what `add` appends, an exception included: what was
written before it stays in the buffer. `add` calls itself for what is in an array
or a map: `OutputWith` is its body, given what the nested calls do, and
`OutputAll` its loops, which end at the first exception; `Output` ties the knot
by a recursive function of the depth. Headers are refused where the code throws:
beyond 2^32-1 bytes (`Word`), and for the type of an extension that is no int8.
`NextValue` is `next()` of `deserialize`; its outcome is a value and the reader
behind it, an `IncompleteDataError` or another exception. `next()` calls itself
for what a map or an array holds: `NextAt` is its body, given what the nested
calls find at each position, and `NextValue` ties the knot by a recursive
function of the depth, which the bytes that are left bound. Formats of one kind
follow each other in MessagePack, so the i-th after that of one byte has a field
of 2^i bytes, for reading and for writing. `Image` is the value a reader is to
find: what was a set is an array, a safe bigint is a number, an object with the
same key twice has the later one. Extension handlers are the user's: `Handled`
tells the types they know and how much they read.

### MsgpackStream

| code | model |
|---|---|
| `#partialChunk`, the local `chunk`, `reader.pos` | `partial`, `chunk`, `pos` |
| a call of `transform(chunk)` | `Transform(n)` and the steps up to the return to `"idle"` |
| one turn of its loop | `Enqueue`, `KeepRest` (`IncompleteDataError`), `Fail` (any other), `Return` |
| `TransformStream` with the default strategies (external) | `waiting`, `queue`: `transform` is called only while a read is pending; the first value goes to it, the others to the queue, which an error empties |

What `deserialize` does is a parameter, of which the stream assumes one thing
(`ReadsForward`): a value or an error is found by looking at bytes from its place
on and none behind those it takes, so that more bytes behind them change no outcome but that of missing
data. `DeserializeReadsForward` is the proof that the codec does.

### WebSocketStreams

| code | model |
|---|---|
| `ws.readyState` | `socket` |
| the listeners of the source (lines 24-35) | `Message`, `ErrorEvent`, `CloseEvent`; `onClose` is the close listener that an error removes |
| the promise of `start` of the sink (48-85) | `start`; `SeeStart` is the stream's reaction |
| `_closeWS` (99-110) | `heard`: the promise of the listener it adds; `socket` becomes `"closing"`, or stays as it is where `ws.close` throws for a reason that is too long |
| `write`, `close`, `abort`, `cancel` | `Send`/`Write`, `Close`, `Abort`, `Cancel` |
| readable and writable stream (external) | `reader`, `unread`; `writer`, `queue`, `call` |

An action is a task (an event of the socket, a call of the user) or a microtask
(what the streams do next); `Quiet` says that no microtask is left, and a task
waits for it. A failing socket fires an error and then a close event, between
which a user has no turn. Microtasks run between the two where the host calls
each listener on its own, and do not where it fires both from one function:
`checkpoint` is chosen at the start, so both hosts are checked. A stream that
becomes errored rejects a `close()` that was asked for when the sink's abort has
settled, and at once where there is no abort (`FinishErroring`, `FinishSink`): a
`close()` behind an abort that is overtaken waits with it (`Overtaken`).

## Runs

Deadlock is checked in every run but `packet_stream`, `msgpack_stream`,
`websocket` and `packet_relay`: a connection ends, a stream that was given an
error stays so, a socket that is closed leaves nothing to do, a packet that is
refused goes nowhere.

| run | instance | question |
|---|---|---|
| `mqtt_requests` | 3 callers, 2 identifiers, no closer | do replies reach their callers; does the client implement `RequestReply` |
| `mqtt_lifecycle` | 1 caller, 2 closers, keep alive, every kind of limit; `FairSpec` | one handler, no leaked connection, bracketed stream, ping only in its session, `open()` at the writes of `close()` included; close after DISCONNECT returns, calls of a session settle, a silent broker is noticed |
| `packet_framing` | the widths of the code; every length within 40 of a boundary between 1, 2, 3 and 4 bytes | does reading an integer undo writing it, over the bytes `finalizeMessage` makes room for |
| `packet_stream` | digits of 1 bit, up to 3 bytes of length; every wire of up to 3 packets, refused and malformed ones included, or of one with the first byte of another; cut anywhere | are packets whole, in order, once and with their last byte, wherever the wire is cut; do the packets that were written arrive; does the stream implement `InOrderDelivery` |
| `packet_writer` | bytes 0..7, up to 2 bytes of length, a prefix of 1 byte, bodies up to 6 bytes in a buffer of 6, limits 5, 15, 16 | does the body survive growth and reuse; is the packet what the reader reads |
| `packet_relay` | the widths of the code; every type with every property alone (values on both sides of each test) and with all of them, wills, flags, lists; all 341 topic filters of up to 4 characters, some with other characters, and wires of other programs; texts with characters of up to 4 bytes, cut and malformed ones and byte order marks; three ways of reading | do packets keep their meaning, is what was read writable, does a body cut off anywhere agree with the whole, are filters judged rightly |
| `msgpack_serializer` | bytes of 2 bits; up to 2 values on both sides of every boundary between formats, nested ones, ones that throw | are values read back, is a cut value incomplete at every byte, is the format the smallest, is what an exception leaves no value |
| `msgpack_stream` | wires of up to 3 values of 1 to 3 bytes, refused ones and a starving handler among them; cut anywhere, empty chunks included; `FairSpec` | is the cut invisible, what does an error cost, does every value arrive, does the stream implement `InOrderDelivery` |
| `websocket` | 2 messages, 2 chunks, both hosts; `FairSpec` | do both streams end as the socket did, when does `close()` resolve, do calls settle but those an overtaken abort holds up, when does a listener throw |

Bounds of the client. Two identifiers and three callers are the smallest instance in which an
identifier is freed and reused while another is held and in which the table is
full for a third caller; a fourth caller only repeats the third. Two closers
are needed for a second close() that resumes after, or writes across, the first
one's end, and for an `open()` between the two. `OpensAmid` names the awaits of
`close()` at which the program may call `open()`: a bound on the instance and not
a guard of the code. Another bound is that `open()` follows a handler that has
returned (`hpc = "done"` in `Open`): what two handlers do to each other once
`OneHandler` is broken is not modelled. Connections, sessions and calls are not counted: the state is
finite, so the runs cover any number of reconnects. `MaxPingWrites == 2` bounds
the PINGREQ writes under way.

Bounds of the packets. The lengths of the stream's packets reach two and three
bytes of length, so a cut can fall before, within and behind each part; three
packets let one be the first, one be between and one be the last of a chunk, and
let a refused one have packets on both sides. The writer's smallest buffer has
room for three bytes of body: growth happens within an array, within a string
and more than once, and later packets find the larger buffer with what earlier
ones left in it. The strings of `packet_writer` fit their prefix; what a longer
one does is under the divergences. Limit 5 refuses the longest
bodies, 15 is the largest the setter takes and 16 the first it refuses.

Bounds of the codecs. The formats of MessagePack scale with the width of a byte:
with 2 bits those of 1, 2, 4 and 8 bytes end at 4, 16, 256 and 65536, and every
boundary has a value on both sides; a length of 256 bytes is the first that has
no header and throws. `MaxSafe` is 8191, as safe integers have more than 32 and
less than 64 bits. Two calls show that one value ends where the next begins.
Values are nested up to two deep; the proofs are for any width, any values, any
depth and any number of calls. A stream with three values has one before, one in and one behind each
cut. `packet_relay` uses the widths of the code, since the codec has no loop whose
length depends on them: each property is written and read by itself, so one at a
time and all together are the cases. `MaxQueue` 2 lets one message be read and
one be left when the socket ends; the proofs are for any value of it.

Fairness (`Fairness` in `MqttClient`). Weak fairness of the handler's steps, of
writes, of the interval and of the resumption of `close()` is what the event
loop and a transport with its own timeouts give. A broker answers each request
it was sent and ends the connection after a DISCONNECT, as MQTT requires. No
fairness is assumed for PINGRESP, for calls of the user or for the end of a
connection by itself, and connecting may fail for ever. In `PacketStream` only the steps of a call of
`transform` are fair: it is a synchronous function, and nothing is assumed of
further chunks. In `MsgpackStream`, whose question is whether values arrive, the
reader also reads on and a chunk that is not empty is given again and again
(strong fairness: empty chunks may come between). In `WebSocketStreams`
microtasks run, the second event of a failure follows the first, a socket that
connects opens or fails and one that closes is closed, both by a timeout; an open
socket may stay open for ever, and the user may do nothing.

### Where the code departs from its documentation

Each of these is a run that TLC must find violated; the finding in
`PROJECT.json` quotes the line.

| run | what the run shows |
|---|---|
| `close_while_connecting` | `close()` before CONNECT is written does not end the client: the session is opened, `close()` waits for ever |
| `open_amid_close` | two `close()` calls after a refused CONNACK, one microtask apart, and an `open()` behind the first: the second, at its last await (`Client.ts:368`) when `open()` runs, closes the fresh stream and forgets the handler that was started (370-375); the next `open()` does not throw "open was already called" and starts another beside it |
| `writer_limit` | the maximum packet size is compared with the body: a packet with its header may be up to 4 bytes larger than the limit |

Others follow from reading the code next to its documentation, without a run:

- `subscribe()` without a connection reserves an identifier and waits, where
  "@throws If no connection is established" is written (`Client.ts:671, 682`).
- A refusal is final (`Client.ts:424-427`) unless closing the refused connection
  fails: then the catch clause retries.
- The packet size limit of an earlier session stays in the writer and can refuse
  the CONNECT of the next (`Client.ts:442, 221`).
- The space ensured for a string leaves out its length prefix
  (`serialize.ts:114`): a string of 3-byte characters can be refused for want of
  room.
- `isConnected` stays true after a failed handshake, because `#writable` is made
  undefined only at the end of a session (`Client.ts:320-324, 473, 620`).
- `reconnectTime` 0 does not disable reconnecting, and the end of a session
  reconnects without the wait that failed attempts have (`Client.ts:55,
  399-402, 626-629`).
- The length prefix of a string of more than 65535 bytes wraps
  (`serialize.ts:126`), where `addBinaryData` throws (96-99).
- `TextDecoder` is used without `fatal`: `getUTF8String` and
  `PublishDeserializeOptions.UTF8String` (`deserialize.ts:92-93`) do not throw on
  bytes that are no UTF-8 but replace them. A byte order mark is dropped, so a
  topic of the user that begins with one is read as another, and refused when a
  `/` stands behind it.
- CONNACK's `server_keep_alive` 0, `maximum_QoS` 0 and `retain_available` false
  are tested for truth and never written (`serialize.ts:445-452, 489`).
- When a will's payload cannot be read as text, its length is read again two
  bytes further (`deserialize.ts:309-313`); a binary one comes back as text.
- A topic with a leading `/`, or an empty one beside a topic alias, is refused
  although MQTT allows both (`packets.ts`).
- A MessagePack map with nil or a boolean as a key is written but cannot be read;
  `addBigInt` beyond 64 bits wraps around.
- An extension handler that reads beyond its data throws the exception that
  stands for missing data, so the stream waits for ever (`msgpack/mod.ts:751`).
- `cancel()` of a WebSocket's readable stream closes the stream, and the close
  event closes it again: an exception nobody catches. An abort while the socket
  connects in vain waits for ever on hosts that run no microtasks between the
  error and the close event, and so does a `close()` that was called before it.
  An abort with a reason of more than 123 bytes is rejected and leaves the socket
  open, as `ws.close` throws.
- The setter of `maximumPacketSize` refuses values above 268435455, which MQTT
  allows a broker to announce (`serialize.ts:245`).

## Proofs

`MqttClientProofs` proves, for any callers, closers, identifiers and limits
that satisfy `ConstantsAssumption`:

- `TypeCorrect`, `HandlerIsAlone`, `ConnectionsAreHeld`, `SessionsAreBracketed`:
  `Spec => []` of `TypeOK`, `OneHandler`, `NoLeakedConnection`,
  `StreamBracketsSessions`. Inductive are `HandlerInv`, which has
  the first and the third with bounds of the stream's sessions (`StreamBound`:
  they also hold of a stream that was replaced amid a session), and, beside it,
  `AloneInv`: `OneHandler`, `StreamBracketsSessions` and that a `close()` at its
  last await finds a handler that has returned.
  `HandlerIsAlone` and `SessionsAreBracketed` assume that no `open()` falls on the
  last await of a `close()` (`"passing" \notin OpensAmid`): the code has nothing
  that keeps a program from it, and `open_amid_close` is what then happens. The
  theorems say that this is the only way to a second handler or a stream without
  brackets, opens at every other await of `close()` included. The other theorems
  hold for any `OpensAmid`, but then only up to a second handler beside a
  forgotten one, which `Open` does not start (see the bounds).
- `RepliesReach`, `SlotsMatch`: not inductive alone. `RepliesInv` adds that no two
  identifiers hold one promise, that a promise is pending exactly while it
  holds one, and that requests are outstanding only while the writer's lock is
  held, so that none is left when the table is replaced.
- `PingKeepsToSession` (`PingOnlyInSession`) needs `OneHandler`, because `open()`
  moves the handler; `RequestsEnd` (`RequestsDieWithConnection`) needs
  `NoLeakedConnection` to place a request that is sent, and `SlotsMatchCalls` to
  know that the calls that are rejected with a session are those on their way.
- `ClientImplementsRequestReply`: every step maps to a step of `RequestReply` or
  to a stutter; a reply maps to the answer to its own caller because of the two
  invariants above.
- `LeastFreeIsFree`: the identifier that is reserved is free, from the
  well-foundedness of the naturals.

`PacketStreamProofs` proves, for every set of wires, any base of the digits
and one to four bytes of length (`FramingAssumption`, `WiresAssumption`,
`SendingsAssumption`):

- `StreamTypeCorrect`, `NoByteLost` (`BytesAccountedFor`), `KeptIsIncomplete`
  (`OnlyIncompleteKept`), and two the refinement below rests on, which
  no run repeats: `PacketsInOrder` (`PacketsOfTheWire`: each
  packet begins where the one before ends) and `RefusalIsLast`
  (`NothingAfterRefusal`). The inductive invariant `Inv` (theorem `StreamInv`) is
  their conjunction with two more facts: the chunk and what is kept lie within the bytes received, and a
  call that goes on after an error has consumed a packet it did not enqueue.
  The packets of the wire follow from the bytes being accounted for, because a
  header and a frame that lie within a window of the wire are those of the wire (`WindowHeader`, `WindowFrame`, `WindowWhole`); that joining and cutting
  keep such a window is `JoinedPieces` and `RestOfPiece`.
- `StreamImplementsInOrderDelivery`: `Enqueue` maps to the delivery of the next
  promised packet, `Refuse` and `Throw` to the break, every other step to a
  stutter. What was enqueued are the first of `PacketsFrom(wire)[0]`
  (`FirstPackets`), by induction on their number from `PacketsOfTheWire` and
  `NothingAfterRefusal`; that of the state behind the step names the packet.
- `PacketsArrive` (`WrittenPacketsArrive`): a wire that is made of packets
  has them at the places `PieceEnds` adds up (`PlacedPieces`); it gives no reason for an error (`NoError`), the
  boundaries lie between the pieces (`PieceBoundaries`), and when all bytes were
  given every packet was enqueued. `PacketsReadBack` of `PacketWriterProofs` says
  of what `finalizeMessage` returns that it is such a piece, so the two together
  lead from the body that was written to the body that is read, whatever the
  network does to the chunks.

`WebSocketStreamsProofs` proves, for any `MaxQueue` and both kinds of host:

- `StreamsEnd` (`BothStreamsEnd`), `CloseIsClean` (`CloseMeansClosed`) and
  `UncaughtFromCancel` (`UncaughtOnlyAfterCancel`), from the inductive `Inv`:
  `ReaderInv` (the close listener is registered exactly until the socket is
  closed, and who ended the reader), `WriterInv` (the promise of `start` and the
  writer follow the socket) and `CallsInv` (the sink runs one call at a time; one
  that waits on a closed socket is an abort that was overtaken). The last is what
  `BothStreamsEnd` needs: without it a promise of `_closeWS` could be left over.

`PacketWriterProofs` proves of the header, for any width of a digit and one to four
bytes of length (`FramingAssumption`, `DigitAssumption`):

- `LengthReadsBack`: every length up to `MaxLength` is written over as many bytes
  as `lengthVariableByteInteger` says and is read from them as itself;
  `IntegersReadBack` is the same of `MCPacketFraming`'s variable
  (`IntegerReadsBack`), with the integers that are cut off. By induction on the
  number k of digits, an integer in Base^(k-1)..Base^k-1 is written as k bytes
  whose last alone has no continuation bit and whose digits add up to it
  (`DigitsReadBack`); that its bits, rounded up to digits, are k is
  `LengthIsDigits`.

and of the writer, for any bytes, limits and strings that satisfy the assumptions
of `PacketWriter`:

- `BodyIsHeld` (`BufferHoldsBody`) and `PacketsReadBack` (`PacketReadsBack`), from
  the inductive `WriterInv`: the buffer and the body are bytes, the position
  stands behind the reserved bytes and the body, and these lie in the buffer as
  they were written (`Holds`). `BufferHoldsBody` alone is not inductive: a packet
  is begun in the buffer a former one has left, and the position has to be
  behind the header for the header to fit before the body. An operation changes the bytes it
  writes and no others, growing included (`EnsuredFacts`, `PutFacts`); the bytes
  of a string are a fold, whose type is all that is needed. That the header is read back is `LengthReadsBack`.
  `StringsAssumption` says that a string fits its length prefix; a longer one
  wraps the prefix, which is under the divergences.

`MsgpackStreamProofs` proves, for any wires of bytes and any `Deserialize` that
reads forwards (`DeserializeAssumption`):

- `TypeCorrect` (`TypeOK`), `ChunksNotSeen` (`ChunksInvisible`) and `ErrorCosts` (`ErrorCostsOneChunk`), from the inductive
  `MsgpackInv`: the chunk and what is kept end where the bytes given so far end
  (`Place`); what was enqueued, followed by the values from the reader's place
  on, are the values of the wire, whatever number of bytes behind the given ones
  is added (`Parsed`). None of the three is inductive alone, as they speak of the time
  between two calls or of the whole wire.
- `StreamImplementsInOrderDelivery`: a step of the reader or of `transform` that
  changes what was read maps to the delivery of the next value, because what was
  read before and behind it are first values of the wire (`StepReads`,
  `DeliveryStep`); `Fail` maps to the break.

`MsgpackSerializerProofs` proves of `deserialize`, for any width of a byte, any
extension handlers and values nested to any depth:

- `DeserializeReadsForward`: `deserialize` satisfies `ReadsForward`, so the
  theorems about the stream hold of the codec. A reader that sees the bytes of
  another, and perhaps more, finds the same (`Carries`): numbers, texts and
  extensions because they ask for the same bytes, the items of a map or an array
  by induction on their number (`SameItems`), nested values by induction on the
  bytes that are left (`SameValue`).
- `CutIsMissingData`: every beginning of a value is missing data, never another
  value and never an error.
  Handlers are assumed to read a fixed number of bytes of their extension
  (`MsgpackAssumption`).

and of the `Serializer`, for any even number of values of a byte, any values,
nested to any depth, and any number of calls of `add`:

- `EveryValueReadBack` (`ValuesReadBack`), `TornNeverRead` (`TornIsNoValue`),
  `CutAlwaysIncomplete` (`CutIsIncomplete`) and `IntegersSmallest`
  (`SmallestInteger`).
- They rest on one notion. A call of `add` is faithful (`IsFaithful`) when what it
  wrote is read as the image of its argument, wherever in a buffer it lies, or,
  when it threw, when a reader of just these bytes finds no value. That a value is
  read in any buffer and with anything behind it is what makes the notion
  inductive: the parts of an array are faithful before it is. An argument without an
  image (`Unreadable`: nil as a key, an extension nobody handles) has to be refused
  or read over exactly the bytes written for it, so that what holds it stays
  readable up to there or fails.
- Scalars are faithful type by type (`ScalarFaithful`): the format that is chosen
  has a field that the integer or the length fits (`UintField`, `IntField`,
  `SizedHeader`), and a field is read as what was written into it (`UintOfBytes`,
  `Uint64Read`, `Int64Read`; the two halves of a timestamp: `AddDateReads`). An
  array or a map is faithful when what is in it is (`ContainerFaithful`), by
  induction on the parts the loop has added (`PartsFound`), a throw among them
  included. All values are, by induction on their depth (`OutputFaithful`).
- The invariant is `SerializerInv`: each recorded call threw as `Output` says, and
  the buffer is what the calls wrote, one behind the other. `ValuesReadBack` alone
  is not inductive, as it says nothing of a buffer with an unreadable value in it,
  nor what the bytes are to which the next call appends. With it, `AllRead` reads
  call by call; `CutIsIncomplete` follows from reading forwards (`SameValue`): a cut
  value that was found would be found, and end, in the whole as well.
- `IntegersSmallest`: an integer that is read from a field lies within that field
  (`NumberWithin`), and the fields narrower than the one `addInt` chose are those
  the integer does not lie within (`NoShorter`).
- Assumptions: `BuffersAssumption`, `MsgpackAssumption` and `SerializerAssumption`
  bound the parameters by their values in the code (the safe integers are more
  than a word and less than half of 64 bits; a second's nanoseconds fit 30 bits);
  `ValuesAssumption` says that a value is a scalar or a sequence of less deep ones,
  shorter than the arrays of TypeScript can be. A value that contains itself, on
  which `add` does not return, has no depth.

`PacketRelayProofs` proves, for any packets of the types of `packets.ts`, any wires of
other programs and all ways of reading, with the widths of the code
(`PacketsWidths`, `PacketsAssumption`, `WiresAssumption`):

- `PacketsWellTyped` (`TypeOK` of `PacketRelay`): what a serialize function writes are
  bytes, and what a deserialize function returns is a packet (`IsPacket`): it has
  the fields its type requires, no others, and each holds what `packets.ts` says.
  The invariant is inductive as it stands; the work is in the two halves of a
  step, `WireOfPacket` and `PacketOfWire`. For the second, each reader of a value is
  of its kind (`ValueRead`), the properties that `readProperties` has collected so
  far are properties, by induction on the turns of its loop (`LoopRead`), and what a
  packet is read from fits its type, reader by reader (`ConnectRead`, `ListRead`, ...).
  The run does not repeat this one.
- `CutBodiesAgree` (`CutBodyAgrees`): two readings are compared, of a body and of its
  beginning (`Cut`). Each reader that finds something in the beginning finds the same
  in the whole, with less left behind it (`ValueFollows`), so several values read
  one after the other are the same (`AllFollow`), and repeated entries a prefix
  (`ManyFollow`). The one exception is `readProperties`, which returns nothing at the
  end of a body: then all that follows is left out, and the packet has fewer fields
  (`PartFollows`). `CutOffAgrees` puts these together for each packet. A payload
  that is read as text is a beginning of the whole one, or such a beginning and
  a replacement for the character that was cut (`DecodedCut`): a character that is
  complete is decoded as before, and of the bytes behind the last complete one
  only the first gives anything.
- `FiltersAreJudged` (`FiltersJudged`): the validator splits a filter into levels. By
  induction on its bytes, the levels so far and the bytes so far tell the same
  (`NextLevel`, `SameLevel`): a wildcard stands alone in its level exactly when it
  has a slash or an end on both sides (`FilterFacts`). The rest is the way of one
  filter through `ReadList` and of its bytes through `DecodedText`.

Induction and recursion. The library's induction theorems take an operator as a
parameter, which the provers cannot instantiate. `DataLemmas` states
what is needed of them with sets and functions: `LeastRank` (a set whose elements
have ranks has one of least rank), `NatSteps` (a set that holds 0 and the
successor of each of its numbers holds all naturals) and `Recursion` (a recursion
whose ranks fall has a function that follows its equation), from the
well-foundedness of the naturals.

Only model-checked:

- the liveness properties and `TransformReturns`: fairness is out of the prover's
  reach;
- `KeptIsCutOff`, which is about the sizes of the values `MCMsgpackStream` has; of
  the codec itself, `CutIsMissingData` and `CutAlwaysIncomplete` say what it stands
  for;
- `MeaningKept`, `OwnWiresAccepted` and `ReadCanBeWritten` of `PacketRelay`: that what
  one client writes another reads with the same meaning is an argument per
  property and per packet about both codecs at once, and `ReadCanBeWritten` rests on
  what MQTT forbids other programs to send, which `WiresAssumption` does not say.

## Not modelled

Besides the components `PROJECT.json` lists as such:

- Client: unhandled rejections; a broker that breaks MQTT; late timers; what the
  events of the stream carry.
- `DeserializeStream`: its readable side, the queue and the backpressure (after
  `controller.error` packets that were enqueued and not yet read are lost); for
  MessagePack they are in `MsgpackStream`.
- Writer: surrogate pairs; `addProperties` writes into a writer of its own, which
  `MqttPackets` has as a value and `PacketWriter` leaves out.
- Packets: which exception is thrown; texts and data of 65536 bytes and more;
  reason codes are numbers, not the names of the enums.
- MessagePack: floats are their bytes, so rounding to 32 bits is dropping half of
  them; arrays of wider elements stand for all typed arrays; invalid UTF-8 and
  surrogates; the growth of the buffer, which is `PacketWriter`'s.
- WebSocket: what messages carry, and the size of what is sent; backpressure of
  the readable stream, which the source does not have; `ws.send` after the socket
  has begun to close drops the data, which the sink is not told.

## Plan

Done: `MqttClient` and `RequestReply`, `PacketFraming`, `PacketStream`,
`PacketWriter`, `WebSocketStreams` and `MsgpackStream`, each with its proofs;
`InOrderDelivery` with the refinements of both streams;
`DataBuffers`; `Msgpack` with the proof that it reads forwards, and
`MsgpackSerializer` with the proof that it reads what was written; `MqttPackets`
and `PacketRelay` with the proofs of its types, of cut bodies and of filters.

What would come next, in this order:

1. `MeaningKept` proved, property by property: that `PropertyBytes` and `ReadValue`
   undo each other for each kind, then for each packet.
2. `KeepAlive`: the ping with a clock, exact intervals, `server_keep_alive` 0,
   `reconnectTime` and the deadline of the handshake.
3. `PacketStream` with the client's reader and the queue between them, so that an
   error meets packets that were not read.
