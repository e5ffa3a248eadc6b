# A verification of wifi-nostd

wifi-nostd is a bare-metal driver for Intel WiFi adapters: one crate, one
thread, no operating system beneath it.  These TLA+ modules model the parts of
it that keep state or walk over data, TLC checks them on small instances, and
TLAPS proves every safety property of the passing runs for every value of the
constants.

## 1. The system

| part | source | state | operations |
|---|---|---|---|
| Controller | `driver.rs` | `state`, `mac_addr`, `connected_bssid`, `ptk`, `ccmp_pn`, `cmd_seq` | `init`, `load_firmware`, `scan_networks`, `connect`, `disconnect`, `transmit`, and the wait loops |
| Transmit rings | `tx_rx.rs` | descriptors, pending buffers, two cursors; the device has a third | `enqueue`, `complete`, `free_slots`, `poke_tx_write_ptr` |
| Receive ring | `tx_rx.rs` | buffers, status entries, two cursors | `receive`, `recycle`, `poke_rx_write_ptr` |
| Scan results | `scan.rs` | the networks found | `add`, `process_beacon`, `finalize` |
| Firmware image | `firmware.rs` | the offset of the walk, four sections | `parse_firmware`, `upload_to_device` |
| SHA-1, HMAC, PBKDF2, PRF, PTK | `wpa.rs` | a partial block and its length | `update`, `finalize`, pure functions |
| EAPOL-Key | `wpa.rs` | none | `parse`, `message_number`, two builders |
| CCM | `wpa.rs` | none | `ccmp_encrypt`, `ccmp_decrypt` |
| AES-128 | `wpa.rs` | round keys | `encrypt_block` |
| 802.11 frames | `ieee80211.rs` | the position of an iterator | parsers and builders |
| Commands | `commands.rs` | none | `serialize`, `parse`, builders |
| PCI detection | `pci.rs` | the place of the walk | `identify`, `scan_pci_bus` |
| Reset and construction | `driver.rs` | none; the device's reset and access bits | `init`, `nic_reset` |

They interact through plain calls.  The controller owns two transmit rings (0
for commands, 1 for frames) and the receive ring; the device shares the rings'
memory and three kinds of register with it.  There are no callbacks and no
interrupts: a public call sends something, polls the receive ring a bounded
number of times, and goes on or returns an error.  What is hard is therefore

- the device, which runs concurrently with the driver on the rings;
- the air, where any frame may arrive at any poll, unauthenticated, and where
  an answer may come after its wait has ended;
- frames of the handshake that are lost, repeated or late, which the driver
  neither repeats nor checks beyond their number;
- failure half way: each `?` of `connect`, `disconnect` and `load_firmware`
  returns with the earlier effects in place;
- long sequences of calls: nothing completes descriptors, `load_firmware` has
  no guard, the packet number restarts with each link;
- the boundaries of blocks, rings, frames and files.

What makes each part correct: the transmit ring is a bounded FIFO that never
frees a buffer the device may read; the receive ring returns every frame once
and whole; the controller's link, the firmware's station and key and the frames
sent agree, and data goes out only under the key of the link with packet numbers
that rise; a scan remembers the best frame of each access point; the walk
over an image finds its entries and nothing else; every byte hashed counts once
in its place; what was sealed, and nothing else, opens; keys are those of the
standard and both ends of a handshake have the same; a frame or command is read
as it was built, wherever it is cut; the walk over the bus finds the first
adapter, and only a device that was reset gets a controller.

## 2. The modules

`BoundedFifo` and `SecureLink` are abstract specifications.  A packet of
`SecureLink` has a place of its own, so that one sent twice counts twice; a key
may come back between two links (`ComesBack`), and only under such a key is a
second link or a second use of a number allowed.
`TxQueue` implements the first, `WifiController` the second, each by a
refinement mapping stated at the end of the module and checked as a property.
`Eapol` extends `Handshake` and gives its messages their bytes; `Hmac` extends
`Sha1` and `KeyDerivation` extends `Hmac`, as the functions call one another.
`Atoms` has the bytes they share with `Ccm`.  The other modules stand alone.  An
`MC` module extends what it instantiates; `MCParts` instantiates the modules
that share no state with each other, one of which moves in each behaviour. An
operator described as a slip, or named for one beside the operator it would
replace, is what a plausible mistake in that place of the code would be; it is
part of no specification.

**`TxQueue`** has the ring's fields under their own names, with `tfds` and
`pending_bufs` as functions from slots to buffers, and two cursors of the
device: the register `write_ptr` and `fetch_idx`.  `Enqueue` and `Poke` are two
steps because the code leaves the poke to the caller.  `FirmwareFetch` and
`FirmwareAck` are the device.  `Complete(idx)` is the code's; the controller
never calls it (see the findings), so `TxQueue` shows what the ring would do for
a caller that does.

**`RxQueue`** has both cursors unwrapped, as in the code.  The device writes a
buffer and then its status entry, in two steps.  A caller may hold the slice
`receive` gave it while the device goes on, and recycles it (`Recycle`) or drops
it (`Drop`, which is what `load_firmware` does).  The device is taken to know
which lap the register means, although the register does not tell it.

**`WifiController`** is the controller with the device and the air around it. A
step is a run of code from one wait loop to the next: the rings accept or refuse
inside it, and every `?` is a branch.  `pc` names the loop, `polls` what is left
of its bound.  Anything may be received at any poll, because nothing in the code
checks a sender, a sequence number or a MIC on receipt, and because a slot of
the receive ring is read again after a lap.  `stations` and `fw_key` are what
the commands in the ring leave in the firmware.  A ring is the sequence of what
was enqueued; the driver's rings never shrink.  Commands other than AddStation,
AddKey and RemoveStation are their sequence numbers.

A frame is a kind and an address.  `ReadsAs` says what
`CommandResponse::parse` makes of a frame that is no response: it reads the
first byte as an id, so EAPOL in two of its shapes passes for Alive or
NvmAccess, and six bytes of it for an address.  `IsMessage` says what
`EapolKeyFrame::parse` makes of an EAPOL message at the start of the buffer and
inside a data frame.  A temporal key is the access point, the driver's address
and the access point's nonce: the driver's own nonce is a function of its
address.  `Msg1Received` takes any nonce, new or old, as the code does; the
history variable `rederived` collects the keys that came back in this way after
data was sent under them, and is `SecureLink`'s `returned`.

**`Scan`**: `ProcessBeacon` is `process_beacon` with `add`, and `Finalize` the
stable sort.  Strength is kept as a number; the name stands for the fields that
are copied.  The controller passes the same strength for every frame, so its
`AddResult` keeps the first.

**`Firmware`**: the file is a sequence of bytes made from a list of entries and
cut anywhere; `begin` is where the entries begin, at 0x18 where the walk starts
or at 0x14 where the documented layout has them.  `WalkEntry` is one turn of the
loop and reads its two words from the bytes, four bytes each.  A section is a
slice of the file.  An entry starts where a file of those before it would end.
`WordAssumption`: types and lengths fit into 32 bits, and the instruction
section is a type.
`Upload` is the end of the staged copy, with the bounded wait for the status bit
as a choice.

**`Sha1`**: `Update` is the code's three parts in order over `buffer` and
`buf_len`; `HashFinalize` sends padding and length through `Update` as the code
does.  The compression function is abstract, a byte of the message is its
position.

**`Hmac`** computes `hmac_sha1` with `Update` and `Finalized` of `Sha1`: a key
that is padded or hashed, and two hashes of two updates.  Its reference is the
HMAC of whole messages.

**`KeyDerivation`** has one action for each turn of the loops of `pbkdf2_sha1`
and `prf`, over an HMAC whose bytes name their input, and `derive_ptk`. `Pbkdf2`
may be asked for any length; the PTK starts from one of `PSK_SIZE`.

**`Ccm`**: XOR is the symmetric difference of sets of atoms, and encrypting a
block yields atoms that name the block.  Between `Encrypt` and `Decrypt` the
frame, its header or its nonce may be altered.

**`Handshake`** is `do_4way_handshake` from message 1 to the installed key, with
the access point at the other end and the air between.  The air is a set, so
frames overtake one another; a frame may stay behind when it is received (a
copy, or the slot of the ring that is read again), and is lost at most `MaxLost`
times.  The access point is external: it does what 802.11 asks, sends a message
again with a new counter, takes an answer to any copy outstanding and checks its
MIC by comparing keys.  Two settings stay as they are over a behaviour: whether
the device hands EAPOL over inside data frames (`in_data`), where the driver's
parser finds none, and whether the access point compares the RSN element of
message 2 with that of the association request (`compares`), which differ, so
that it ends the association (`ApRefusesMsg2`).  A key is the PSK and the access
point's nonce, as the driver's nonce depends on its address alone; the access
point repeats no nonce.
`spoiled` and `stale` remember what ends the guarantee of `HandshakeCompletes`.
The controller's own `Message` actions leave out the other end; here it is, and
the rest of the controller is left out.

**`Eapol`**: a message is a sequence of bytes; the nonce, the counter and the
MIC are bytes that name what they are of.  `Parse`, `MessageNumber`, `BuildMsg2`
and `BuildMsg4` have the code's offsets and flags, `Layout` those of 802.11,
written independently.  `ApReads` reads the driver's frames by that layout and
takes the key data of message 2 as it comes; which element it should be is the
question of `RsnRepeated`.  `DriverDiscards` is the parser on a message behind
the header of a data frame.

**`Elements`**: a management frame is built from a header and a list of
elements, and cut anywhere.  `ParseStart`, `NextElement` and `ElementsEnd` are
`parse_beacon`; one turn of its loop is one element.  `ElementAssumption`: the
fields of a header have their widths, ids are bytes, payloads and names are
sequences of at most 255 bytes, and a byte of a payload is ASCII or no UTF-8.
`AuthFrame`, `AssocRequest`, `QosDataHeader` and `disconnect`'s frame are read
back with the module's own parser.

**`Commands`**: the six commands the driver sends, as bytes, and the firmware's
reading of each field at its offset, reserved fields and padding included.  The
band of a scan's channel is read for a channel of 2.4 GHz only: the code has
those of 5 GHz still to do (see the end of section 3).  `ChannelsToScan` is
`scan.rs`.
`CommandAssumption`: channel lists and names are at most 255 bytes, keys at most
32, and a sequence number has 16 bits.

**`Probe`**: one action for each way through the body of the walk
(`SkipNotIntel`, `SkipUnknown`, `Found`, `NothingFound`), and one for each
register write and poll of `nic_reset`.  Bus and device number are one slot
number, and an address is two words.  `Hidden` are the adapters in a slot whose
function 0 is of another vendor, which the walk takes for an empty slot.  The
device ends a reset and grants access in its own time or never; a
register read at the wrong address, or with memory space disabled, is all ones.

## 3. The runs

| run | what it checks | bounds |
|---|---|---|
| `tx_ring` | buffers stay alive until acknowledged, none leaks, the cursors keep their order, `free_slots` is exact, the ring is a FIFO | 4 slots, so that the ring fills and wraps, 4 buffers |
| `rx_ring` | the first lap is delivered once, in order, whole, and eventually; later laps at least deliver what belongs to the slot | 3 buffers, 7 frames received, 8 taken: over two laps |
| `controller` | `StationMatchesLink`, `ConnectedHasKey`, `CommandSeqIsIndex`, `FramesInProtocolOrder`, and `SecureLink` | rings of 11 entries: a link with data, its end, and a second link with data, or reloads in their place; 2 access points and 2 nonces, which may repeat, up to symmetry, 2 polls for each wait, 2 packet numbers |
| `calls` | every call returns | rings of 6 entries, 1 access point |
| `handshake` | both ends agree on the key, each frame is read as the message it is or, inside a data frame, not at all; where messages come bare and the RSN elements are not compared, the handshake completes unless an answer is lost, a wait runs out, a ring is full or an old frame is taken | 2 associations, so that frames of the first arrive in the second, each message sent twice, 1 frame lost, a right and a wrong passphrase |
| `parts`: scan and frames | the entries of a scan are the best frames and its list is sorted; a beacon says what the whole elements say; frames and commands are read back, but for the band of a scan's 5 GHz channels | scan: 3 access points, 2 names, 3 strengths of which one is too weak, 4 frames; beacons: 2 elements of 4 ids and 4 payloads, 4 headers of every length, every cut; names of 0, 1, 32, 33 and 255 bytes, packet numbers on both sides of the wrap |
| `parts`: cryptography | absorption and padding of SHA-1, HMAC, PBKDF2 and the PTK against the standards, CCM opens and rejects, no keystream twice | hash blocks of 8 with a length of 3, messages up to 40 bytes in every cut; keys up to 18 bytes; digests of 2 bytes with outputs of up to 6, up to 4 iterations; cipher blocks of 3, MIC of 2, texts up to 4 bytes, headers up to 2 |
| `parts`: bus and firmware | the first adapter that is not hidden is found, enabled alone, and reset before there is a controller; the sections of an image whose entries begin at 0x18; both end | 2 slots of 3 functions with every mixture of 5 kinds of cells, an address above 32 bits, 2 polls; 2 entries of 2 types and 3 lengths, one of each beyond a byte, every cut |

The bounds `MaxPolls`, `MaxPn`, `MaxFrames`, `MaxReads`, `MaxHeard`,
`MaxElements`, `MaxEntries`, `MaxTotal`, `MaxKey`, `MaxIterations`,
`MaxKeyLen`, `MaxText`, `MaxAad`, `MaxTries` and `MaxLost` cap what would grow
without end.  Two polls for each wait are enough for an
unwanted frame before a wanted one and for a timeout after either.
`MaxPn` also bounds the packets of one link, which the code does not.

The driver's own nonce is constant (`driver.rs:553`) and its packet number
restarts with each link (`driver.rs:652`).  So a message 1 that is repeated, or
read again from the ring, makes it use a key and its packet numbers a second
time.  `SecureLink` allows that for such a key and for no other: what
`ImplementsSecureLink` shows is that nothing else, no reload, refused command,
failed attempt or full ring, brings a key or a number back.  No sentence of the
source denies the case, so no run shows it as a violation.

The passing runs with many states: `controller` has 930,514 distinct states,
`handshake` 506,120 and `parts` 1,858,185; each takes one to three minutes.

`CHECK_DEADLOCK FALSE` stands where a system really ends: the frames of
`rx_ring` and the nonces of `handshake` are bounded, and a scan, a parse, a
hash, a frame and a walk over the bus are finished once.

### Findings

Each of these runs finds a state or step that contradicts a sentence of the
source; PROJECT.json quotes it.

| run | what it shows |
|---|---|
| `rx_stale` | after one lap `receive` returns old frames: a status length is never cleared |
| `header_pn` | the CCMP header carries the packet number after the one in the nonce |
| `eapol_in_data` | a message inside a data frame is discarded by the loop that waits for it |
| `rsn` | the RSN element of message 2 lacks its length byte and is not the one of the association request |
| `firmware_layout` | the walk starts at 0x18, the documented layout has the entries at 0x14 |
| `firmware_cut` | a file that ends inside a payload gives an image of the entries before it, not `None` |

Other things the modelling brought up, which a reading of the lines shows and no
run repeats:

- `driver.rs:438`, `448`: a failed call leaves `Scanning`, `Authenticating`,
  `Associating` or `Handshaking` behind, which no later scan or connect accepts.
- `driver.rs:234`: a reload whose firmware never comes alive leaves the state as
  it was, `Ready` perhaps, over a device whose firmware was replaced.
- `tx_rx.rs:140`: nothing calls `complete`, so a ring refuses for good after 255
  entries, although all of them may be acknowledged.
- `driver.rs:558-577`: the driver answers each wait once.  If message 2 or 4 is
  lost, the access point's copies are ignored or never waited for, and the
  attempt fails or leaves a driver connected to an access point that is not.
- `driver.rs:593`: the message number is all that is compared.  A message 1 of
  an earlier association makes the driver derive another key than the access
  point, and a message 3 of one makes it connect with it.
- `driver.rs:553`, `652`: a repeated message 1 brings a key and its packet
  numbers back (see above).
- `driver.rs:437`, `443`: whichever access point's authentication or association
  response comes is taken for the answer.
- `driver.rs:364`: any frame of more than 30 bytes is parsed as a beacon,
  without a look at its type.
- `driver.rs:753`: the authenticated header includes the duration field, which
  802.11 leaves out, and stops before the sequence control.
- `commands.rs:283`: a scan announces channels of 5 GHz, which its default list
  has, in the band of 2.4 GHz; the line itself marks this as still to do.
- `pci.rs:117`: a slot whose function 0 is of another vendor counts as empty, so
  an adapter among its other functions is not found.
- `pci.rs:195`: enabling the device writes back the status word it read and so
  clears latched errors.
- `driver.rs:199`: a device that is not there reads as all ones, which passes
  for a completed reset.
- `driver.rs:254`, `282`: `wait_for_alive` and `read_mac_address` never recycle
  the buffers they take.
- `driver.rs:230`: firmware is uploaded to a device that may be alive;
  `firmware.rs:207` asks for one that was reset.
- `tx_rx.rs:267`: the register is 0 when every buffer is available and when none
  is.
- `firmware.rs:233`: a section that is not a whole number of words loses its
  tail.

### Fairness

`WifiController` assumes weak fairness of `DriverStep`: a call in progress takes
its next step, because the thread that runs it runs.  Nothing is assumed of the
caller, the device or the air.  `RxQueue` assumes that the device finishes the
buffer it is writing and that the driver keeps polling and ends its use of a
slice; not that it recycles it.  `MCParts` assumes that the driver's walk,
waits and parser run, and nothing of the device.  `Handshake` assumes that the
access point sends a message it still has copies of, that each end takes frames
that are there, and not that a frame arrives: losing one is a step, at most
`MaxLost` times, and whoever gives up is free to.  The other specifications are
safety only.

## 4. The proofs

The assumptions are the named ones of each module: a ring has at least two
slots, the sequence numbers cover the ring, bounds are naturals, `None` is no
buffer, address or key.

**`TxQueueProofs`.** `TypeCorrect`, `CursorsStayInOrder`, `BuffersStayAlive`,
`NoBufferLeaks` and `RingImplementsFifo` hold for every ring size.  The
inductive invariant says how the slots divide: those from `read_idx` round to
`write_idx` hold a buffer that is also the descriptor's, all others none, no
buffer is in two slots, and the cursors' distances add up.  None of the
properties is inductive alone: an acknowledgement keeps buffers alive only
because `fetch_idx` is between `read_idx` and `write_idx`, which needs
`write_ptr` between them too.  The refinement maps `Enqueue` to `Put`,
`FirmwareAck` to `Acknowledge` and the rest to stutters.

**`RxQueueProofs`.** `TypeCorrect`, `FirstLapCorrect`, `DeliveryCorrect` and
`HeldIsSafe` hold for every ring size and number of frames.  `RingInv` adds to
them the order of the cursors, over all laps, and what a slot holds: a frame
whose number is the slot's, no later than the last begun.  Only with the lower
bound of `write_idx` over `held` does the held buffer stay out of the device's
reach.

**`WifiControllerProofs`.** `ControllerTypeCorrect`, `ConnectedIsKeyed`,
`StationFollowsLink`, `FramesKeepProtocolOrder` and `CommandNumbersAreIndices`
hold for every set of access points, names and nonces and every ring size.
`LinkInv` strengthens them by `PhaseInv`: each wait loop implies the state
shown, a target, and from the association on a station for just that target;
while firmware loads there is neither station nor key.  Without it a failed
connect could leave a station for another access point than the next link's.
`OrderInv` adds `ProgressInv`: each loop knows the kind and the address of the
last frame on the ring.  `SeqInv` ties the counter to the length of the ring,
which a refused command breaks, but only for a ring that is full for good.

`ControllerImplementsLink`: the controller implements `SecureLink`, for all
constants and whatever nonces the messages carry.  `KeyInv` is added to
`LinkInv`: the key being agreed was used by no packet so far or is one that came
back, and so for the key of the link, under which every packet number is behind
`ccmp_pn` otherwise.  With it a message 1 with a used key's nonce maps to
`ComesBack`, a link coming up to `Establish`, a packet to `Send`, or to `Skip`
when the ring refuses it, a link going down to `Release`, and every other step
to a stutter.

**`HandshakeProofs`.** `HandshakeTypeCorrect`, `OpenHasOneKey` and
`ConnectedHasTheKey` hold for any passphrases, nonces, retries and losses.
Neither agreement is inductive.  `PhaseInv` bounds the counters, without which a
message would leave its type.  `NonceInv` says that whatever is on the air or in
use was handed out, so a new association starts from a nonce nothing old has.
`KeyInv` speaks of the association in progress: every answer with its nonce was
made under the driver's present key, the access point's key is the driver's, and
a message 3 with its nonce says that the access point has one. The last is why a
driver that only counts messages ends with the right key.

`FramesAreReadBack` is about the bytes of these messages, for any nonces and
counters.  Bare, each is read as the message it is; inside a data frame none is
recognised, as the header's second byte is not the type the parser wants.  The
layout of 802.11 is cut into its parts, each with its offset and
length (`LayoutShape`), and the parser is shown to read each part at its own.
The two builders are shown to write that layout with the MIC in place, although
they sign a frame whose MIC is zero and overwrite it afterwards
(`PartReplaced`).  It is no property of single frames: `KeyedInv` says that a
message to the driver carries a key unless it is message 1, without which a MIC
could be missing; that the access point has a key before it sends message 3
comes from `KeyInv`.

**`FrameProofs`** has what is heard and said.  `ScanTypeCorrect`,
`EntriesAreUnique`, `EntriesAreBest` and `ListIsSorted` hold for any access
points, names, strengths and length of a scan.  `BestInv` says of each entry
that it is the best frame of its access point and of each frame loud enough that
its access point has an entry, which is what makes a frame with a new BSSID the
best one so far.  `DiscoveryInv` says that entries stand in the order their
access points were first heard.  For the list, the ranks `Finalize` gives are
shown to be a permutation: a strict total order on finitely many places.

`BeaconIsAsSent` holds for any header, any number of elements and every cut.
`ElementsStand` places the elements in the frame by induction on their number;
`ElementFound` and `NoneBehind` say that the iterator, standing at the start of
an element, takes it exactly if it arrived whole.  `BeaconInv` is the invariant:
the walk stands at the start of element k, every element before k arrived, and
what is read so far is what those elements say (`Says`).  The property itself
speaks of finished walks only.

`DriverFramesReadBack` reads the four frames for any name and packet number.
Since an element's length decides where the next one is looked for, the
association request is cut at three places (`AssocPlaces`), and the recursive
function that reads its elements is shown to exist before it is unfolded
(`WalkExists`).  `CommandsAreReadBack` does the same for the six commands; of
the scan's, the head is 41 bytes whatever the name (`NameFieldLaid`: padded,
exact or cut), and the entries of the channels stand four bytes apart
(`EntriesOfChannels`); `ZerosStand` has the reserved fields.  The band in those
entries is shown to be right for 2.4 GHz; for 5 GHz it is not.  Of both the
state is only what was built last; the work is the layout.

**`BringUpProofs`** has what comes before the radio is up.  `WalkFindsTheFirst`,
`NoOtherIsEnabled` and `ControllerHasAccess` hold for any number of slots,
functions and polls.  `WalkInv` says that no adapter but the hidden ones is left
behind the place of the walk, `DeviceInv` that the two registers, masked, are
the base address of the device found, and `RegisterInv` that access is granted
only after a reset that ended, whichever way the first wait went on.

`SectionsAreEntries` holds for a file of any number of entries with types and
lengths of 32 bits, cut at any byte, whose entries begin at 0x18; for the
documented 0x14 it is false, as `firmware_layout` shows.
`EntriesPlaced` says by induction where each entry starts and what its words
are.  `ImageInv` has the walk at the start of an entry, all entries before it
whole, and each section the slice of the last of its type among them; at the end
of the walk no whole entry is left (`NoneFollows`), also when the cut falls
between a payload and its padding.

**`DataFacts`** has what proofs about sequences of any length need.  The
library's induction theorems take an operator for a parameter, which the provers
cannot instantiate, so `NatByInduction` is stated of a set of naturals; it is
proved from the finite sets of the library by way of `NatLeast`.  The rest is
division, slices and concatenation, and the layout of data: `Has` and `Sized`
say which bytes stand where, for parts put behind one another and for a
flattened list of entries of any sizes or of four bytes each.

**`WpaProofs`** has the cryptography, for blocks, digests, keys and texts of any
size.

- `HashIsStandard` and `HmacIsStandard`.  `HashInv` says that a hasher has
  `Absorbed` what it was given: the blocks compressed and the first `buf_len`
  bytes of its buffer are the message, cut into blocks, and the buffer is not
  full.  `UpdateAbsorbs` shows that an update of any length keeps this, through
  each of the three parts of `update`; `FinalizedAsStandard` that the code's
  padding, computed from `buf_len`, is the standard's, computed from the whole
  length.  The property itself, of the finished hash only, says nothing of the
  updates before it.  HMAC follows, since its hashes are two updates each.
- `PskIsStandard` and `KeysAreStandard`.  `KeyInv` says what the loops have
  reached: the output is the standard's up to the current block, the chain and
  the sum of the block are the standard's up to the current iteration, and the
  PRF likewise.  That the standard's chain exists for any number of iterations
  is by induction (`ChainExists`), and that the input of a digest is the
  standard's, label, zero byte, data and counter, is `InputIsStandard`.  That
  both ends derive one key is by cases on the order of the addresses and of the
  nonces, equal ones too.
- `SealedOpensUnaltered` and `KeystreamIsUsedOnce`.  `CcmInv` says that what is
  on the air is either sealed under the receiver's nonce and header, or will be
  rejected; a frame is altered once.  The former rests on `SealedOpens`: the
  keystream undoes itself, and the tag is computed again from the same text.
  The latter is the work: the tag tells everything it was computed from.  A
  chain of blocks starting from one formatted block equals another only if their
  starts, their blocks and their lengths are equal, by induction on the blocks,
  because the cipher is ideal (a byte of an encrypted block names the block) and
  because plain bytes carry none of its bytes, so an encrypted block can be told
  from what is added to it.  Every alteration changes one of the header, the
  nonce, the length, the text or the masked tag.  `KeystreamIsUsedOnce` needs
  `CcmSizeAssumption`: the counter does not wrap within a frame.

`HashInv`, `KeyInv` and `CcmInv` speak of alphabets that are infinite sets, so
the runs check the properties they imply and not the invariants.

Only model-checked are the liveness properties, which are out of the prover's
reach, as ENABLED is: `EveryFrameDelivered`, `EveryCallReturns`,
`HandshakeCompletes`, `ParseReturns` and `BringUpReturns`.  Every other property
of a passing run is stated by a theorem.  The proofs are of each component's own
specification; `MCParts`, where one of several components moves, is for TLC.

## 5. What is not modelled

- `AES-128` (`wpa.rs:555-580`, `760-904`) and the compression function of SHA-1:
  fixed arithmetic without control flow, which a test vector covers.
- The names of `lib.rs`, the tables of device ids (constants of `Probe`), the
  getters, `signal_quality`, `ip_config` (it never gets as far as an exchange),
  and logging.
- The sequence number of a response, which the code parses and never compares:
  the firmware's answers carry no request in `WifiController`, so any response
  of the right id is already taken for the awaited one.
- Of the upload, the copy itself: `firmware.rs:233` copies whole words and loses
  the rest of a section, a single division.
- The overflow of CCM's block counter, which needs a frame of a mebibyte
  (`CcmSizeAssumption`).
- The lap of the receive register: the code writes 0 for a full ring and for an
  empty one, and `RxQueue` takes the device to know which.

## 6. What could come next

1. The controller composed with `Handshake`'s access point and with the rings,
   where both ends see the other's failures.
2. Responses that carry the number of their request, to say which command a
   late one answers.
3. The step before liveness: that a call's bound of polls falls with every poll,
   and a walk's place rises, for every value of the constants.
