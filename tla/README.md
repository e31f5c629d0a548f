# Verification of ur.js

TLA+ models, TLC runs and TLAPS proofs for the Uniform Resources (UR)
implementation in this repository: the Rust crate `bcur`, its command line
`bcur`, the registry crate and their TypeScript twin. A UR carries a binary
message as text, either whole (*single-part*) or as an endless *fountain* of
parts shown as animated QR codes, from which a receiver that misses frames
rebuilds the message.

## 1. Inventory

| Component | Source | State | Operations |
|---|---|---|---|
| Fountain decoder | `crates/bcur/src/fountain/mod.rs` `Decoder` | phase, locked metadata, rows in reduced echelon form, rank, recovered, processed, last indexes | `receive`, `progress`, `state`, `reset`, `into_message` |
| Fountain encoder | same file, `Encoder` | message chunks, checksum, sequence number, last indexes | `new`, `next`, `is_complete` |
| Part and its CBOR | `fountain/mod.rs` `Part`, `fountain/part_cbor.rs` | none | `Part::new`, encode, decode |
| Chooser, sampler, generator, CRC-32 | `consensus/` | generator words | degree and index choice for a sequence number |
| UR encoder | `crates/bcur/src/ur/mod.rs` `Encoder` | fountain encoder, the precomputed single-part line | `new`, `next`, `is_complete` |
| UR decoder | same file, `Decoder` | fountain decoder, accept list, type lock, terminal state, processed | `receive`, `accept`, `progress`, `state`, `reset` |
| UR text parser | same file, `parse_*` | none | scheme, type, text budget, indices, body |
| Bytewords, Bytemoji | `bytewords/`, `bytemoji.rs` | none (tables) | encode, decode, canonicalize |
| Typed layer | `typed/` | none | `to_ur`, `from_ur`, `Ur::from_str`: values by type of a UR |
| Registry | `crates/bcur-registry` | ten kinds of value, built and then changed by setters | constructors, `with_*`, tagged dCBOR written and read, tags of two versions |
| CLI encode | `crates/bcur-cli/src/encode.rs` | search bounds, lines | fit the fragment length, print |
| CLI terminal QR | `crates/bcur-cli/src/qr.rs` | index on screen or a live encoder with its first part held back, alternate screen, raw mode | size, animate, quit, restore |
| CLI decode | `crates/bcur-cli/src/decode.rs` | a UR decoder | read lines, skip, abort |
| TypeScript twin | `packages/ur` | as the Rust crate | as the Rust crate |
| Website | `apps/website` | two form reducers | encode, decode in the browser |
| Vectors, scripts, fuzz targets | `scripts/`, `fuzz/` | none | test data and tools |

**How they interact.** An application builds a registry value, which the typed
layer turns into a UR by its tag; on the other side it asks for a type at one of
two doors, by the tag (`TryFrom<CBOR>`) or by the type of the UR (`from_ur`).
The same text can be read by `ur::parse`, by `ur::Decoder::receive` and by
`Ur::from_str`, which share a parser but order its checks differently. `bcur encode` builds a UR encoder, which owns a fountain
encoder and turns each part into CBOR, bytewords and a header. `bcur qr` shows
the lines one at a time; a reader outside the repository photographs the screen
and calls `ur::Decoder::receive`. The UR decoder parses a frame, checks its
type, and hands parts to the fountain decoder it owns. All calls go down through
exclusive references; there are no threads and no callbacks. The concurrency is
between the sender, which only cycles, and the reader, which samples: a channel
without acknowledgement. The one other actor is the user of the terminal, who
presses keys and resizes it while an animation runs.

**What is hard here.**

* *Order and repetition of parts.* The elimination scans only the part's own
  indexes and keeps counters by transitions. It is right because of an
  invariant (reduced echelon form) that only long, particular sequences of parts
  can break.
* *Two stacked state machines.* The UR decoder and the fountain decoder each
  have a terminal state and a counter; the UR decoder also ends sessions on its
  own (single-part messages, text over budget).
* *The frame that ends a session* changes the state before its completion check
  may fail.
* *Admission order.* A foreign or malformed frame must not lock, count or fail a
  session.
* *A lossy channel* without feedback: nobody knows when to stop.
* *The terminal* is changed in two steps that may fail, and measured long before
  it is drawn on.
* *Floating point and randomness*: both sides must choose the same fragments; a
  weight next to the mean, or a draw that rounds to 1.0, must not break the table.
* *Spellings*: one line has many spellings (heads of any width, capitals, zeros
  before an index), and a slip in any place must not make it another line.
* *Readers beside constructors.* The registry's readers fill the structs
  themselves, with rules of their own; one left out makes a value no program
  could build. Scripts of version 1 become texts in which keys are numbered as
  the tree is walked.
* *Boundaries*: padding, the division of a message into fragments, sequence
  numbers up to `u32::MAX`, saturating counters, CBOR heads and digits that
  change the width of a line.

**What makes each component correct.**

* Fountain decoder: delivers the source it was sent, at the earliest part that
  determines it; counters equal a recount; never reaches `Internal`; bounded rows.
* Fountain encoder: each part passes the checks a receiver makes; the fragments
  cover the message; the closed form equals URKit's search.
* UR decoder: the layers agree; one type per session; a rejected frame changes
  nothing; progress tells what the state tells.
* Carousel: what arrives is what was sent; a cycle of K lines always suffices.
* `fit_fragment_len`: ends; what it returns fits; nothing better is missed.
* Chooser: the table has the distribution it was built from; 1..K distinct
  indexes of the K.
* Text, bytewords and part codec: every spelling of a line is read as what was
  written, nothing else is read, and the doors agree.
* Registry: what is built and sent is read as it was; a reader makes only what a
  constructor could; writing again loses nothing; a script keeps its meaning.
* CLI decode: writes the message when the lines determine one, and says that they
  were too few only when they were.
* CLI terminal QR: the terminal is restored on every way out, no line is skipped,
  the size derived from the terminal fits it, a quit key is honoured.
* TypeScript twin: same results as the crate.

## 2. Modules

| Module | Models | Uses |
|---|---|---|
| `FountainStream` | parts, `Part::new`, choice of fragments, caps, join and its checks; parts as equations over the fragments | |
| `FountainSession` | the abstract promise of a fountain decoder, one step a call | `FountainStream` |
| `FountainDecoder` | the incremental Gauss-Jordan elimination, step by step | `FountainStream` |
| `Partition` | `fragment_length` and padding | |
| `FountainEncoder` | the encoder and its iterator | `FountainStream`, `Partition` |
| `UrDecoder` | the UR decoder over a fountain decoder that keeps the promise | `FountainSession` |
| `UrEncoder` | the UR encoder over the fountain encoder | `FountainEncoder` |
| `Carousel` | encode, cycle on screen, lossy reader | `UrEncoder`, `UrDecoder` |
| `FitFragment` | the binary search of `bcur encode` | `Partition` |
| `DecodeCommand` | the line loop of `bcur decode` | `UrDecoder` |
| `Chooser` | the alias table of a stream, the draw and the remove-shuffle | |
| `PartCbor` | the CBOR of a part, over real bytes: encoder, and decoder as a cursor | |
| `Bytewords` | words, checksum, the three styles, over any table | |
| `UrText` | the text of a UR: how it is written, and the four doors that read it | `PartCbor`, `Bytewords` |
| `QrDisplay` | `--qr` and `bcur qr`: sizing, alternate screen, animation, keys | |
| `Dcbor` | dCBOR values as terms; the readers of `read.rs` | |
| `RegistryTags` | tags of both versions and the names of types (`tags.rs`) | |
| `RegistryValues`, `RegistryKeys` | coin-info, keypath, seed; sskr, psbt, hdkey, eckey, address | `Dcbor`, `RegistryTags` |
| `RegistryDescriptors` | output and account descriptors, scripts of version 1 | `RegistryKeys` |
| `Registry` | a value built, changed, written, edited on its way, and read at two doors | `RegistryDescriptors` |
| `RegistryPromise` | what a value that arrives must be | `Registry` |
| `MC*` | instances for TLC | |
| `FountainStream_proofs` | lemmas: XOR, spans of index sets, rank, solutions; division, rounding up, padding | `FountainStream`, `Partition` |
| `FountainDecoder_proofs`, `UrDecoder_proofs`, `QrDisplay_proofs`, `Chooser_proofs` | theorems about the module of that name | that module; the lemmas for the first two |
| `Encoding_proofs` | theorems about `FountainEncoder` and `FitFragment`, which share the partition | both modules, the lemmas |
| `DecodeCommand_proofs` | theorems about `DecodeCommand`, from those about the decoder it drives | `DecodeCommand`, `UrDecoder_proofs` |
| `Carousel_proofs` | theorems about `Carousel`, from those about its two ends | `Carousel`, `Encoding_proofs`, `UrDecoder_proofs` |

**The abstraction of bytes.** A byte is zero or not. A byte string is the set of
offsets of its nonzero bytes, so the XOR of two rows is the symmetric
difference of two sets; each offset is one bit lane of the real XOR, and the
algorithm treats lanes alike. A column mask, a bit vector in the code, is the
set of its columns. The checksum is a constant operator `Crc32`: any function of
length and content. The instances use one that collides, so that a damaged
message can pass or fail it. `Mixed` is the choice of fragments above K: any
function giving a nonempty subset of the columns; the instances choose one that
produces every kind of index set.

Elsewhere numbers are the real ones. `PartCbor` works on bytes and `UrText` on
characters, one of them outside ASCII; the word table is a constant (256 words,
told apart by first and last letter), and so is the checksum of four bytes. In
the registry a dCBOR value is a term, a fingerprint the number its bytes stand
for, and a descriptor a sequence of tokens; the dCBOR library between a term and
its bytes is external. The lengths of keys are real; the widths of integers are
constants (`WidthAssumption`), scaled down since TLC's own are those of an `i32`,
and so are the exact integers of f64 and the calendar, in the same order
(`CalendarAssumption`). `FitFragment` and
`QrDisplay` on lengths in characters and cells. The f64 weights of the alias
table are integers in `Chooser`, with the exact sum as 1.0, and every operation
may be off by a member of `Errors`; so a branch on a weight near the mean goes
either way, as rounding may send it. The generator's words are choices.

**How state and actions correspond.** Variables carry the names of the fields
(`last_indexes`, `frames_processed` is the UR decoder's `processed`, `locked` its
`locked_type`). In `FountainDecoder`, a call to `receive` is `Admit`, one
`Eliminate` per index, and then `DiscardDependent` or `StoreRow`; the calls that
end at a check are one action (`ReceiveTerminal`, `RejectInconsistent`,
`FailLimit`). In `UrDecoder`, an action of the form `RejectX`, `FailX` or
`CompleteX` is one path through `receive`, with the guards of the earlier
returns; `ReceiveMulti` composes with a step of `FountainSession`. In `DecodeCommand`, one `Feed` is a call of
`receive`, with the guards of `UrDecoder`, and what the loop does with its
result. In `UrText` a line is given to the doors in turn, each a program over
`stage` in the order of its checks (`parse_head`, `check_text`, `parse_rest`, and
then the steps of `PartCbor`). In `Registry`, `Build` and `Set` are a constructor
and a setter, `Send` is `to_ur` or the tagged CBOR, `Retag`, `Carry`, `Arrives` and
`OldWallet` and `DaysWallet` (dates in days) are other implementations between
writer and reader, and `Read` is one door. `read_date` is what the code does: the
checked product of an i64, the cast to f64 with its rounding, the calendar of the
dCBOR library; outside the calendar the call ends in `Panic`, an outcome that is
neither a value nor an error. In `QrDisplay`, `Return` is every return inside the scope of the guard
`AltScreen`, whose `drop` it includes. Histories
(`accepted`, `counted`, `types`) record what happened for the
properties and influence nothing. Those of `UrDecoder` are written in one place
(`Witness`) from the answer of the call, whichever branch gave it and whatever
that branch did to `frames_processed`.

## 3. Runs

| Run | Question | Bounds |
|---|---|---|
| `fountain_decoder` | Do echelon form, counters, completion and delivery hold in every order, does a session end at the first part that determines the message, and does the elimination implement `FountainSession` (`KeepsPromise`)? | K = 3 of two bytes, all seven index sets, damaged, foreign and over-limit parts; `MaxProcessed` = 4 |
| `ur_decoder` | Do the stacked decoders agree, mix no types, count and reject as stated? | K = 2, two types, one frame for each way out of the parser; accept lists replaced at any time; `MaxProcessed` = 4, `MaxFrames` = 5 |
| `encoder` | Are partition, padding and parts right for every length and option? | lengths 0..13, max 0..6, min 0..4, start 0 or 9, `U32Max` = 12 |
| `carousel` | Does a transfer arrive exactly, and at all? | K = 1..3, and a message over the caps; counts 1, 2, 3 or none, `MinLines` = 3 (20 in the code), `U32Max` = 8, `MaxRestarts` = 1 |
| `fit_fragment` | Does the search end, fit, and miss no multi-part length? | 56 lengths and 14 limits at the digit and CBOR boundaries |
| `decode_command` | Does the command write the message, and fail only when it must? | all texts of up to 3 lines over ten frames and a blank one, and of 4 lines of parts; `--type` absent, right, other or malformed |
| `chooser` | Does every table end complete and exact, and every choice in range? | K = 1..5 (from 5 on, two weights are above the mean), `Unit` the least common multiple of 1..K, errors of one unit, `MaxError` = 2, `Ticks` = 6 |
| `ur_text` | Is every spelling of a line read as what was written, and nothing else, and do the doors agree? | 5475 lines: twelve parts at the boundaries of the head widths, over the caps and refused by `Part::new`; any two heads in each width; bytes cut short, extended and altered under a right checksum; capitals and zeros; one slip in any place of a part, a single part and two texts of words; limits of 150 characters, 20 fragments, 24 bytes; `U32Max` = 2^31-1 |
| `qr_display` | Is the terminal restored, each line shown, the size right, the quit key honoured? | three terminal sizes, lists of 0 to 3 lines, three encoders, `U32Max` = 4, `MaxEvents` = 2 keys or resizes, `MaxShown` = 5 |
| `registry` | Does every value come back as it was or not at all, is only what could be built read, do scripts keep their meaning, do the doors agree? | all ten types at both sides of each bound; paths of up to two steps; `MaxSets` = 2 setters (`MaxEdited` = 1 on a value that is edited); any field under the keys 1 to 10 and -1 dropped or overwritten (`FieldKeys`); tags of both versions; script trees of three functions at most; dates in seconds and in days on every way out of `read_date`; `UINT31_MAX` = 32767, `INT64_MAX` = 2^30-1, `F64_EXACT` = 2^20 (2^53 in the code), a calendar of twelve days on either side of 0 (`DATE_MIN`, `DATE_MAX`) |
| `slack_too_small`, `curve_zero` | see *Disagreements* | as the run of the same module |

Why the bounds are enough. Three fragments are the least for which back
substitution, a mixed row turning into a unit and a unit scan meeting a mixed
row all occur, and the seven index sets over them are all there are. With two
fragments the layering of `UrDecoder` reaches every terminal state by every
path. `MaxProcessed` stands for `u64::MAX`: it is reached, so saturation is
exercised. `MaxFrames` only stops the history `counted`, above saturation.
`U32Max` stands for `u32::MAX` and is reached by the encoder. The fit run needs
no small widths: its numbers are the real ones.

The registry's rules compare an integer with the end of its width, never with a
width in between, so small widths meet every branch; all other numbers there are
those of the code. A value of the wrong major type is asked only of a wire that
nobody edited, since the first check of every reader decides it.

Each run states the properties that several steps can break. `TypeOK` of the
fountain decoder is checked because the proofs build on it; in the other
modules it documents the types. Deadlock is checked except where the program
really stops: `fit_fragment` (the search ends), `carousel` (the sender quits),
`decode_command`, `ur_text`, `registry` and `qr_display` (the command, the reading of a
line or a value, the display end).

**Fairness.** Three runs check liveness. `FitFragment` assumes weak fairness of
the loop: it is a loop in one thread. `QrDisplay` assumes weak
fairness of the program and strong fairness of `Poll`: each interval lasts at
least a millisecond and polls the keyboard, so a pending event is read sooner or
later; the user is not fair. `Carousel` assumes weak fairness of
encoding, printing and advancing the display, which a running program does on a
timer, and strong fairness of capturing each line of the cycle: the reader does
not miss the same frame for ever. The last is an assumption about the world
outside; without it no fountain delivers. `Quit` and `Restart` have no fairness,
and the promise excludes a sender that quits.

**Disagreements** between the code and its own documentation, each shown by a run
that violates the quoted sentence:

* `slack_too_small`: a late part can be longer than `--max-chars`.
* `curve_zero`: an EC key over `Curve::Other(0)`, which its constructors take, is
  written with the number of secp256k1, and refused or read as a key over that
  curve. `RoundTrips` in the passing run shows that no other value is lost.

Others were met while reading and have no run:

* `is_complete` is a comparison of the sequence number with K, so an encoder
  started at `first_sequence >= K` is complete before it has emitted anything
  (`fountain/mod.rs:283`).
* With `--animate`, a single-part line can fit where parts of smaller lengths do
  not; the search of `fit_fragment_len`, which has "largest" in its doc, then
  misses it (`encode.rs:119`).
* The search supposes that a longer fragment never makes a shorter line. That is
  so for as many as 65535 fragments, and proved (`LargestPartsFound`); above, a
  count that falls below 65536 takes two bytes off its CBOR head, four characters,
  while a fragment that grows by one adds two. A payload of 655360 bytes under
  the type `bytes` with `--max-chars 91` is said not to fit, although fragments of
  11 bytes do: the first part has 79 characters, the slack is 12. The comment
  (`encode.rs:114`) says "Largest fragment length whose first part URI plus slack
  is <= max_chars". Hence the hypothesis of `MissesNoMultiPart`; no run has a
  payload of that size.
* The part that fails the completion check raises `processed`, whose doc says
  "Frames that were `accepted` or `duplicate`".
* The seconds of a date given in days are bounded by an i64 alone (`seed.rs:127`),
  where the comment on the cast to f64 says "epoch-day magnitudes stay well inside
  f64's exact integer range" (`seed.rs:132`). They reach 2^63, and the cast rounds
  beyond 2^53. Long before, the date is past the calendar of the dCBOR library,
  whose `Date::from_timestamp` then panics where the reader should return an
  error. A rounded number is never read as a date, since all of them are past the
  calendar. The model has the cast, the calendar and the panic (`read_date`).
* On a small terminal `--max-chars` defaults to the capacity of the QR version
  that fits, 16 to 67 characters, where the table of flags says "(≥80)".

Each property of a passing run has a mutant: a plausible bug, written beside the
definition it replaces (`...Mutant` and similar), under which that run fails.

## 4. Proofs

The theorems hold for every value of the constants that meets the named
assumptions: any parts, limits, checksum function and choice of fragments, any
messages, lines, terminals and payloads.

| Component | Theorem | States |
|---|---|---|
| Fountain decoder | `TypeCorrect` | the types of all the state |
| | `EchelonForm`, `ScanSuffices` | the rows are in reduced echelon form; scanning the part's own indexes leaves no pivot column |
| | `CountersCorrect` | `rank` and `recovered` equal a recount |
| | `JoinsInTime`, `InternalUnreachable` | join runs at rank K and at no other; it never returns `Internal` |
| | `DeliversTheSource` | parts of one source end in that source, whatever else was found dependent |
| | `MemoryBounded` | the rows hold less than the largest message and a fragment |
| | `Refinement` | the elimination implements `FountainSession` (`KeepsPromise`) |
| | `CompletesInTime` | a session completes at the first part that determines the message |
| Fountain encoder | `EmittedPartsPass` | every part passes `Part::new` |
| | `LengthIsNominal`, `NothingIsLost` | the closed form equals the search; the fragments are the message |
| UR decoder | `LayersAlwaysAgree`, `TypesNeverMix`, `FramesCounted`, `ProgressIsExact` | the four invariants of the run |
| | `ForeignIsRefused` | a frame of a foreign type changes nothing (an action property) |
| CLI encode | `ReturnedLengthFits`, `LargestPartsFound` | what the search returns fits, and no longer multi-part length does |
| CLI terminal QR | `ScreenIsRestored`, `EveryLineIsShown`, `LimitIsEnough` | the terminal is restored, no line is skipped, the derived limit suffices |
| Chooser | `WorklistsHold` | every index is on one worklist until it gets its probability |
| | `TableHolds` | the table has the distribution it was built from, but for the errors made |
| | `ChoiceHolds` | a choice is 1..K different fragments of the K |
| CLI decode | `WrittenIsTheMessage`, `EarlyEndIsJustified` | the message is written, or the lines were too few |
| Encoder to decoder | `TransferArrives` | what a session ends in is what was sent; no line is refused but for the reader's own caps and accept list |

Each rests on an inductive invariant, itself a theorem and checked by TLC before
it was proved, with one step lemma per action.

*The elimination* (`Invariance`). `IInv` is the conjunction of the first six
properties. An insertion keeps the echelon form only because the scan left no
pivot in the mask; the scan does so only because no row holds another row's
pivot; `recovered` cannot underflow because a row that is already a unit cannot
hold a new pivot; and `join` finds K unit rows because K rows in reduced echelon
form over K columns are the identity.

*The system of equations* (`SolutionInvariance`). `SInv` adds to `IInv` what the
rows mean: they and the parts accepted have the same solutions
(`SameSolutions`); every row is an XOR of accepted parts, and an XOR of accepted
parts that avoids all pivots is empty (`SameSpan`). So a mask reduced to nothing
is exactly an index set that is spanned, which is the test of `FountainSession`;
K independent parts leave one solution, which the rows spell out; and a source
that fits the accepted parts is that solution. `DeliversTheSource`,
`CompletesInTime` and `Refinement` follow; in the last, `Eliminate` and the first
part's `Admit` are stutters. The mathematics is in `FountainStream_proofs`: XOR as
a group and the parity of an XOR of fragments, spans closed under XOR
(`SpanGroup`), and that independent sets over K columns are at most K
(`IndependentCounts`), with a spanned basis when they are K.

*The UR decoder* (`SessionInvariance`). `UInv` says of the fountain session below
that its parts are independent and of one stream, fewer than K while it collects
and K when it was joined; and ties the type lock and the terminal state
above to it. The rank is the number of parts, so progress is exact. `MultiDoes`
and `FrameDoes` sum up what a frame may do, for the modules above.

*The decode command* (`CommandInvariance`). `DInv` contains `UInv` of the decoder it
drives, taken from `UrDecoder_proofs` through an instance, and says that every line read so
far that states a part of the session's stream and type is spanned by what is
held. A session that still collects spans less than all, and so do the lines.

*The encoder* (`EncoderInvariance`). The stream is that of the options and the
message; the rest is arithmetic: dividing by a count and rounding up covers the
message with less than one fragment to spare, and the search over counts stops
where the closed form says.

*The search* (`SearchInvariance`). Above `hi` no multi-part length fits. The step
needs that a part never gets shorter when its fragments get longer
(`PartsGrow`). No single term gives that: the count and its digits fall while the
fragment grows. It holds because a count that loses a digit or a byte loses
more than a few bytes of fragment can outweigh, and counts that differ by so
much belong to fragments that differ by more (`CountsClose`, `CountLoses`).

*The chooser* (`ChooserInvariance`). The table is right at the end because of what
holds at every round (`Balanced`). The errors made so far are split into those
upward and those downward. What the weights on the lists have over the mean, all
together, stays what the errors made it, since a pairing takes what `a` lacks off
`g`. So when one list is empty, every index left on the other is at the mean but
for the errors, because all of them lie on one side of it, and giving each its
whole column is no more wrong than that. For one degree, what its index
still holds and what other columns gave it differ from its weight by no more
than the errors of its own direction; once it has its probability, by no more
than all of them. The worklists are sequences without repetition with disjoint
ranges. In the shuffle, the pool and what was picked from it are the K fragments,
each once, so the pool cannot run out before the degree. The sums are over 0 .. K - 1
for any K: the lemmas of the section *Sums* prove what a recursive function adds up
to by the least number at which it would not, since induction with an operator
is out of reach.

*The display* (`DisplayInvariance`). Alternate screen and raw mode are set only at
the program points between entering and returning; the position follows from
the number of frames drawn; the limit taken from the terminal is kept with the
size it was taken from. The capacities are the program's own table
(`ALNUM_Q_CAPACITY`), taken as it is: that a line fits is shown of that table, not
of the QR standard. The theorems are stated of `FairSpec`, as the run checks
it; fairness is not used.

*The transfer* (`TransferInvariance`). `CInv` has a half for each end. The encoder is
built, and every printed line is the single-part line or `PartAt` of a sequence
number up to the last (`EmittedIsPart`: such a part is well formed, of the stream,
and an XOR of fragments of the message). The session satisfies `UInv`, and what it
holds are parts of that message, let in by the caps and the accept list. So a part
cannot be of another stream; K independent ones join into the message, which
passes the padding and checksum checks it was made with (`JoinsToSource`); and the
only error left is that of a cap. The encoder and decoder are instances of the
modules of the earlier theorems, the decoder with all parts that
`Part::new` and a chooser allow.

*Assumptions*, all evaluated by TLC in the runs. `PartsAssumption`: a part passed
`Part::new` and its data has the stated length. `MixedAssumption`,
`ShuffleAssumption`: the choice is a subset of the columns, and
not empty; `ChoiceHolds` proves it of the chooser. `ChooserAssumption`: K is not 0,
the unit of the weights is a common multiple of 1 .. K, so that 1/x is a whole
number of units, and an operation may be exact. `LimitsAssumption`, `MaxProcessedAssumption`,
`CountsAssumption`, `EncoderAssumption`, `FitAssumption`, `DisplayAssumption`: the types
of limits, options, sizes and lines (unsigned integers in the code, the
checksum too). `TransferAssumption`: those of both ends, and that the type given to
`encode` is a type.
`SourcesAssumption`: a message is not empty and its bytes lie within its length.
`FramesAssumption`: a frame names a type, an error of the parser is not an answer
of the decoder, and a part it carries passed `Part::new`.
`TextsAssumption`: the lines of a text without the blank ones are frames; that
filtering a sequence keeps its other members is induction over data, so it is
assumed of the texts and evaluated, not proved. Nothing is assumed of the
checksum or of who made the parts.

*Only model-checked.* Liveness (`Terminates`, `CycleDelivers`, `QuitHonoured`), which
the proof system does not reach. The text (`ReadsEverySpelling`, `TakesNothingElse`,
`ParsersAgree`): a parser over strings of any length, with digits and lines built
by folds. The registry: `RegistryDescriptors` and the modules above it walk trees
by recursion.

## 5. Not modelled

* The drawing of QR codes (a code is its number of modules), reading input in the
  CLI, the wording of errors, memory and timing; a process killed by a signal,
  whose guards do not run.
* The contents of the word and emoji tables, `canonicalize` and the identifiers of
  digests, which nothing else in the crate calls; 64-bit words of Xoshiro256**,
  SHA-256 and CRC-32 (any function stands for them).
* In `PartCbor`, numbers from 2^31 on: the high half of an eight-byte argument is
  one flag.
* In the registry: digests, fingerprints and addresses computed from values,
  fractions of a second in a date,
  `Debug`, `Display` and accessors, and the registration of tags in the store of
  the dCBOR library; in the typed layer, tags without names, which no type here has.
* The TypeScript twin `packages/ur`: the same algorithms again, checked against the
  crate by the vectors. What can differ is listed as a hazard: its decoder keeps
  the caller's accept array, whose changes are those of `Accept` in `UrDecoder`.
* The website: two form reducers over the twin, and rendering.
* Vectors, benchmarks, scripts and fuzz targets: tools and data.

## 6. Plan

Written: the fountain decoder with its promise and the proofs of its
elimination, the encoder and partition, the UR decoder and encoder, the
carousel, the fragment search, the decode command, the chooser with the proof of
its table, the text with bytewords and part codec, the terminal display, and the
registry with the typed layer.

To be modelled: the TypeScript twin where it differs from the crate (validation
inside `receive`, counters without a limit, arrays shared with the caller), then
the reducers of the website.
