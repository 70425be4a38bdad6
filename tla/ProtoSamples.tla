-------------------------------- MODULE ProtoSamples --------------------------------
(***************************************************************************)
(* Messages to check ProtoRoundTrip with: of every type of the three       *)
(* packages, the empty one, the full one, and each field alone.  And       *)
(* transactions to check TxProto with: of one or two spends that between   *)
(* them have every kind of lock, proof, witness and seed, with zeros and   *)
(* ones among the numbers digests are made of.                             *)
(***************************************************************************)
EXTENDS ProtoWire, ProtoValues

(* A message with every field set (the last case of a oneof), and those    *)
(* inside down to a depth, below which they are empty.                     *)
RECURSIVE FullMessage(_, _)
FullValue(type, depth) ==
  IF IsText(type) THEN <<1, 0>>
  ELSE IF ~IsMessage(type) THEN 1
  ELSE IF depth = 0 THEN BaseOf(type)
  ELSE FullMessage(FieldsOf(type), depth - 1)
FullMessage(fields, depth) ==
  FoldLeft(LAMBDA m, f : Put(f, m, FullValue(f.type, depth)),
           CreateBase(fields), fields)

(* The values of a lone field: its type's zero (for a message the empty    *)
(* one), and one that is not.                                              *)
Values(type) ==
  {IF IsMessage(type) THEN BaseOf(type) ELSE Zero(type), FullValue(type, 1)}

Twice(f, m) == Put(f, Put(f, m, FullValue(f.type, 0)), FullValue(f.type, 1))

SampleMessages(fields) ==
  LET base == CreateBase(fields)
  IN  {base, FullMessage(fields, 3)}
        \union UNION {{Put(fields[i], base, v) : v \in Values(fields[i].type)} :
                        i \in DOMAIN fields}
        \union {Twice(f, base) : f \in {g \in Range(fields) : g.presence = "repeated"}}

AllTypes == UNION {{<<p, n>> : n \in DOMAIN Messages[p]} : p \in DOMAIN Messages}

Samples ==
  UNION {{<<t, m>> : m \in SampleMessages(Messages[t[1]][t[2]])} : t \in AllTypes}

-----------------------------------------------------------------------------
(* Transactions.                                                           *)

D(n) == Text(<<n, 0, 1, n + 1, 0>>)
Key(n) == Text([i \in 1..12 |-> (n * i) % 3])
Half(n) == [k \in 1..32 |-> (n * k + k \div 5) % ByteBase]
Sig(n) == [c |-> Half(n), s |-> Half(n + 1)]
Name(n) == [first |-> D(n), last |-> D(n + 1)]

Range0(min, max) == [min |-> min, max |-> max]
Pkh == [tag |-> "pkh", m |-> 1, hashes |-> <<D(3), D(4)>>]
Tim == [tag |-> "tim", rel |-> Range0(<<0>>, <<7>>), abs |-> Range0(<< >>, <<9>>)]
Hax == [tag |-> "hax", preimages |-> <<D(5)>>]
Brn == [tag |-> "brn"]

Stub(prims) ==
  [spend_condition |-> prims, axis |-> 1, root |-> D(6), path |-> << >>, full |-> FALSE]
Full(prims, axis, path) ==
  [spend_condition |-> prims, axis |-> axis, root |-> D(6), path |-> path, full |-> TRUE]

Proofs == {Stub(<<Pkh>>), Stub(<<Tim, Brn>>), Full(<<Pkh, Hax>>, 6, <<D(7), D(8)>>),
           Full(<<Tim>>, 1, << >>)}

Data(noun) == <<[key |-> <<5, 0>>, noun |-> noun]>>
Seed(source, root, data) ==
  [output_source |-> source, lock_root |-> root, note_data |-> data, gift |-> 3,
   parent_hash |-> D(9)]
SeedLists ==
  {<<Seed(<< >>, D(1), << >>)>>,
   <<Seed(<<[hash |-> D(2), is_coinbase |-> 1]>>, [lock |-> 4], Data(2)),
     Seed(<<[parent |-> D(2), index |-> 0]>>, D(1), Data(0))>>,
   <<Seed(<< >>, D(1), Data(Unbased))>>}

Spend1(lmp, sigs, hax, seeds) ==
  [tag |-> 1, seeds |-> seeds, fee |-> 0,
   witness |-> [lock_merkle_proof |-> lmp, pkh_signature |-> sigs, hax_map |-> hax]]
Signed == <<[hash |-> D(3), pubkey |-> Key(1), signature |-> Sig(3)],
            [hash |-> D(4), pubkey |-> Key(2), signature |-> Sig(5)]>>
Spends1 ==
  {Spend1(lmp, sigs, hax, seeds) :
     lmp \in Proofs, sigs \in {<< >>, Signed}, seeds \in SeedLists,
     hax \in {<< >>, <<[hash |-> D(5), noun |-> 3]>>, <<[hash |-> D(5), noun |-> Unbased]>>}}
Spend0(seeds) ==
  [tag |-> 0, signature |-> <<[pubkey |-> Key(1), signature |-> Sig(1)]>>,
   seeds |-> seeds, fee |-> 2]

Tx(spends) ==
  [id |-> D(0), spends |-> [i \in DOMAIN spends |-> [name |-> Name(i), spend |-> spends[i]]]]

SampleTransactions ==
  {Tx(<<spend>>) : spend \in Spends1}
    \union {Tx(<<Spend0(seeds), Spend1(Stub(<<Pkh>>), Signed, << >>, seeds)>>) : seeds \in SeedLists}
    \union {Tx(<< >>)}
=============================================================================
