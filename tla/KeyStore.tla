------------------------------ MODULE KeyStore ------------------------------
(***************************************************************************)
(* wallet/key_manager.py: one file with the wallet, sealed by AES-GCM.     *)
(* The processes that have a KeyManager, the bot and whatever provisions   *)
(* the wallet, may end anywhere in a store.  write_text() empties the file *)
(* as it opens it and writes from the start, so that two stores at once    *)
(* write over each other.                                                  *)
(***************************************************************************)
EXTENDS Naturals

CONSTANTS Processes,
          KeyOf, Unset,       \* WALLET_ENCRYPTION_KEY of each one's environment: the first
                              \* 32 bytes and the rest, or Unset
          Placeholder,        \* "${WALLET_ENCRYPTION_KEY}", taken for a key
          Wallets, LengthOf   \* payloads, and the lengths of their texts

ASSUME KeyAssumption == LengthOf \in [Wallets -> Nat \ {0}] /\ "none" \notin Wallets

VARIABLES
    file,      \* the text it begins with and its length in all
    writing,   \* the text that each process has opened the file for
    begun,     \* not in the code: the texts of the last store that began alone and of later ones
    last,      \* not in the code: the text of the store begun last
    clean      \* not in the code: it has met no other store and was not cut short

keyVars == <<file, writing, begun, last, clean>>

NoText == [wallet |-> "none", key |-> "none"]
Empty == [text |-> NoText, length |-> 0]
Whole(t) == [text |-> t, length |-> LengthOf[t.wallet]]

KeyInit ==
    /\ file = Empty /\ writing = [p \in Processes |-> NoText]
    /\ begun = {} /\ last = NoText /\ clean = FALSE

(* core/engine.py replaces what the environment has a value for, and the   *)
(* setting of a variable that is not set is left as it stands in the file. *)
_load_settings(p) == IF KeyOf[p] = Unset THEN Placeholder ELSE KeyOf[p]

(* AESGCM is given 32 bytes of the key.                                    *)
key_bytes(p) == _load_settings(p).first
Sealed(p, w) == [wallet |-> w, key |-> key_bytes(p)]
Texts == [wallet : Wallets, key : {key_bytes(p) : p \in Processes}]
Writers == {p \in Processes : writing[p] # NoText}

Begins(p, t) ==
    /\ writing[p] = NoText
    /\ writing' = [writing EXCEPT ![p] = t]
    /\ last' = t /\ clean' = (Writers = {})
    /\ begun' = (IF Writers = {} THEN {} ELSE begun) \cup {t}

(* Mutant: the file is opened without being emptied.                       *)
StoreOpensFull(p, w) == Begins(p, Sealed(p, w)) /\ UNCHANGED file

StoreOpens(p, w) == Begins(p, Sealed(p, w)) /\ file' = Empty

Reaches(n) == IF n <= file.length THEN file.length ELSE n

(* What another store wrote beyond the end of this text stays behind it.   *)
StoreWrites(p) ==
    /\ writing[p] # NoText
    /\ file' = [text |-> writing[p], length |-> Reaches(LengthOf[writing[p].wallet])]
    /\ writing' = [writing EXCEPT ![p] = NoText]
    /\ UNCHANGED <<begun, last, clean>>

(* The process ends before it has written, or with part of it written.     *)
Dies(p) ==
    /\ writing[p] # NoText
    /\ writing' = [writing EXCEPT ![p] = NoText]
    /\ file' \in {file, [text |-> NoText, length |-> Reaches(1)]}
    /\ clean' = FALSE
    /\ UNCHANGED <<begun, last>>

KeyNext ==
    \E p \in Processes : (\E w \in Wallets : StoreOpens(p, w)) \/ StoreWrites(p) \/ Dies(p)

KeySpec == KeyInit /\ [][KeyNext]_keyVars

(* load() decodes one text that fills the file and that its key has sealed, *)
(* and raises for anything else.                                            *)
Loads(p, w) == file = Whole(Sealed(p, w))

-----------------------------------------------------------------------------
(* Properties *)

(* What is written belongs to a store that is known; a store that is alone *)
(* finds the file as it left it.                                           *)
StoresKnown ==
    /\ writing \in [Processes -> Texts \cup {NoText}] /\ begun \subseteq Texts
    /\ file \in [text : Texts \cup {NoText}, length : Nat]
    /\ {writing[p] : p \in Writers} \cup ({file.text} \ {NoText}) \subseteq begun
    /\ last # NoText => last \in begun
    /\ clean => /\ last # NoText
                /\ \/ Writers = {} /\ file = Whole(last)
                   \/ \E p \in Processes : Writers = {p} /\ writing[p] = last /\ file = Empty

(* A store that runs alone to its end is what load() returns from then on, *)
(* under any key with the same first 32 bytes, and under no other; what is *)
(* stored without a key in the environment is returned where there is none *)
(* either (key_manager.py lines 18 and 28-33, engine.py line 125).  From   *)
(* the moment a store begins alone the wallet before it is gone, whether   *)
(* this one ends or is cut short: load() raises, or returns one that was   *)
(* stored since (key_manager.py lines 21-33).                              *)
WalletKept ==
    \A p \in Processes, w \in Wallets :
        /\ clean /\ Writers = {} => (Loads(p, w) <=> Sealed(p, w) = last)
        /\ Loads(p, w) => Sealed(p, w) \in begun
        /\ clean /\ Writers # {} => ~Loads(p, w)
=============================================================================
