----------------------------- MODULE OhlcvFrame -----------------------------
(***************************************************************************)
(* The data the ingestion DAG moves, reduced to what its gates look at.    *)
(*                                                                         *)
(* A bar is one row of the vendor's grouped-daily answer or of a parquet   *)
(* partition: its ticker, its date, whether its close is null, and a copy  *)
(* number that lets a SET of bars hold the same (date, ticker) twice.      *)
(* Prices, volumes and the pinned column order are left out: no gate of    *)
(* the DAG depends on them.                                                *)
(*                                                                         *)
(* A vendor body is the number of rows of the whole US market it carries,  *)
(* which the size gate counts, and the bars among them of the tickers this *)
(* model knows.                                                            *)
(*                                                                         *)
(* The definitions below are pure: each one is a gate or a check of        *)
(* fetch_ohlcv or validate_partition (dags/ingest_ohlcv_daily.py).         *)
(***************************************************************************)
EXTENDS Naturals, Sequences, FiniteSets, Functions

CONSTANTS
  Tickers,        \* ticker symbols the model knows
  Dates,          \* calendar dates: sessions, and dates a wrong answer carries
  MinMarketRows,  \* 8000 in the code
  MaxMissingPct   \* 20 in the code

ASSUME GateConstants == MinMarketRows \in Nat /\ MaxMissingPct \in Nat

Bar == [ticker : Tickers, date : Dates, close : {"price", "null"}, copy : {1, 2}]

Body == [size : Nat, bars : SUBSET Bar]

TickersOf(bars) == {b.ticker : b \in bars}

(* df_market['T'].isin(tickers): the market frame cut down to the          *)
(* configured list.                                                        *)
Listed(bars, list) == {b \in bars : b.ticker \in Range(list)}

(* Mutant of Misdated: .all() in place of .any().                          *)
MisdatedThroughout(bars, session) ==
  bars # {} /\ \A b \in bars : b.date # session

(* (df["date"] != session_date).any(): one wrong row condemns the frame.   *)
Misdated(bars, session) == \E b \in bars : b.date # session

(* set(tickers) - set(df_tick["ticker"].unique())                          *)
Missing(bars, list) == Range(list) \ TickersOf(bars)

(* Mutant of TooSparse: > in place of >=.                                  *)
SparserThanLimit(bars, list) ==
  100 * Cardinality(Missing(bars, list)) > MaxMissingPct * Len(list)

(* The completeness gate. The numerator counts distinct tickers, the       *)
(* denominator is len(tickers): an entry listed twice counts twice.        *)
TooSparse(bars, list) ==
  /\ Missing(bars, list) # {}
  /\ 100 * Cardinality(Missing(bars, list)) >= MaxMissingPct * Len(list)

(* df_part.duplicated(subset=["date", "ticker"]).sum() > 0                 *)
HasDuplicates(bars) ==
  \E b, c \in bars : b # c /\ b.date = c.date /\ b.ticker = c.ticker

(* df_part["close"].isna().sum() > 0                                       *)
HasNullClose(bars) == \E b \in bars : b.close = "null"

(* What validate_partition raises ValueError for: it is retried.           *)
Defective(bars) == bars = {} \/ HasDuplicates(bars) \/ HasNullClose(bars)

-----------------------------------------------------------------------------
(* What the properties ask of a frame, stated apart from the gates above.  *)

DatedBy(bars, session) == \A b \in bars : b.date = session

Covers(bars, list) ==
  LET absent == {t \in Range(list) : \A b \in bars : b.ticker # t} IN
  /\ \A b \in bars : b.ticker \in Range(list)
  /\ absent # {} =>
       ~ (100 * Cardinality(absent) >= MaxMissingPct * Len(list))

(* One priced row per (date, ticker), and at least one.                    *)
Sound(bars) ==
  /\ bars # {}
  /\ \A b \in bars : b.close = "price"
  /\ \A b, c \in bars : <<b.date, b.ticker>> = <<c.date, c.ticker>> => b = c
=============================================================================
