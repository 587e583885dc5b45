---------------------------- MODULE WageStatistics ----------------------------
(***************************************************************************)
(* etl/normalizer.py, etl/statistical_engine.py and the market position of  *)
(* service/benchmark_service.py.  Annual wages are counted in thousands of *)
(* dollars, raw percentiles exactly in hundredths of that, and a benchmark *)
(* figure in ten-thousandths ($0.10).  Dates are whole years, and wages    *)
(* are at most one year old, so that aging is one factor of 1.04.          *)
(***************************************************************************)
EXTENDS Integers, SequencesExt

Family == { "SOFTWARE_ENGINEERING", "SYSTEMS_INFRASTRUCTURE", "MACHINE_LEARNING",
            "DATA_SCIENCE", "PRODUCT_MANAGEMENT" }

\* MIN_SAFE_HARBOR_COUNT.
MinSafeHarborCount == 5

------------------------------------------------------------------------------
(* Normalization of a disclosure row.                                      *)

HoursPerYear == 2080

\* normalize_wage, from dollars: a unit that is not known counts as a year.
Annual(amount, unit) ==
  LET perYear == CASE unit = "HOUR" -> HoursPerYear
                   [] unit = "WEEK" -> 52
                   [] unit = "BI_WEEKLY" -> 26
                   [] unit = "MONTH" -> 12
                   [] OTHER -> 1
  IN (amount * perYear) \div 1000

\* normalize_geo_tier: `places' says of which zones' cities the address contains one.
ZoneOf(places) ==
  IF 1 \in places THEN "US_ZONE_1" ELSE IF 2 \in places THEN "US_ZONE_2" ELSE "US_ZONE_3"

\* normalize_role.  A title is the set of keyword classes it contains, per family and
\* per level; the letter I alone is a keyword of level 1.
FamilyPrecedence ==
  << "MACHINE_LEARNING", "DATA_SCIENCE", "PRODUCT_MANAGEMENT", "SYSTEMS_INFRASTRUCTURE" >>

FamilyOf(title) ==
  LET named == { i \in 1 .. 4 : FamilyPrecedence[i] \in title.families }
  IN IF named = {} THEN "SOFTWARE_ENGINEERING" ELSE FamilyPrecedence[Min(named)]

\* Mutant of LevelOf: the lowest level named wins.
LevelOfLowest(title) ==
  CASE title.exact # 0 -> title.exact
    [] title.exact = 0 /\ title.levels = {} -> 3
    [] OTHER -> Min(title.levels)

\* The highest level named wins; `exact' is the number of an IC1 .. IC6, or 0.
LevelOf(title) ==
  CASE title.exact # 0 -> title.exact
    [] title.exact = 0 /\ title.levels = {} -> 3
    [] OTHER -> Max(title.levels)

------------------------------------------------------------------------------
(* Outliers, percentiles, aging.                                           *)

\* The values of f at the places I, in the order of the places.
Subsequence(f, I) ==
  [ n \in 1 .. Cardinality(I) |->
      f[CHOOSE i \in I : Cardinality({ k \in I : k <= i }) = n] ]

\* The n-th smallest is the least that n of them do not exceed.
Ascending(wages) ==
  [ n \in 1 .. Len(wages) |->
      Min({ w \in Range(wages) :
              n <= Cardinality({ k \in DOMAIN wages : wages[k] <= w }) }) ]

Between(wages, lower, upper) ==
  { i \in DOMAIN wages : lower <= 200 * wages[i] /\ 200 * wages[i] <= upper }

\* _calculate_single_percentile: linear interpolation between two ranks.
Percentile(sorted, p) ==
  LET rank == p * (Len(sorted) - 1)
      i == (rank \div 100) + 1
  IN IF rank % 100 = 0 THEN 100 * sorted[i]
     ELSE 100 * sorted[i] + (rank % 100) * (sorted[i + 1] - sorted[i])

\* Mutant of CleanWages: the wages stay in the order of the file.
CleanWagesUnsorted(wages) ==
  LET read == Subsequence(wages, { i \in DOMAIN wages : wages[i] >= 40 })
      q1 == Percentile(read, 25)
      q3 == Percentile(read, 75)
      lower == Max({ 200 * 40, 2 * q1 - 3 * (q3 - q1) })
      upper == Min({ 200 * 1500, 2 * q3 + 3 * (q3 - q1) })
  IN IF Len(read) < 4 THEN read
     ELSE Subsequence(read, Between(read, lower, upper))

\* filter_outliers_iqr: wages below $40,000 are always dropped, Tukey's fences apply
\* from four wages on (their bounds are compared times 200).
CleanWages(wages) ==
  LET sorted == Ascending(Subsequence(wages, { i \in DOMAIN wages : wages[i] >= 40 }))
      q1 == Percentile(sorted, 25)
      q3 == Percentile(sorted, 75)
      lower == Max({ 200 * 40, 2 * q1 - 3 * (q3 - q1) })
      upper == Min({ 200 * 1500, 2 * q3 + 3 * (q3 - q1) })
  IN IF Len(sorted) < 4 THEN sorted
     ELSE Subsequence(sorted, Between(sorted, lower, upper))

\* calculate_percentiles: all zero when nothing is left.
Percentiles(wages) ==
  LET cleaned == CleanWages(wages)
      at(p) == IF cleaned = <<>> THEN 0 ELSE Percentile(cleaned, p)
  IN [ p10 |-> at(10), p25 |-> at(25), p50 |-> at(50), p75 |-> at(75), p90 |-> at(90),
       sample |-> Len(cleaned) ]

Figure == {"p10", "p25", "p50", "p75", "p90"}

\* age_wage_dataset, by at most one year, at the default rate; never backwards.
Aged(percentiles, from, to) ==
  [ c \in DOMAIN percentiles |->
      IF c \notin Figure THEN percentiles[c]
      ELSE (IF to <= from THEN 100 ELSE 104) * percentiles[c] ]

------------------------------------------------------------------------------
(* Where a salary (in thousands) lies in a benchmark.                      *)

\* n / d as quantize rounds it, for d > 0.
HalfEven(n, d) ==
  LET q == n \div d
      r == n % d
  IN IF 2 * r < d \/ (2 * r = d /\ q % 2 = 0) THEN q ELSE q + 1

\* Mutant of MarketPercentile: the piece below p90 is as high as the one below p75.
MarketPercentileSteep(salary, b) ==
  LET base == 10000 * salary
      piece(from, start, to, width) ==
        10 * start + HalfEven(10 * width * (base - from), to - from)
  IN IF base <= b.p10 THEN HalfEven(Max({ 10 * b.p10, 100 * base }), b.p10)
     ELSE IF base <= b.p25 THEN piece(b.p10, 10, b.p25, 15)
     ELSE IF base <= b.p50 THEN piece(b.p25, 25, b.p50, 25)
     ELSE IF base <= b.p75 THEN piece(b.p50, 50, b.p75, 25)
     ELSE IF base <= b.p90 THEN piece(b.p75, 75, b.p90, 25)
     ELSE Min({ 990, 900 + HalfEven(100 * (base - b.p90), b.p90) })

\* _estimate_market_percentile, in tenths.  On a benchmark of zeros it divides by zero.
MarketPercentile(salary, b) ==
  LET base == 10000 * salary
      piece(from, start, to, width) ==
        10 * start + HalfEven(10 * width * (base - from), to - from)
  IN IF base <= b.p10 THEN HalfEven(Max({ 10 * b.p10, 100 * base }), b.p10)
     ELSE IF base <= b.p25 THEN piece(b.p10, 10, b.p25, 15)
     ELSE IF base <= b.p50 THEN piece(b.p25, 25, b.p50, 25)
     ELSE IF base <= b.p75 THEN piece(b.p50, 50, b.p75, 25)
     ELSE IF base <= b.p90 THEN piece(b.p75, 75, b.p90, 15)
     ELSE Min({ 990, 900 + HalfEven(100 * (base - b.p90), b.p90) })

\* within_market_band of compare_to_market.
WithinMarketBand(salary, b) == b.p10 <= 10000 * salary /\ 10000 * salary <= b.p90

------------------------------------------------------------------------------
(* seed_loader.py: BASELINE_ZONE_1, in thousands, p10 .. p90 and the sample *)
(* size, by level.                                                         *)

SoftwareEngineering ==
  << <<135, 150, 165, 180, 195, 420>>, <<165, 185, 205, 225, 245, 680>>, <<205, 230, 255, 280, 305, 940>>,
     <<255, 285, 315, 350, 385, 510>>, <<315, 355, 395, 440, 490, 260>>, <<395, 445, 500, 560, 630, 110>> >>

SystemsInfrastructure ==
  << <<140, 155, 172, 188, 205, 310>>, <<172, 192, 215, 236, 258, 480>>, <<215, 240, 268, 295, 320, 650>>,
     <<268, 298, 330, 365, 405, 390>>, <<330, 370, 415, 460, 515, 180>>, <<415, 465, 525, 590, 660, 75>> >>

MachineLearning ==
  << <<145, 162, 180, 198, 215, 280>>, <<180, 202, 226, 250, 272, 420>>, <<225, 252, 280, 310, 340, 590>>,
     <<280, 315, 350, 390, 430, 330>>, <<350, 395, 445, 495, 555, 150>>, <<445, 500, 565, 635, 715, 60>> >>

DataScience ==
  << <<130, 145, 160, 175, 190, 240>>, <<160, 180, 200, 220, 240, 390>>, <<200, 225, 250, 275, 300, 470>>,
     <<250, 280, 310, 345, 375, 280>>, <<310, 350, 390, 435, 480, 130>>, <<390, 440, 490, 550, 615, 50>> >>

ProductManagement ==
  << <<135, 150, 165, 180, 195, 190>>, <<165, 185, 205, 225, 245, 310>>, <<205, 230, 255, 280, 305, 420>>,
     <<255, 285, 315, 350, 385, 250>>, <<315, 355, 395, 440, 490, 120>>, <<395, 445, 500, 560, 630, 45>> >>

Baseline(family, level) ==
  CASE family = "SOFTWARE_ENGINEERING" -> SoftwareEngineering[level]
    [] family = "SYSTEMS_INFRASTRUCTURE" -> SystemsInfrastructure[level]
    [] family = "MACHINE_LEARNING" -> MachineLearning[level]
    [] family = "DATA_SCIENCE" -> DataScience[level]
    [] family = "PRODUCT_MANAGEMENT" -> ProductManagement[level]

\* GEO_MULTIPLIERS, in percent.
GeoMultiplier == [ US_ZONE_1 |-> 100, US_ZONE_2 |-> 90, US_ZONE_3 |-> 80 ]

\* The figures generate_seed_benchmarks computes for one cohort; they are not aged.
SeedFigures(cohort) ==
  LET b == Baseline(cohort.family, cohort.level)
      at(i) == 100 * b[i] * GeoMultiplier[cohort.zone]
  IN [ p10 |-> at(1), p25 |-> at(2), p50 |-> at(3), p75 |-> at(4), p90 |-> at(5),
       sample |-> b[6] ]
==============================================================================
