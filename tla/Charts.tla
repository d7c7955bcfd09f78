------------------------------- MODULE Charts -------------------------------
(***************************************************************************)
(* The four note charts of the song, key_d.sv, key_f.sv, key_j.sv and      *)
(* key_k.sv.  Each is a parameter `[0:255][15:0] mem' whose initialiser is *)
(* a concatenation of fewer than 256 sixteen-bit words.  The conversion to *)
(* the wider packed type extends the value with zeros on the left, and     *)
(* index 0 is the leftmost word, so the listed words end at index 255 and  *)
(* the words before them are 0: notes of type 0 at time 0.                 *)
(***************************************************************************)
EXTENDS Integers, Sequences

(* key_d.sv: the 147 words listed. *)
mem_d ==
  << 115, 305, 16731, 33156, 525, 619, 958, 988, 999, 1007, 1049, 1061, 1071, 1083,
     1124, 1186, 1220, 1232, 1240, 1249, 1273, 1291, 1302, 1315, 1327, 1357, 1365, 1376,
     1470, 1535, 1630, 1648, 1672, 1690, 1775, 1809, 1851, 1871, 1946, 2049, 2071, 2091,
     2113, 2142, 2208, 2285, 18687, 35079, 2321, 18788, 35184, 2428, 18842, 35250, 2499, 18895,
     35291, 18925, 35333, 18967, 35375, 2757, 2773, 2815, 2839, 2898, 2952, 2972, 2994, 19431,
     35835, 3077, 19514, 35918, 3196, 3246, 3267, 3293, 3309, 3329, 3392, 19818, 36226, 3478,
     3507, 3529, 3553, 3583, 3642, 3692, 3714, 3791, 3851, 3976, 4029, 4083, 20485, 36892,
     4132, 4144, 4166, 4208, 4249, 4291, 20695, 37101, 4365, 4386, 4416, 4511, 4535, 4553,
     4607, 4680, 4722, 4743, 4773, 4851, 4892, 4922, 4964, 4988, 4999, 5009, 5051, 5063,
     5071, 5113, 5188, 5218, 5230, 5242, 5313, 5325, 5355, 5367, 5378, 5386, 5470, 5503,
     5533, 21949, 38436, 5843, 5843, 5843, 5843 >>

(* key_f.sv: the 114 words listed. *)
mem_f ==
  << 136, 190, 243, 263, 452, 472, 505, 577, 642, 17068, 33684, 1019, 1103, 1156,
     1166, 1178, 1386, 1440, 1460, 1482, 1501, 1523, 1714, 1734, 1755, 1829, 1892, 18296,
     34702, 1964, 1988, 2005, 2029, 18550, 34952, 2249, 2269, 2333, 18729, 35121, 2394, 18820,
     35216, 2490, 2573, 2615, 19020, 35519, 2785, 19241, 35648, 2910, 2942, 3025, 3172, 19598,
     36006, 3285, 19735, 36142, 3410, 3499, 3571, 3672, 3781, 3803, 3829, 20254, 36680, 3934,
     3958, 3999, 4049, 4186, 4269, 4345, 4357, 4374, 4440, 4470, 20866, 37269, 4523, 4543,
     4581, 4624, 4632, 21032, 37440, 4702, 4797, 4815, 4827, 4839, 4942, 4954, 5021, 5083,
     5134, 5158, 5166, 5176, 5250, 5295, 5420, 5428, 5438, 5450, 5515, 5557, 5843, 5843,
     5843, 5843 >>

(* key_j.sv: the 130 words listed. *)
mem_j ==
  << 115, 148, 243, 285, 327, 388, 484, 525, 662, 17129, 33684, 1019, 1029, 1041,
     1049, 1095, 1186, 1198, 1208, 1220, 1281, 1327, 1333, 1345, 1357, 1452, 1470, 1493,
     1513, 17919, 34398, 1638, 1660, 1679, 1785, 1829, 1851, 18255, 34660, 1934, 1988, 2029,
     2059, 2101, 18508, 34910, 2228, 2249, 2291, 2311, 18737, 35133, 2416, 2458, 18907, 35299,
     2553, 2626, 19062, 35458, 2744, 19177, 35583, 2847, 2898, 2930, 3119, 3287, 19693, 36097,
     3392, 3416, 3487, 3529, 3571, 3642, 3714, 20151, 36547, 3797, 3851, 20360, 36767, 4029,
     4071, 4101, 20528, 36934, 20592, 37017, 4303, 4333, 4357, 4365, 20770, 37184, 4470, 4511,
     4523, 4543, 20937, 37349, 4619, 4672, 4722, 4755, 4868, 21276, 37702, 4948, 4958, 5051,
     5083, 5093, 5105, 5188, 5200, 5208, 5325, 5337, 5345, 5386, 5398, 5408, 5523, 5545,
     5843, 5843, 5843, 5843 >>

(* key_k.sv: the 147 words listed. *)
mem_k ==
  << 168, 190, 410, 452, 601, 684, 958, 966, 976, 988, 1113, 1124, 1136, 1144,
     1156, 1261, 1291, 1386, 1398, 1406, 1418, 1428, 1501, 1702, 1726, 1744, 1763, 1817,
     1912, 1954, 1976, 1996, 2017, 2037, 2079, 2154, 2184, 2208, 2269, 2279, 18705, 35101,
     2345, 18758, 35162, 2404, 18812, 35204, 2482, 18874, 35267, 2511, 2541, 18949, 35351, 2595,
     2607, 19020, 35416, 2660, 2702, 19104, 35500, 2751, 2761, 2827, 2880, 2910, 2922, 19356,
     35762, 3005, 3025, 3047, 3067, 3101, 3130, 3150, 19556, 35964, 3214, 3238, 3279, 3297,
     3351, 3374, 3434, 19842, 36246, 3499, 3507, 3553, 3583, 3672, 3692, 3787, 20193, 36597,
     20254, 36680, 3934, 4007, 4049, 4124, 4186, 4269, 4281, 4311, 4345, 4457, 4482, 4501,
     4535, 4626, 4636, 4648, 4702, 4773, 4797, 4815, 4827, 4839, 4988, 5021, 5029, 5041,
     5124, 5146, 5158, 5218, 5250, 5261, 5271, 5283, 5303, 5355, 5420, 5462, 5482, 5503,
     5533, 21949, 38436, 5843, 5843, 5843, 5843 >>

-----------------------------------------------------------------------------
(* Size of `mem' and the two fields of its words. *)
ChartWords == 256
KindBits(word) == word \div 16384
TimeBits(word) == word % 16384

(* The number of zero words the conversion puts in front of a list. *)
Padding(list) == ChartWords - Len(list)

(* A chart: the record of the two fields of mem[i], for every index.       *)
Unpack(list) ==
  [i \in 0 .. ChartWords - 1 |->
     LET word == IF i < Padding(list) THEN 0 ELSE list[i - Padding(list) + 1]
     IN  [kind |-> KindBits(word), time |-> TimeBits(word)]]

Song == [D |-> mem_d, F |-> mem_f, J |-> mem_j, K |-> mem_k]

SongChart == [t \in DOMAIN Song |-> Unpack(Song[t])]
SongFirst == [t \in DOMAIN Song |-> Padding(Song[t])]

(* Every list ends in four copies of the same word, beyond the last note.  *)
SongLast == [t \in DOMAIN Song |-> ChartWords - 4]
=============================================================================
