------------------------------ MODULE KeyTable ------------------------------
(***************************************************************************)
(* The tables of src/src/keyparser/keys.h as do_parser.sh has made them.   *)
(*                                                                         *)
(* A name is its place in the order of strcasecmp(), doubled, so that the  *)
(* odd numbers are the names that are not in the table.                    *)
(***************************************************************************)
EXTENDS Integers, TLC

table_count == 418

\* The names were sorted in upper case, in which "_" is behind the letters and
\* not before them, as it is in the lower case strcasecmp() compares:
\* Key_Delete, for one, at 137, comes before the three names it should follow.
misplaced ==
    98 :> 100 @@ 99 :> 101 @@ 100 :> 98 @@ 101 :> 99
    @@ 137 :> 140 @@ 138 :> 141 @@ 139 :> 137 @@ 140 :> 138 @@ 141 :> 139
    @@ 145 :> 146 @@ 146 :> 145 @@ 235 :> 236 @@ 236 :> 235
    @@ 395 :> 397 @@ 396 :> 395 @@ 397 :> 396

table_names ==
    [i \in 0..table_count - 1 |->
        2 * (IF i \in DOMAIN misplaced THEN misplaced[i] ELSE i)]

\* The codes of linux/input.h for these names.
codes == <<
   256, 257, 258, 259, 260, 261, 262, 263, 264, 265, 304, 305, 278, 294, 295,
   296, 297, 298, 299, 306, 303, 320, 276, 277, 304, 336, 337, 288, 272, 274,
   256, 316, 272, 293, 273, 314, 275, 315, 331, 332, 279, 289, 290, 317, 318,
   310, 312, 324, 322, 333, 325, 327, 326, 320, 323, 321, 334, 291, 292, 330,
   311, 313, 288, 336, 307, 308, 309, 11, 2, 86, 3, 4, 5, 6, 7, 8, 9, 10, 30,
   406, 429, 129, 222, 371, 40, 361, 392, 390, 48, 158, 43, 14, 209, 236, 401,
   237, 156, 411, 224, 225, 243, 244, 497, 506, 498, 499, 500, 501, 502, 503,
   504, 505, 46, 140, 397, 212, 223, 58, 383, 363, 403, 402, 216, 355, 206,
   160, 152, 51, 127, 157, 171, 218, 133, 137, 154, 32, 426, 111, 146, 448,
   449, 451, 413, 153, 394, 431, 245, 235, 52, 108, 389, 18, 176, 422, 161,
   162, 215, 107, 28, 365, 13, 1, 174, 33, 59, 68, 87, 88, 183, 184, 185, 186,
   187, 188, 189, 60, 190, 191, 192, 193, 194, 61, 62, 63, 64, 65, 66, 67,
   208, 364, 144, 219, 136, 404, 464, 478, 479, 484, 480, 481, 465, 482, 466,
   475, 476, 477, 467, 468, 469, 470, 471, 472, 473, 474, 483, 159, 233, 132,
   34, 417, 354, 424, 41, 399, 35, 122, 123, 138, 92, 91, 102, 172, 211, 23,
   358, 110, 450, 170, 36, 37, 90, 93, 229, 228, 230, 374, 82, 79, 80, 81, 75,
   76, 77, 71, 72, 73, 55, 121, 83, 96, 117, 95, 179, 74, 78, 118, 180, 98,
   38, 368, 405, 105, 56, 26, 29, 125, 42, 101, 395, 50, 112, 155, 226, 396,
   139, 430, 367, 12, 373, 175, 391, 151, 94, 113, 49, 181, 427, 407, 163, 69,
   24, 352, 134, 357, 25, 109, 104, 135, 119, 201, 376, 169, 207, 200, 387,
   164, 116, 356, 425, 412, 165, 210, 148, 149, 202, 203, 362, 130, 366, 16,
   214, 19, 385, 167, 398, 182, 173, 232, 408, 168, 106, 100, 27, 97, 126, 54,
   89, 31, 381, 382, 234, 375, 178, 70, 177, 217, 353, 39, 231, 145, 141, 221,
   410, 53, 142, 409, 213, 57, 220, 423, 128, 166, 370, 205, 227, 99, 20, 15,
   384, 414, 388, 359, 369, 386, 377, 378, 415, 22, 131, 103, 47, 379, 380,
   360, 393, 416, 241, 242, 428, 114, 115, 17, 143, 238, 421, 150, 45, 147,
   21, 400, 124, 44, 85, 372, 418, 419, 420, 0
  >>

table_values == [i \in 0..table_count - 1 |-> codes[i + 1]]
=============================================================================
